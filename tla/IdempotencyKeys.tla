-------------------------- MODULE IdempotencyKeys --------------------------
(***************************************************************************)
(* The idempotency ledger of app/services/idempotency.py: one database row *)
(* per (user, method, route, key), called a slot here, that reserves a     *)
(* mutation for one request, stores its terminal response and hands that   *)
(* response to every retry until the row expires.                          *)
(*                                                                         *)
(* Every action is one transaction of the service.  PostgreSQL runs them   *)
(* at READ COMMITTED, so what a request read in one action may be stale in *)
(* its next one; the unique constraint on the slot is what Insert meets.   *)
(***************************************************************************)

CONSTANTS
    Requests,        \* HTTP requests that carry an Idempotency-Key
    Slots,           \* the (user, method, route, key) tuples they use
    Fingerprints,    \* digests of their payloads
    Bodies,          \* terminal responses a mutation can store
    SlotOf,          \* the slot of each request
    FingerprintOf,   \* the payload digest of each request
    NoBody,          \* the NULL response_snapshot
    Nobody           \* the owner of an absent row

ASSUME IdempotencyAssumption ==
    /\ SlotOf \in [Requests -> Slots]
    /\ FingerprintOf \in [Requests -> Fingerprints]
    /\ NoBody \notin Bodies
    /\ Nobody \notin Requests

VARIABLES
    keys,            \* the table: the row of every slot
    ipc,             \* where each request stands with the service
    told             \* the terminal response each request has been given

idempotencyVars == <<keys, ipc, told>>

-----------------------------------------------------------------------------

(* A row; "owner" is the request that inserted it and "born" the requests  *)
(* in flight at that moment, which is all the model keeps of created_at.   *)
(* The stored fingerprint is the owner's.                                  *)
Row == [status: {"absent", "processing", "completed", "failed"},
        owner: Requests \cup {Nobody},
        body: Bodies \cup {NoBody},
        born: SUBSET Requests,
        expired: BOOLEAN]

Absent == [status |-> "absent", owner |-> Nobody, body |-> NoBody,
           born |-> {}, expired |-> FALSE]

Outcome == [status: {"completed", "failed"}, body: Bodies]
NoOutcome == [status |-> "none", body |-> NoBody]

Verdicts == {"key_reused", "in_progress", "unavailable", "replayed"}

TypeOK ==
    /\ keys \in [Slots -> Row]
    /\ ipc \in [Requests -> {"idle", "insert", "recheck", "reserved", "stored",
                             "error", "abandoned"} \cup Verdicts]
    /\ told \in [Requests -> Outcome \cup {NoOutcome}]

Init ==
    /\ keys = [s \in Slots |-> Absent]
    /\ ipc = [r \in Requests |-> "idle"]
    /\ told = [r \in Requests |-> NoOutcome]

(* The row a request would use, and the requests inside begin() or holding *)
(* a reservation.                                                          *)
RowOf(r) == keys[SlotOf[r]]
Working == {"insert", "recheck", "reserved"}
InFlight == {r \in Requests : ipc[r] \in Working}

-----------------------------------------------------------------------------

(* A slip, for the mutation runs: the fingerprints are not compared.       *)
VerdictAnyPayload(r) ==
    IF RowOf(r).status = "processing" THEN "in_progress"
    ELSE IF RowOf(r).body = NoBody THEN "unavailable"
    ELSE "replayed"

(* _reservation_for_existing: what a request that meets a row is told.     *)
Verdict(r) ==
    IF FingerprintOf[RowOf(r).owner] # FingerprintOf[r] THEN "key_reused"
    ELSE IF RowOf(r).status = "processing" THEN "in_progress"
    ELSE IF RowOf(r).body = NoBody THEN "unavailable"
    ELSE "replayed"

(* A slip: the row is handed out whatever the verdict.                     *)
SettleAny(r) ==
    /\ ipc' = [ipc EXCEPT ![r] = Verdict(r)]
    /\ told' = [told EXCEPT ![r] =
            [status |-> RowOf(r).status, body |-> RowOf(r).body]]
    /\ UNCHANGED keys

(* Leave begin() with that verdict, carrying the stored response if it is  *)
(* a replay.                                                               *)
Settle(r) ==
    /\ ipc' = [ipc EXCEPT ![r] = Verdict(r)]
    /\ told' = [told EXCEPT ![r] =
            IF Verdict(r) = "replayed"
            THEN [status |-> RowOf(r).status, body |-> RowOf(r).body]
            ELSE NoOutcome]
    /\ UNCHANGED keys

(* begin: the locking SELECT finds no row.                                 *)
LookupFree(r) ==
    /\ ipc[r] = "idle"
    /\ RowOf(r).status = "absent"
    /\ ipc' = [ipc EXCEPT ![r] = "insert"]
    /\ UNCHANGED <<keys, told>>

(* A slip: the expiry is not tested.                                       *)
LookupDiscarding(r) ==
    /\ ipc[r] = "idle"
    /\ RowOf(r).status # "absent"
    /\ keys' = [keys EXCEPT ![SlotOf[r]] = Absent]
    /\ ipc' = [ipc EXCEPT ![r] = "insert"]
    /\ UNCHANGED told

(* begin: the row has expired; it is deleted and the deletion committed.   *)
LookupExpired(r) ==
    /\ ipc[r] = "idle"
    /\ RowOf(r).status # "absent"
    /\ RowOf(r).expired
    /\ keys' = [keys EXCEPT ![SlotOf[r]] = Absent]
    /\ ipc' = [ipc EXCEPT ![r] = "insert"]
    /\ UNCHANGED told

(* begin: a live row decides the request.                                  *)
LookupTaken(r) ==
    /\ ipc[r] = "idle"
    /\ RowOf(r).status # "absent"
    /\ ~RowOf(r).expired
    /\ Settle(r)

(* begin: the INSERT commits and the request holds the reservation, which  *)
(* the unique constraint allows only where there is no row.                *)
Reserve(r) ==
    /\ ipc[r] = "insert"
    /\ keys' = [keys EXCEPT ![SlotOf[r]] =
            [status |-> "processing", owner |-> r, body |-> NoBody,
             born |-> InFlight, expired |-> FALSE]]
    /\ ipc' = [ipc EXCEPT ![r] = "reserved"]
    /\ UNCHANGED told

Insert(r) == RowOf(r).status = "absent" /\ Reserve(r)

(* begin: the INSERT violates the unique constraint and is rolled back.    *)
InsertConflict(r) ==
    /\ ipc[r] = "insert"
    /\ RowOf(r).status # "absent"
    /\ ipc' = [ipc EXCEPT ![r] = "recheck"]
    /\ UNCHANGED <<keys, told>>

(* begin: the row that won is read back, this time whatever its expiry; if *)
(* it is gone the IntegrityError is raised again, an internal error.       *)
Recheck(r) ==
    /\ ipc[r] = "recheck"
    /\ IF RowOf(r).status = "absent"
       THEN /\ ipc' = [ipc EXCEPT ![r] = "error"]
            /\ UNCHANGED <<keys, told>>
       ELSE Settle(r)

(* complete and fail: the holder writes its terminal response through the  *)
(* row object it inserted.                                                 *)
Store(r, status, body) ==
    /\ ipc[r] = "reserved"
    /\ keys' = [keys EXCEPT ![SlotOf[r]].status = status,
                            ![SlotOf[r]].body = body]
    /\ ipc' = [ipc EXCEPT ![r] = "stored"]
    /\ told' = [told EXCEPT ![r] = [status |-> status, body |-> body]]

Complete(r, body) == Store(r, "completed", body)
Fail(r, body) == Store(r, "failed", body)

(* The process dies, the client's disconnection cancels the handler, or    *)
(* the last commit fails: the request ends and its row stays as it is.     *)
Abandon(r) ==
    /\ ipc[r] \in Working
    /\ ipc' = [ipc EXCEPT ![r] = "abandoned"]
    /\ UNCHANGED <<keys, told>>

(* A slip: a retention shorter than a request.                             *)
ExpireAnytime(s) ==
    /\ keys[s].status # "absent"
    /\ ~keys[s].expired
    /\ keys' = [keys EXCEPT ![s].expired = TRUE]
    /\ UNCHANGED <<ipc, told>>

(* retention_hours pass: the clock is abstracted to the fact that no       *)
(* request lasts 24 hours, so every request that was in flight when the    *)
(* row was inserted has ended.                                             *)
Expire(s) ==
    /\ keys[s].status # "absent"
    /\ ~keys[s].expired
    /\ keys[s].born \cap InFlight = {}
    /\ keys' = [keys EXCEPT ![s].expired = TRUE]
    /\ UNCHANGED <<ipc, told>>

Begin(r) == \/ LookupFree(r) \/ LookupExpired(r) \/ LookupTaken(r)
            \/ Insert(r) \/ InsertConflict(r) \/ Recheck(r)

Finish(r) == \E body \in Bodies : Complete(r, body) \/ Fail(r, body)

(* All requests have been answered and nothing is left to expire.          *)
Quiet ==
    /\ \A r \in Requests : ipc[r] \notin Working \cup {"idle"}
    /\ \A s \in Slots : keys[s].status = "absent" \/ keys[s].expired
    /\ UNCHANGED idempotencyVars

Next ==
    \/ \E r \in Requests : Begin(r) \/ Finish(r) \/ Abandon(r)
    \/ \E s \in Slots : Expire(s)
    \/ Quiet

Spec == Init /\ [][Next]_idempotencyVars

-----------------------------------------------------------------------------

(* The reservation is exclusive: a request that may run the mutation owns  *)
(* the row of its slot, which is still processing, so two retries of one   *)
(* key never run the mutation side by side (idempotency.py:70-87).         *)
SoleReservation ==
    \A r \in Requests : ipc[r] = "reserved" =>
        RowOf(r).owner = r /\ RowOf(r).status = "processing"

(* After losing the INSERT race a request always reads back an unexpired   *)
(* row, although line 83 does not test the expiry and line 85 would turn a *)
(* vanished row into an internal error; and a terminal row always has its  *)
(* stored response (line 161).                                             *)
ConflictRowSurvives ==
    \A r \in Requests :
        /\ ipc[r] = "recheck" => RowOf(r).status # "absent" /\ ~RowOf(r).expired
        /\ ipc[r] \notin {"error", "unavailable"}

(* What a retry is told is what another request with the same slot and the *)
(* same payload stored (idempotency.py:144-165), never a response to a     *)
(* different payload or one that was never stored.                         *)
ReplayFaithful ==
    \A r \in Requests : ipc[r] = "replayed" =>
        \E o \in Requests \ {r} :
            /\ SlotOf[o] = SlotOf[r]
            /\ FingerprintOf[o] = FingerprintOf[r]
            /\ ipc[o] = "stored"
            /\ told[o] = told[r]

(* A stored response is final: it is neither overwritten nor removed       *)
(* before the row has expired, and a row changes hands only through a      *)
(* deletion (idempotency.py:63-66, 89-123).                                *)
StoredResponseFinal ==
    [][\A s \in Slots :
        /\ keys[s].status \in {"completed", "failed"} /\ ~keys[s].expired =>
            /\ keys'[s].status = keys[s].status
            /\ keys'[s].body = keys[s].body
        /\ keys[s].status # "absent" /\ keys'[s].status # "absent" =>
            keys'[s].owner = keys[s].owner]_idempotencyVars

(* The abstract register: a row is its cell, a reservation is work.        *)
Cell(s) ==
    [status |-> CASE keys[s].status = "absent" -> "free"
                  [] keys[s].status = "processing" -> "open"
                  [] OTHER -> "closed",
     holder |-> keys[s].owner,
     result |-> IF keys[s].status \in {"completed", "failed"}
                THEN [status |-> keys[s].status, body |-> keys[s].body]
                ELSE NoOutcome,
     lapsed |-> keys[s].expired]

Stage(r) == CASE ipc[r] \in {"idle", "insert", "recheck"} -> "waiting"
              [] ipc[r] = "reserved" -> "working"
              [] OTHER -> "over"

Once == INSTANCE OnceRegister WITH
    Results <- Outcome, NoResult <- NoOutcome, heard <- told,
    cell <- [s \in Slots |-> Cell(s)], stage <- [r \in Requests |-> Stage(r)]

(* The three transactions of begin and the one that stores the response    *)
(* implement a register that is opened once and closed once, although each *)
(* acts on what an earlier one has read (idempotency.py:46-165).           *)
ImplementsOnceRegister == Once!Spec

=============================================================================
