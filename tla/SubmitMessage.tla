--------------------------- MODULE SubmitMessage ---------------------------
(***************************************************************************)
(* POST /conversations/{id}/messages as a whole: submit_message composes   *)
(* the idempotency ledger with the execution of the turn, on one database  *)
(* session but in separate transactions, so a request can be lost between  *)
(* any two of them.                                                        *)
(*                                                                         *)
(* A slot is a conversation and a key: the route holds the conversation's  *)
(* id, and only its owner gets past require, so the user adds nothing.     *)
(***************************************************************************)
EXTENDS Naturals, Sequences

CONSTANTS
    Requests, Conversations, Deleters, ConvOf, Strangers, Streaming, Faults,
    Nobody,          \* as in ConversationTurns
    Keys,            \* Idempotency-Key values
    Payloads,        \* request bodies, the stream flag included
    KeyOf, PayloadOf,
    Expiring,        \* the slots whose retention may end during a behaviour
    NoBody

VARIABLES
    latest, deleted, messages, runs, thread, final, purges, tpc, snapshot,
    memory, answer,  \* as in ConversationTurns
    keys, ipc, told  \* as in IdempotencyKeys

Slots == Conversations \X Keys
Slot(r) == <<ConvOf[r], KeyOf[r]>>

(* Response snapshots: the completed turn, or the code of the error.       *)
Snapshots == Requests \cup {"conversation_busy", "internal_error"}

Turns == INSTANCE ConversationTurns

Ledger == INSTANCE IdempotencyKeys WITH
    Fingerprints <- Payloads, FingerprintOf <- PayloadOf, Bodies <- Snapshots,
    SlotOf <- [r \in Requests |-> Slot(r)]

ASSUME SubmitAssumption ==
    /\ Turns!TurnsAssumption
    /\ Ledger!IdempotencyAssumption
    /\ KeyOf \in [Requests -> Keys]
    /\ PayloadOf \in [Requests -> Payloads]
    /\ Expiring \subseteq Slots
    /\ Requests \cap {"conversation_busy", "internal_error"} = {}

turnVars == <<latest, deleted, messages, runs, thread, final, purges,
              tpc, snapshot, memory, answer>>
ledgerVars == <<keys, ipc, told>>
vars == <<turnVars, ledgerVars>>

TypeOK == Turns!TypeOK /\ Ledger!TypeOK

Init == Turns!Init /\ Ledger!Init

-----------------------------------------------------------------------------

(* require, or its 404.                                                    *)
Require(r) ==
    /\ Turns!Require(r) \/ Turns!NotFound(r)
    /\ UNCHANGED ledgerVars

(* missing_idempotency_key and input_content_not_supported, of a request   *)
(* without a key or with other input than text.                            *)
Refuse(r) ==
    /\ ipc[r] = "idle"
    /\ Turns!Leave(r)
    /\ UNCHANGED ledgerVars

(* begin: a verdict, a replay or an internal error ends the request.       *)
BeginKey(r) ==
    /\ tpc[r] = "required"
    /\ Ledger!Begin(r)
    /\ IF ipc'[r] \in {"insert", "recheck", "reserved"}
       THEN UNCHANGED turnVars
       ELSE Turns!Leave(r)

(* A slip, for the mutation runs: the turn starts without a reservation.   *)
StartTurnUnreserved(r) ==
    /\ Turns!BeginTurn(r) \/ Turns!BusyTurn(r)
    /\ UNCHANGED ledgerVars

(* The reserved request executes its turn.                                 *)
StartTurn(r) ==
    /\ ipc[r] = "reserved"
    /\ Turns!BeginTurn(r) \/ Turns!BusyTurn(r)
    /\ UNCHANGED ledgerVars

Execute(r) == Turns!Execute(r) /\ UNCHANGED ledgerVars

Raise(r) == Turns!Raise(r) /\ UNCHANGED ledgerVars

(* A slip: the response is stored before the turn has committed.           *)
CompleteKeyEarly(r) ==
    /\ tpc[r] = "answered"
    /\ Ledger!Complete(r, r)
    /\ UNCHANGED turnVars

(* complete: the response of the finished turn is stored.                  *)
CompleteKey(r) ==
    /\ tpc[r] = "completed"
    /\ Ledger!Complete(r, r)
    /\ UNCHANGED turnVars

(* A slip: the handler of other exceptions than APIError is missing.       *)
FailKeyOfAPIError(r) ==
    /\ tpc[r] = "busy" /\ Ledger!Fail(r, "conversation_busy")
    /\ UNCHANGED turnVars

(* fail: the error that ended execute or stream is stored.                 *)
FailKey(r) ==
    /\ \/ tpc[r] = "busy" /\ Ledger!Fail(r, "conversation_busy")
       \/ tpc[r] = "failed" /\ Ledger!Fail(r, "internal_error")
    /\ UNCHANGED turnVars

(* The request vanishes before its turn has ended, or between the turn's   *)
(* last transaction and the one that stores its response.                  *)
Lose(r) ==
    /\ Turns!Lose(r)
    /\ IF ipc[r] \in Ledger!Working THEN Ledger!Abandon(r) ELSE UNCHANGED ledgerVars

LoseResponse(r) ==
    /\ "lost" \in Faults
    /\ tpc[r] \in {"completed", "busy", "failed"}
    /\ ipc[r] = "reserved"
    /\ Ledger!Abandon(r)
    /\ UNCHANGED turnVars

Expire(s) ==
    /\ s \in Expiring
    /\ Ledger!Expire(s)
    /\ UNCHANGED turnVars

(* delete_conversation runs beside the submissions.                        *)
DeleteConversation(d) ==
    /\ Turns!RequireDelete(d) \/ Turns!Delete(d)
    /\ UNCHANGED ledgerVars

Handle(r) == \/ Refuse(r) \/ BeginKey(r) \/ StartTurn(r) \/ Execute(r)
             \/ CompleteKey(r) \/ FailKey(r)

Ended(r) == /\ tpc[r] \in {"not_found", "left", "busy", "completed", "failed",
                           "lost", "deleted"}
            /\ r \in Requests => ipc[r] # "reserved"

Quiet ==
    /\ \A r \in Requests \cup Deleters : Ended(r)
    /\ UNCHANGED vars

Next ==
    \/ \E r \in Requests :
        Require(r) \/ Handle(r) \/ Raise(r) \/ Lose(r) \/ LoseResponse(r)
    \/ \E d \in Deleters : DeleteConversation(d)
    \/ \E s \in Slots : Expire(s)
    \/ Quiet

Spec == Init /\ [][Next]_vars

(* A handler that can take a step takes it: the database answers and the   *)
(* graph returns or raises.  Arrival, loss and expiry are never forced.    *)
FairSpec == Spec /\ \A r \in Requests : WF_vars(Handle(r))

-----------------------------------------------------------------------------

(* Exactly once: of all the requests with one key at most one ever starts  *)
(* a turn, whatever is lost or retried, unless the key's row has expired;  *)
(* even then the turn of the first has ended.                              *)
AtMostOneRunPerKey ==
    \A r, o \in Requests :
        /\ r # o /\ Slot(r) = Slot(o)
        /\ runs[r] # "none" /\ runs[o] # "none"
        => /\ Slot(r) \in Expiring
           /\ tpc[r] \notin Turns!InGraph \/ tpc[o] \notin Turns!InGraph

(* A stored response agrees with the transcript, two transactions later:   *)
(* a completed one with the completed run and its own reply, an error of   *)
(* the turn with a failed run, and a busy answer with no run at all.       *)
StoredResponseMatchesRun ==
    \A s \in Slots :
        LET row == keys[s] IN
        /\ row.status = "completed" =>
            /\ row.body = row.owner /\ runs[row.owner] = "completed"
            /\ \E m \in messages :
                /\ m.run = row.owner /\ m.role = "assistant"
                /\ m.status = "complete" /\ m.text = row.owner
        /\ row.status = "failed" =>
            runs[row.owner] =
                IF row.body = "conversation_busy" THEN "none" ELSE "failed"

(* A turn in progress is covered by its key: as long as its request lives  *)
(* a retry meets the processing row and is refused.                        *)
TurnHoldsKey ==
    \A r \in Requests :
        tpc[r] \in Turns!InGraph \cup {"committed", "failing"} =>
            /\ ipc[r] = "reserved"
            /\ keys[Slot(r)].owner = r /\ keys[Slot(r)].status = "processing"

(* Every submission that is accepted is answered: no interleaving of       *)
(* retries, busy turns, failures and deletions leaves a handler waiting.   *)
SubmissionsAnswered ==
    \A r \in Requests : tpc[r] = "required" ~> Ended(r)

=============================================================================
