----------------------- MODULE IdempotencyKeysProofs -----------------------
(***************************************************************************)
(* Proofs that the safety properties of IdempotencyKeys hold for any       *)
(* requests, slots, payloads and responses.                                *)
(***************************************************************************)
EXTENDS IdempotencyKeys, TLAPS

(* Why a row never vanishes under a request that raced for it: every       *)
(* request in flight on the slot was already in flight when the row was    *)
(* inserted, so the row cannot expire before the request ends.             *)
InFlightWitnessed ==
    \A r \in InFlight : RowOf(r).status # "absent" =>
        r \in RowOf(r).born /\ ~RowOf(r).expired

(* A present row belongs to a request of its slot; while it is processing  *)
(* the owner holds it or has been lost, once it is terminal it is what the *)
(* owner stored.                                                           *)
RowsOwned ==
    \A s \in Slots : keys[s].status # "absent" =>
        /\ keys[s].owner \in Requests
        /\ SlotOf[keys[s].owner] = s
        /\ keys[s].status = "processing" =>
            ipc[keys[s].owner] \in {"reserved", "abandoned"}
        /\ keys[s].status # "processing" =>
            /\ keys[s].body \in Bodies
            /\ ipc[keys[s].owner] = "stored"
            /\ told[keys[s].owner] =
                    [status |-> keys[s].status, body |-> keys[s].body]

IndInv ==
    /\ TypeOK
    /\ InFlightWitnessed
    /\ RowsOwned
    /\ SoleReservation
    /\ ConflictRowSurvives
    /\ ReplayFaithful

-----------------------------------------------------------------------------

(* No request has started and the table is empty.                          *)
LEMMA InitIndInv == Init => IndInv
  BY IdempotencyAssumption
  DEF Init, IndInv, TypeOK, Row, Absent, Outcome, NoOutcome, InFlightWitnessed,
      InFlight, Working, RowOf, RowsOwned, SoleReservation, ConflictRowSurvives,
      ReplayFaithful

(* A request told the verdict of a live row: it leaves the service with a  *)
(* response that the row's owner stored, or with a refusal.                *)
LEMMA SettleIndInv ==
  ASSUME IndInv, NEW r \in Requests, ipc[r] \in {"idle", "recheck"},
         RowOf(r).status # "absent", Settle(r)
  PROVE  IndInv'
<1> USE IdempotencyAssumption
<1> DEFINE s == SlotOf[r]
           o == keys[s].owner
<1>1. s \in Slots /\ o \in Requests /\ SlotOf[o] = s
  BY DEF IndInv, RowsOwned, RowOf
<1>2. /\ Verdict(r) \in {"key_reused", "in_progress", "replayed"}
      /\ Verdict(r) = "replayed" =>
            /\ FingerprintOf[o] = FingerprintOf[r]
            /\ keys[s].status \in {"completed", "failed"}
            /\ keys[s].body \in Bodies
            /\ ipc[o] = "stored"
            /\ o # r
            /\ told[o] = [status |-> keys[s].status, body |-> keys[s].body]
  BY <1>1 DEF Verdict, RowOf, IndInv, RowsOwned, TypeOK, Row
<1>3. TypeOK'
  BY <1>1, <1>2 DEF Settle, IndInv, TypeOK, Verdicts, Outcome, NoOutcome, RowOf
<1>4. /\ ipc'[r] \in {"key_reused", "in_progress", "replayed"}
      /\ \A x \in Requests \ {r} : ipc'[x] = ipc[x] /\ told'[x] = told[x]
      /\ keys' = keys
  BY <1>2 DEF Settle, IndInv, TypeOK
<1>5. InFlightWitnessed' /\ SoleReservation' /\ ConflictRowSurvives'
  BY <1>4 DEF IndInv, InFlightWitnessed, SoleReservation, ConflictRowSurvives,
              InFlight, Working, RowOf
<1>6. RowsOwned'
  <2>1. ASSUME NEW x \in Slots, keys[x].status # "absent"
        PROVE  keys[x].owner \in Requests /\ keys[x].owner # r
    BY <2>1, <1>1 DEF IndInv, RowsOwned, TypeOK, Row
  <2> QED
    BY <2>1, <1>4 DEF IndInv, RowsOwned
<1>7. ReplayFaithful'
  <2> SUFFICES ASSUME NEW x \in Requests, ipc'[x] = "replayed"
               PROVE  \E w \in Requests \ {x} :
                        /\ SlotOf[w] = SlotOf[x]
                        /\ FingerprintOf[w] = FingerprintOf[x]
                        /\ ipc'[w] = "stored"
                        /\ told'[w] = told'[x]
    BY DEF ReplayFaithful
  <2>1. CASE x = r
    <3>1. Verdict(r) = "replayed"
      BY <2>1 DEF Settle, IndInv, TypeOK
    <3>2. told'[r] = told[o]
      BY <3>1, <1>2 DEF Settle, IndInv, TypeOK, RowOf
    <3> QED
      BY <2>1, <3>1, <3>2, <1>1, <1>2, <1>4
  <2>2. CASE x # r
    <3>1. ipc[x] = "replayed"
      BY <2>2, <1>4
    <3>2. PICK w \in Requests \ {x} :
              /\ SlotOf[w] = SlotOf[x]
              /\ FingerprintOf[w] = FingerprintOf[x]
              /\ ipc[w] = "stored"
              /\ told[w] = told[x]
      BY <3>1 DEF IndInv, ReplayFaithful
    <3>3. w # r
      BY <3>2
    <3> QED
      BY <2>2, <3>2, <3>3, <1>4
  <2> QED
    BY <2>1, <2>2
<1> QED
  BY <1>3, <1>5, <1>6, <1>7 DEF IndInv

(* Steps that move one request without touching the table or a response:   *)
(* only the witnesses and the ownership of rows can be disturbed.          *)
LEMMA MoveIndInv ==
  ASSUME IndInv, NEW r \in Requests,
         \/ LookupFree(r)
         \/ InsertConflict(r)
         \/ Abandon(r)
  PROVE  IndInv'
<1> USE IdempotencyAssumption DEF IndInv
<1>1. /\ ipc[r] \in {"idle", "insert", "recheck", "reserved"}
      /\ ipc'[r] \in {"insert", "recheck", "abandoned"}
      /\ ipc'[r] = "insert" => RowOf(r).status = "absent"
      /\ ipc'[r] = "recheck" => ipc[r] = "insert" /\ RowOf(r).status # "absent"
      /\ ipc[r] = "reserved" => ipc'[r] = "abandoned"
      /\ ipc' = [ipc EXCEPT ![r] = ipc'[r]]
      /\ keys' = keys /\ told' = told
  BY DEF TypeOK, LookupFree, InsertConflict, Abandon, Working
<1>2. TypeOK'
  BY <1>1 DEF TypeOK
<1>3. InFlightWitnessed'
  BY <1>1 DEF TypeOK, InFlightWitnessed, InFlight, Working, RowOf
<1>4. SoleReservation' /\ ConflictRowSurvives'
  BY <1>1 DEF TypeOK, SoleReservation, ConflictRowSurvives, InFlightWitnessed,
              InFlight, Working, RowOf
<1>5. RowsOwned'
  BY <1>1 DEF TypeOK, RowsOwned
<1>6. ReplayFaithful'
  BY <1>1 DEF TypeOK, ReplayFaithful
<1> QED
  BY <1>2, <1>3, <1>4, <1>5, <1>6

(* An expired row is deleted: nobody in flight uses its slot.              *)
LEMMA LookupExpiredIndInv ==
  ASSUME IndInv, NEW r \in Requests, LookupExpired(r)
  PROVE  IndInv'
<1> USE IdempotencyAssumption DEF IndInv
<1>1. /\ SlotOf[r] \in Slots
      /\ keys' = [keys EXCEPT ![SlotOf[r]] = Absent]
      /\ ipc' = [ipc EXCEPT ![r] = "insert"]
      /\ told' = told
      /\ ipc[r] = "idle"
  BY DEF LookupExpired
<1>2. ASSUME NEW x \in InFlight
      PROVE  SlotOf[x] # SlotOf[r]
  BY DEF LookupExpired, InFlightWitnessed, RowOf
<1>3. TypeOK'
  BY <1>1 DEF TypeOK, Row, Absent
<1>4. InFlightWitnessed'
  BY <1>1, <1>2 DEF TypeOK, InFlightWitnessed, InFlight, Working, RowOf, Absent
<1>5. SoleReservation' /\ ConflictRowSurvives'
  BY <1>1, <1>2 DEF TypeOK, SoleReservation, ConflictRowSurvives, InFlight,
                    Working, RowOf
<1>6. RowsOwned'
  BY <1>1 DEF TypeOK, RowsOwned, Absent
<1>7. ReplayFaithful'
  BY <1>1 DEF TypeOK, ReplayFaithful
<1> QED
  BY <1>3, <1>4, <1>5, <1>6, <1>7

(* The INSERT: the new row witnesses every request in flight.              *)
LEMMA InsertIndInv ==
  ASSUME IndInv, NEW r \in Requests, Insert(r)
  PROVE  IndInv'
<1> USE IdempotencyAssumption DEF IndInv
<1> DEFINE s == SlotOf[r]
           new == [status |-> "processing", owner |-> r, body |-> NoBody,
                   born |-> InFlight, expired |-> FALSE]
<1>1. /\ s \in Slots
      /\ keys' = [keys EXCEPT ![s] = new]
      /\ ipc' = [ipc EXCEPT ![r] = "reserved"]
      /\ told' = told
      /\ ipc[r] = "insert"
      /\ keys[s].status = "absent"
  BY DEF Insert, Reserve, RowOf
<1>2. InFlight' = InFlight
  BY <1>1 DEF TypeOK, InFlight, Working
<1>3. TypeOK'
  <2>1. new \in Row
    BY DEF Row, InFlight
  <2> QED
    BY <1>1, <2>1 DEF TypeOK
<1>4. InFlightWitnessed'
  BY <1>1, <1>2 DEF TypeOK, InFlightWitnessed, RowOf
<1>5. SoleReservation' /\ ConflictRowSurvives'
  BY <1>1 DEF TypeOK, SoleReservation, ConflictRowSurvives, RowOf
<1>6. RowsOwned'
  BY <1>1 DEF TypeOK, RowsOwned
<1>7. ReplayFaithful'
  BY <1>1 DEF TypeOK, ReplayFaithful
<1> QED
  BY <1>3, <1>4, <1>5, <1>6, <1>7

(* The holder stores a terminal response.                                  *)
LEMMA StoreIndInv ==
  ASSUME IndInv, NEW r \in Requests, NEW status \in {"completed", "failed"},
         NEW body \in Bodies, Store(r, status, body)
  PROVE  IndInv'
<1> USE IdempotencyAssumption DEF IndInv
<1> DEFINE s == SlotOf[r]
           row == [keys[s] EXCEPT !.status = status, !.body = body]
<1>1. /\ s \in Slots
      /\ keys' = [keys EXCEPT ![s] = row]
      /\ ipc' = [ipc EXCEPT ![r] = "stored"]
      /\ told' = [told EXCEPT ![r] = [status |-> status, body |-> body]]
      /\ ipc[r] = "reserved"
      /\ keys[s].owner = r /\ keys[s].status = "processing"
      /\ keys[s] \in Row
  BY DEF Store, SoleReservation, RowOf, TypeOK
<1>2. /\ row \in Row
      /\ row.status = status /\ row.body = body /\ row.owner = r
      /\ row.born = keys[s].born /\ row.expired = keys[s].expired
  BY <1>1 DEF Row
<1> HIDE DEF row
<1>3. TypeOK'
  BY <1>1, <1>2 DEF TypeOK, Outcome
<1>4. InFlightWitnessed'
  BY <1>1, <1>2 DEF TypeOK, InFlightWitnessed, InFlight, Working, RowOf
<1>5. SoleReservation'
  BY <1>1, <1>2 DEF TypeOK, SoleReservation, RowOf
<1>6. ConflictRowSurvives'
  BY <1>1, <1>2 DEF TypeOK, ConflictRowSurvives, RowOf
<1>7. RowsOwned'
  <2>1. ASSUME NEW x \in Slots \ {s}, keys[x].status # "absent"
        PROVE  keys[x].owner \in Requests \ {r}
    BY <2>1 DEF RowsOwned
  <2> QED
    BY <2>1, <1>1, <1>2 DEF TypeOK, RowsOwned
<1>8. ReplayFaithful'
  <2> SUFFICES ASSUME NEW x \in Requests, ipc'[x] = "replayed"
               PROVE  \E w \in Requests \ {x} :
                        /\ SlotOf[w] = SlotOf[x]
                        /\ FingerprintOf[w] = FingerprintOf[x]
                        /\ ipc'[w] = "stored"
                        /\ told'[w] = told'[x]
    BY DEF ReplayFaithful
  <2>1. x # r /\ ipc[x] = "replayed" /\ told'[x] = told[x]
    BY <1>1 DEF TypeOK
  <2>2. PICK w \in Requests \ {x} :
            /\ SlotOf[w] = SlotOf[x]
            /\ FingerprintOf[w] = FingerprintOf[x]
            /\ ipc[w] = "stored"
            /\ told[w] = told[x]
    BY <2>1 DEF ReplayFaithful
  <2>3. ipc'[w] = "stored" /\ told'[w] = told[w]
    BY <2>2, <1>1 DEF TypeOK
  <2> QED
    BY <2>1, <2>2, <2>3
<1> QED
  BY <1>3, <1>4, <1>5, <1>6, <1>7, <1>8

(* The retention ends: by its witnesses no request in flight uses the slot.*)
LEMMA ExpireIndInv ==
  ASSUME IndInv, NEW s \in Slots, Expire(s)
  PROVE  IndInv'
<1> USE IdempotencyAssumption DEF IndInv
<1> DEFINE row == [keys[s] EXCEPT !.expired = TRUE]
<1>1. /\ keys' = [keys EXCEPT ![s] = row]
      /\ ipc' = ipc /\ told' = told
      /\ keys[s] \in Row
  BY DEF Expire, TypeOK
<1>2. /\ row \in Row
      /\ row.status = keys[s].status /\ row.body = keys[s].body
      /\ row.owner = keys[s].owner /\ row.born = keys[s].born
  BY <1>1 DEF Row
<1> HIDE DEF row
<1>3. ASSUME NEW x \in InFlight
      PROVE  SlotOf[x] # s
  BY DEF Expire, InFlightWitnessed, RowOf
<1>4. TypeOK'
  BY <1>1, <1>2 DEF TypeOK
<1>5. InFlightWitnessed'
  BY <1>1, <1>3 DEF TypeOK, InFlightWitnessed, InFlight, RowOf
<1>6. SoleReservation' /\ ConflictRowSurvives'
  BY <1>1, <1>3 DEF TypeOK, SoleReservation, ConflictRowSurvives, InFlight,
                    Working, RowOf
<1>7. RowsOwned' /\ ReplayFaithful'
  BY <1>1, <1>2 DEF TypeOK, RowsOwned, ReplayFaithful
<1> QED
  BY <1>4, <1>5, <1>6, <1>7

(* Every step of the service preserves the invariant.                      *)
LEMMA NextIndInv ==
  ASSUME IndInv, [Next]_idempotencyVars
  PROVE  IndInv'
<1>1. ASSUME NEW r \in Requests, Begin(r)
      PROVE  IndInv'
  <2>1. CASE LookupFree(r) \/ InsertConflict(r)
    BY <2>1, MoveIndInv
  <2>2. CASE LookupExpired(r)
    BY <2>2, LookupExpiredIndInv
  <2>3. CASE LookupTaken(r)
    BY <2>3, SettleIndInv DEF LookupTaken
  <2>4. CASE Insert(r)
    BY <2>4, InsertIndInv
  <2>5. CASE Recheck(r)
    <3>1. RowOf(r).status # "absent" /\ ipc[r] = "recheck"
      BY <2>5 DEF Recheck, IndInv, ConflictRowSurvives
    <3>2. Settle(r)
      BY <2>5, <3>1 DEF Recheck
    <3> QED
      BY <3>1, <3>2, SettleIndInv
  <2> QED
    BY <1>1, <2>1, <2>2, <2>3, <2>4, <2>5 DEF Begin
<1>2. ASSUME NEW r \in Requests, Finish(r)
      PROVE  IndInv'
  BY <1>2, StoreIndInv DEF Finish, Complete, Fail
<1>3. ASSUME NEW r \in Requests, Abandon(r)
      PROVE  IndInv'
  BY <1>3, MoveIndInv
<1>4. ASSUME NEW s \in Slots, Expire(s)
      PROVE  IndInv'
  BY <1>4, ExpireIndInv
<1>5. CASE UNCHANGED idempotencyVars
  BY <1>5 DEF idempotencyVars, IndInv, TypeOK, InFlightWitnessed, InFlight,
              RowOf, RowsOwned, SoleReservation, ConflictRowSurvives,
              ReplayFaithful
<1> QED
  BY <1>1, <1>2, <1>3, <1>4, <1>5 DEF Next, Quiet

(* The inductive invariant holds in every reachable state.                 *)
THEOREM IndInvHolds == Spec => []IndInv
<1>1. Init => IndInv
  BY InitIndInv
<1>2. IndInv /\ [Next]_idempotencyVars => IndInv'
  BY NextIndInv
<1> QED
  BY <1>1, <1>2, PTL DEF Spec

-----------------------------------------------------------------------------

(* The ledger's variables keep their types.                                *)
THEOREM TypeCorrect == Spec => []TypeOK
  BY IndInvHolds, PTL DEF IndInv

(* Two requests never hold a reservation for one slot together, however    *)
(* lookups, inserts, failures, lost requests and expiry interleave.        *)
THEOREM ReservationExclusive == Spec => []SoleReservation
  BY IndInvHolds, PTL DEF IndInv

(* The re-read after a lost INSERT race always finds a live row.           *)
THEOREM ConflictSettles == Spec => []ConflictRowSurvives
  BY IndInvHolds, PTL DEF IndInv

(* A replay hands over what a request with the same payload stored.        *)
THEOREM ReplaysAreFaithful == Spec => []ReplayFaithful
  BY IndInvHolds, PTL DEF IndInv

(* No step overwrites a stored response, or removes it before its expiry.  *)
THEOREM StoredResponsesAreFinal == Spec => StoredResponseFinal
<1> DEFINE Final ==
        \A s \in Slots :
            /\ keys[s].status \in {"completed", "failed"} /\ ~keys[s].expired =>
                /\ keys'[s].status = keys[s].status
                /\ keys'[s].body = keys[s].body
            /\ keys[s].status # "absent" /\ keys'[s].status # "absent" =>
                keys'[s].owner = keys[s].owner
<1>1. ASSUME IndInv, [Next]_idempotencyVars
      PROVE  [Final]_idempotencyVars
  <2> USE <1>1, IdempotencyAssumption DEF IndInv, TypeOK
  <2> SUFFICES ASSUME Next
               PROVE  Final \/ keys' = keys
    BY DEF idempotencyVars
  <2>1. ASSUME NEW r \in Requests, LookupExpired(r)
        PROVE  Final
    BY <2>1 DEF LookupExpired, RowOf, Absent
  <2>2. ASSUME NEW r \in Requests, Insert(r)
        PROVE  Final
    BY <2>2 DEF Insert, Reserve, RowOf
  <2>3. ASSUME NEW r \in Requests, NEW status \in {"completed", "failed"},
               NEW body \in Bodies, Store(r, status, body)
        PROVE  Final
    <3>1. RowOf(r).status = "processing"
      BY <2>3 DEF Store, SoleReservation
    <3> QED
      BY <2>3, <3>1 DEF Store, RowOf, Row
  <2>4. ASSUME NEW s \in Slots, Expire(s)
        PROVE  Final
    BY <2>4 DEF Expire, Row
  <2>5. ASSUME NEW r \in Requests,
               \/ LookupFree(r) \/ LookupTaken(r) \/ InsertConflict(r)
               \/ Recheck(r) \/ Abandon(r)
        PROVE  keys' = keys
    BY <2>5 DEF LookupFree, LookupTaken, InsertConflict, Recheck, Settle, Abandon
  <2>6. CASE Quiet
    BY <2>6 DEF Quiet, idempotencyVars
  <2> QED
    BY <2>1, <2>2, <2>3, <2>4, <2>5, <2>6
    DEF Next, Begin, Finish, Complete, Fail
<1> HIDE DEF Final
<1>2. IndInv /\ [Next]_idempotencyVars => [Final]_idempotencyVars
  BY <1>1
<1>3. Spec => [][Final]_idempotencyVars
  BY <1>2, IndInvHolds, PTL DEF Spec
<1> QED
  BY <1>3 DEF Final, StoredResponseFinal

-----------------------------------------------------------------------------
(* The ledger implements the abstract register.                            *)

Cells == [s \in Slots |-> Cell(s)]
Stages == [r \in Requests |-> Stage(r)]

(* A request that still waits or works has been told nothing.              *)
Unheard ==
    \A r \in Requests :
        ipc[r] \in {"idle", "insert", "recheck", "reserved"} => told[r] = NoOutcome

(* Telling a request something ends it.                                    *)
LEMMA UnheardHolds == Spec => []Unheard
<1>1. Init => Unheard
  BY DEF Init, Unheard
<1>2. ASSUME IndInv, Unheard, [Next]_idempotencyVars
      PROVE  Unheard'
  <2> USE <1>2 DEF IndInv, TypeOK, Unheard
  <2>1. ASSUME NEW r \in Requests,
               \/ LookupFree(r) \/ LookupExpired(r) \/ Insert(r)
               \/ InsertConflict(r) \/ Abandon(r)
        PROVE  Unheard'
    BY <2>1 DEF LookupFree, LookupExpired, Insert, Reserve, InsertConflict,
                Abandon, Working
  <2>2. ASSUME NEW r \in Requests, Settle(r)
        PROVE  Unheard'
    <3>1. Verdict(r) \in Verdicts
      BY DEF Verdict, Verdicts
    <3> QED
      BY <2>2, <3>1 DEF Settle, Verdicts
  <2>3. ASSUME NEW r \in Requests, LookupTaken(r) \/ Recheck(r)
        PROVE  Unheard'
    BY <2>2, <2>3 DEF LookupTaken, Recheck, ConflictRowSurvives
  <2>4. ASSUME NEW r \in Requests, Finish(r)
        PROVE  Unheard'
    BY <2>4 DEF Finish, Complete, Fail, Store
  <2>5. CASE UNCHANGED <<ipc, told>>
    BY <2>5
  <2> QED
    BY <2>1, <2>3, <2>4, <2>5 DEF Next, Begin, Expire, Quiet, idempotencyVars
<1> QED
  BY <1>1, <1>2, IndInvHolds, PTL DEF Spec

(* An absent row is exactly the one that LookupExpired leaves.             *)
AbsentRows == \A s \in Slots : keys[s].status = "absent" => keys[s] = Absent

(* Only a deletion makes a row absent.                                     *)
LEMMA AbsentRowsHold == Spec => []AbsentRows
<1>1. Init => AbsentRows
  BY DEF Init, AbsentRows
<1>2. ASSUME IndInv, AbsentRows, [Next]_idempotencyVars
      PROVE  AbsentRows'
  <2> USE <1>2, IdempotencyAssumption DEF IndInv, TypeOK, AbsentRows
  <2>1. ASSUME NEW r \in Requests, LookupExpired(r)
        PROVE  AbsentRows'
    BY <2>1 DEF LookupExpired
  <2>2. ASSUME NEW r \in Requests, Insert(r)
        PROVE  AbsentRows'
    BY <2>2 DEF Insert, Reserve
  <2>3. ASSUME NEW r \in Requests, Finish(r)
        PROVE  AbsentRows'
    <3>1. PICK status \in {"completed", "failed"}, body \in Bodies :
              Store(r, status, body)
      BY <2>3 DEF Finish, Complete, Fail
    <3>2. keys[SlotOf[r]] \in Row /\ status # "absent"
      OBVIOUS
    <3> QED
      BY <3>1, <3>2 DEF Store, Row
  <2>4. ASSUME NEW s \in Slots, Expire(s)
        PROVE  AbsentRows'
    BY <2>4 DEF Expire, Row
  <2>5. CASE UNCHANGED keys
    BY <2>5
  <2> QED
    BY <2>1, <2>2, <2>3, <2>4, <2>5
    DEF Next, Begin, LookupFree, LookupTaken, InsertConflict, Recheck, Settle,
        Abandon, Quiet, idempotencyVars
<1> QED
  BY <1>1, <1>2, IndInvHolds, PTL DEF Spec

(* A step that changes one row changes one cell.                           *)
LEMMA CellChange ==
  ASSUME IndInv, NEW s \in Slots, NEW row \in Row,
         keys' = [keys EXCEPT ![s] = row]
  PROVE  /\ Cells' = [Cells EXCEPT ![s] = Cell(s)']
         /\ keys'[s] = row
<1>1. keys'[s] = row /\ \A t \in Slots \ {s} : keys'[t] = keys[t]
  BY DEF IndInv, TypeOK
<1>2. \A t \in Slots \ {s} : Cell(t)' = Cell(t)
  BY <1>1 DEF Cell
<1> QED
  BY <1>1, <1>2 DEF Cells

(* A step that moves one request changes one stage.                        *)
LEMMA StageChange ==
  ASSUME IndInv, NEW r \in Requests, NEW stage,
         ipc' = [ipc EXCEPT ![r] = stage]
  PROVE  /\ Stages' = [Stages EXCEPT ![r] = Stage(r)']
         /\ ipc'[r] = stage
<1>1. ipc'[r] = stage /\ \A q \in Requests \ {r} : ipc'[q] = ipc[q]
  BY DEF IndInv, TypeOK
<1>2. \A q \in Requests \ {r} : Stage(q)' = Stage(q)
  BY <1>1 DEF Stage
<1> QED
  BY <1>1, <1>2 DEF Stages

(* The verdict of a row: its result is heard, or the request gives up.     *)
LEMMA SettleImplements ==
  ASSUME IndInv, Unheard, NEW r \in Requests, ipc[r] \in {"idle", "recheck"},
         RowOf(r).status # "absent", ~RowOf(r).expired, Settle(r)
  PROVE  Once!Hear(r) \/ Once!GiveUp(r)
<1> USE IdempotencyAssumption
<1> DEFINE s == SlotOf[r]
           o == keys[s].owner
<1>1. s \in Slots /\ keys[s] \in Row /\ Cells[s] = Cell(s)
  BY DEF IndInv, TypeOK, Cells
<1>2. /\ Verdict(r) \in Verdicts
      /\ Verdict(r) = "replayed" =>
            /\ FingerprintOf[o] = FingerprintOf[r]
            /\ keys[s].status \in {"completed", "failed"}
  BY <1>1 DEF Verdict, Verdicts, RowOf, Row
<1>3. /\ Stage(r) = "waiting" /\ told[r] = NoOutcome
      /\ Stage(r)' = "over"
      /\ Stages' = [Stages EXCEPT ![r] = "over"]
      /\ Cells' = Cells
  <2>1. ipc' = [ipc EXCEPT ![r] = Verdict(r)] /\ keys' = keys
    BY DEF Settle
  <2>2. Stages' = [Stages EXCEPT ![r] = Stage(r)'] /\ ipc'[r] = Verdict(r)
    BY <2>1, StageChange
  <2>3. Stage(r)' = "over"
    BY <2>2, <1>2 DEF Stage, Verdicts
  <2>4. Stage(r) = "waiting" /\ told[r] = NoOutcome
    BY DEF Stage, Unheard
  <2>5. Cells' = Cells
    BY <2>1 DEF Cells, Cell
  <2> QED
    BY <2>2, <2>3, <2>4, <2>5
<1>4. Stages[r] = "waiting"
  BY <1>3 DEF Stages
<1>5. CASE Verdict(r) = "replayed"
  <2>1. /\ Cells[s].status = "closed" /\ ~Cells[s].lapsed
        /\ Cells[s].holder = o
        /\ Cells[s].result = [status |-> keys[s].status, body |-> keys[s].body]
    BY <1>1, <1>2, <1>5 DEF Cell, RowOf
  <2>2. told' = [told EXCEPT ![r] = Cells[s].result]
    BY <1>5, <2>1 DEF Settle, RowOf
  <2>3. Once!Hear(r)
    BY <1>2, <1>3, <1>4, <1>5, <2>1, <2>2 DEF Once!Hear, Once!CellOf, Cells, Stages
  <2> QED
    BY <2>3
<1>6. CASE Verdict(r) # "replayed"
  <2>1. told' = told
    BY <1>3, <1>6 DEF Settle, IndInv, TypeOK
  <2> QED
    BY <2>1, <1>3, <1>4 DEF Once!GiveUp, Cells, Stages
<1> QED
  BY <1>5, <1>6

(* The other steps: opening, closing, forgetting, lapsing and giving up.   *)
LEMMA InsertImplements ==
  ASSUME IndInv, AbsentRows, NEW r \in Requests, Insert(r)
  PROVE  Once!Open(r)
<1> USE IdempotencyAssumption
<1> DEFINE s == SlotOf[r]
           new == [status |-> "processing", owner |-> r, body |-> NoBody,
                   born |-> InFlight, expired |-> FALSE]
<1>1. /\ s \in Slots /\ new \in Row
      /\ keys' = [keys EXCEPT ![s] = new]
      /\ ipc' = [ipc EXCEPT ![r] = "reserved"]
      /\ ipc[r] = "insert" /\ keys[s].status = "absent" /\ told' = told
  BY DEF Insert, Reserve, RowOf, Row, InFlight
<1>2. Cells' = [Cells EXCEPT ![s] = Cell(s)'] /\ keys'[s] = new
  BY <1>1, CellChange
<1>3. Stages' = [Stages EXCEPT ![r] = Stage(r)'] /\ ipc'[r] = "reserved"
  BY <1>1, StageChange
<1>4. Cell(s)' = [status |-> "open", holder |-> r, result |-> NoOutcome,
                  lapsed |-> FALSE]
  BY <1>2 DEF Cell
<1>5. Stage(r)' = "working" /\ Stages[r] = "waiting"
  BY <1>1, <1>3 DEF Stage, Stages
<1>6. Cells[s] = Once!Free
  <2>1. /\ keys[s].status = "absent" /\ keys[s].owner = Nobody
        /\ keys[s].expired = FALSE
    BY <1>1 DEF AbsentRows, Absent
  <2> QED
    BY <1>1, <2>1 DEF Cells, Cell, Once!Free
<1> QED
  BY <1>1, <1>2, <1>3, <1>4, <1>5, <1>6
  DEF Once!Open, Once!CellOf, Cells, Stages

LEMMA StoreImplements ==
  ASSUME IndInv, NEW r \in Requests, NEW status \in {"completed", "failed"},
         NEW body \in Bodies, Store(r, status, body)
  PROVE  \E x \in Outcome : Once!Close(r, x)
<1> USE IdempotencyAssumption
<1> DEFINE s == SlotOf[r]
           x == [status |-> status, body |-> body]
           row == [keys[s] EXCEPT !.status = status, !.body = body]
<1>1. /\ s \in Slots /\ keys[s] \in Row
      /\ keys' = [keys EXCEPT ![s] = row]
      /\ ipc' = [ipc EXCEPT ![r] = "stored"]
      /\ told' = [told EXCEPT ![r] = x]
      /\ ipc[r] = "reserved"
      /\ keys[s].owner = r /\ keys[s].status = "processing"
  BY DEF Store, IndInv, SoleReservation, RowOf, TypeOK
<1>2. /\ row \in Row
      /\ row.status = status /\ row.body = body /\ row.owner = r
      /\ row.expired = keys[s].expired
  BY <1>1 DEF Row
<1> HIDE DEF row
<1>3. Cells' = [Cells EXCEPT ![s] = Cell(s)'] /\ keys'[s] = row
  BY <1>1, <1>2, CellChange
<1>4. Stages' = [Stages EXCEPT ![r] = Stage(r)'] /\ ipc'[r] = "stored"
  BY <1>1, StageChange
<1>5. Cell(s)' = [status |-> "closed", holder |-> r, result |-> x,
                  lapsed |-> FALSE]
  <2>1. row.expired = FALSE
    BY <1>1, <1>2 DEF IndInv, InFlightWitnessed, InFlight, Working, RowOf, Row
  <2> QED
    BY <1>2, <1>3, <2>1 DEF Cell
<1>6. Cells[s].status = "open" /\ Cells[s].holder = r
  BY <1>1 DEF Cells, Cell
<1>7. Cells' = [Cells EXCEPT ![s] =
            [status |-> "closed", holder |-> r, result |-> x, lapsed |-> FALSE]]
  BY <1>3, <1>5
<1>8. Stage(r)' = "over" /\ Stages[r] = "working"
  BY <1>1, <1>4 DEF Stage, Stages
<1>9. x \in Outcome /\ Once!Close(r, x)
  BY <1>1, <1>4, <1>6, <1>7, <1>8
  DEF Outcome, Once!Close, Once!CellOf, Cells, Stages
<1> QED
  BY <1>9

LEMMA MoveImplements ==
  ASSUME IndInv, NEW r \in Requests,
         LookupFree(r) \/ InsertConflict(r) \/ Abandon(r)
  PROVE  Once!GiveUp(r) \/ UNCHANGED Once!vars
<1>1. Cells' = Cells /\ told' = told
  BY DEF LookupFree, InsertConflict, Abandon, Cells, Cell
<1>2. CASE LookupFree(r) \/ InsertConflict(r)
  <2>1. PICK stage \in {"insert", "recheck"} :
            ipc' = [ipc EXCEPT ![r] = stage]
    BY <1>2 DEF LookupFree, InsertConflict
  <2>2. Stages' = [Stages EXCEPT ![r] = Stage(r)'] /\ ipc'[r] = stage
    BY <2>1, StageChange
  <2>3. Stage(r)' = "waiting" /\ Stages[r] = "waiting"
    BY <1>2, <2>1, <2>2 DEF Stage, Stages, LookupFree, InsertConflict
  <2> QED
    BY <1>1, <2>2, <2>3 DEF Stages, Cells, Once!vars
<1>3. CASE Abandon(r)
  <2>1. Stages' = [Stages EXCEPT ![r] = Stage(r)'] /\ ipc'[r] = "abandoned"
    BY <1>3, StageChange DEF Abandon
  <2>2. Stage(r)' = "over" /\ Stages[r] # "over"
    BY <1>3, <2>1 DEF Stage, Stages, Abandon, Working
  <2> QED
    BY <1>1, <2>1, <2>2 DEF Once!GiveUp, Stages, Cells
<1> QED
  BY <1>2, <1>3

LEMMA DiscardImplements ==
  ASSUME IndInv, NEW r \in Requests, LookupExpired(r)
  PROVE  \E s \in Slots : Once!Forget(s)
<1> USE IdempotencyAssumption
<1> DEFINE s == SlotOf[r]
<1>1. /\ s \in Slots /\ Absent \in Row
      /\ keys' = [keys EXCEPT ![s] = Absent]
      /\ ipc' = [ipc EXCEPT ![r] = "insert"]
      /\ ipc[r] = "idle" /\ keys[s].expired /\ told' = told
  BY DEF LookupExpired, RowOf, Row, Absent
<1>2. Cells' = [Cells EXCEPT ![s] = Cell(s)'] /\ keys'[s] = Absent
  BY <1>1, CellChange
<1>3. Stages' = [Stages EXCEPT ![r] = Stage(r)'] /\ ipc'[r] = "insert"
  BY <1>1, StageChange
<1>4. Stage(r)' = "waiting" /\ Stages[r] = "waiting"
  BY <1>1, <1>3 DEF Stage, Stages
<1>5. Stages' = Stages
  BY <1>3, <1>4 DEF Stages
<1>6. Cell(s)' = Once!Free /\ Cells[s].lapsed
  <2>1. /\ keys'[s].status = "absent" /\ keys'[s].owner = Nobody
        /\ keys'[s].expired = FALSE
    BY <1>2 DEF Absent
  <2>2. Cell(s)' = Once!Free
    BY <2>1 DEF Cell, Once!Free
  <2>3. Cells[s].lapsed
    BY <1>1 DEF Cell, Cells
  <2> QED
    BY <2>2, <2>3
<1>7. Once!Forget(s)
  BY <1>1, <1>2, <1>5, <1>6 DEF Once!Forget, Cells, Stages
<1> QED
  BY <1>1, <1>7

LEMMA ExpireImplements ==
  ASSUME IndInv, NEW s \in Slots, Expire(s)
  PROVE  Once!Lapse(s)
<1> USE IdempotencyAssumption
<1> DEFINE row == [keys[s] EXCEPT !.expired = TRUE]
<1>1. /\ keys' = [keys EXCEPT ![s] = row]
      /\ keys[s] \in Row /\ keys[s].status # "absent" /\ ~keys[s].expired
      /\ ipc' = ipc /\ told' = told
  BY DEF Expire, IndInv, TypeOK
<1>2. /\ row \in Row /\ row.expired = TRUE
      /\ row.status = keys[s].status /\ row.body = keys[s].body
      /\ row.owner = keys[s].owner
  BY <1>1 DEF Row
<1> HIDE DEF row
<1>3. Cells' = [Cells EXCEPT ![s] = Cell(s)'] /\ keys'[s] = row
  BY <1>1, <1>2, CellChange
<1>4. Cell(s)' = [status |-> Cells[s].status, holder |-> Cells[s].holder,
                  result |-> Cells[s].result, lapsed |-> TRUE]
  <2>1. /\ keys'[s].status = keys[s].status /\ keys'[s].body = keys[s].body
        /\ keys'[s].owner = keys[s].owner /\ keys'[s].expired = TRUE
    BY <1>2, <1>3
  <2>2. Cells[s] = [status |-> Cell(s).status, holder |-> Cell(s).holder,
                   result |-> Cell(s).result, lapsed |-> Cell(s).lapsed]
    BY DEF Cell, Cells
  <2>3. Cell(s)' = [status |-> Cell(s).status, holder |-> Cell(s).holder,
                    result |-> Cell(s).result, lapsed |-> TRUE]
    BY <2>1 DEF Cell
  <2> QED
    BY <2>2, <2>3
<1>5. Cells' = [Cells EXCEPT ![s] =
            [status |-> @.status, holder |-> @.holder, result |-> @.result,
             lapsed |-> TRUE]]
  BY <1>3, <1>4 DEF Cells
<1>6. Cells[s] # Once!Free /\ ~Cells[s].lapsed
  BY <1>1 DEF Cells, Cell, Once!Free, Row
<1>7. ASSUME NEW r \in Requests, SlotOf[r] = s
      PROVE  Stages[r] # "working"
  BY <1>7 DEF Expire, IndInv, InFlightWitnessed, InFlight, Working, RowOf,
              Stages, Stage
<1>8. Stages' = Stages
  BY <1>1 DEF Stages, Stage
<1> QED
  BY <1>1, <1>5, <1>6, <1>7, <1>8 DEF Once!Lapse, Cells, Stages

(* The ledger is a register that is opened once, closed once and heard by  *)
(* those that ask for the same thing, for any requests, slots and payloads.*)
THEOREM LedgerImplementsRegister == Spec => ImplementsOnceRegister
<1>1. Init => Once!Init
  BY IdempotencyAssumption
  DEF Init, Once!Init, Once!Free, Cell, Stage, Absent
<1>2. ASSUME IndInv, AbsentRows, Unheard, [Next]_idempotencyVars
      PROVE  [Once!Next]_(Once!vars)
  <2> USE IndInv, AbsentRows, Unheard
  <2>1. ASSUME NEW r \in Requests, Begin(r)
        PROVE  Once!Next \/ UNCHANGED Once!vars
    <3>1. CASE LookupFree(r) \/ InsertConflict(r)
      BY <3>1, MoveImplements DEF Once!Next
    <3>2. CASE LookupExpired(r)
      BY <3>2, DiscardImplements DEF Once!Next
    <3>3. CASE LookupTaken(r)
      BY <3>3, SettleImplements DEF LookupTaken, Once!Next
    <3>4. CASE Insert(r)
      BY <3>4, InsertImplements DEF Once!Next
    <3>5. CASE Recheck(r)
      BY <3>5, SettleImplements DEF Recheck, IndInv, ConflictRowSurvives, Once!Next
    <3> QED
      BY <2>1, <3>1, <3>2, <3>3, <3>4, <3>5 DEF Begin
  <2>2. ASSUME NEW r \in Requests, Finish(r)
        PROVE  Once!Next
    BY <2>2, StoreImplements DEF Finish, Complete, Fail, Once!Next
  <2>3. ASSUME NEW r \in Requests, Abandon(r)
        PROVE  Once!Next \/ UNCHANGED Once!vars
    BY <2>3, MoveImplements DEF Once!Next
  <2>4. ASSUME NEW s \in Slots, Expire(s)
        PROVE  Once!Next
    BY <2>4, ExpireImplements DEF Once!Next
  <2>5. CASE UNCHANGED idempotencyVars
    BY <2>5 DEF idempotencyVars, Once!vars, Cell, Stage
  <2> QED
    BY <1>2, <2>1, <2>2, <2>3, <2>4, <2>5 DEF Next, Quiet
<1>3. IndInv /\ AbsentRows /\ Unheard /\ [Next]_idempotencyVars
        => [Once!Next]_(Once!vars)
  BY <1>2
<1> QED
  BY <1>1, <1>3, IndInvHolds, AbsentRowsHold, UnheardHolds, PTL
  DEF Spec, ImplementsOnceRegister, Once!Spec

=============================================================================
