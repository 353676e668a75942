------------------------- MODULE SubmitMessageProofs -------------------------
(***************************************************************************)
(* Proofs about the composition in SubmitMessage, for any requests, keys,  *)
(* retries, losses and expiries.  Each part is shown to run as its own     *)
(* specification, so what is proved of it alone holds here; an invariant   *)
(* over the variables of both ties the stages of a request together.       *)
(***************************************************************************)
EXTENDS SubmitMessage, TLAPS

(* The parts with what is proved of them.                                  *)
TP == INSTANCE ConversationTurnsProofs

LP == INSTANCE IdempotencyKeysProofs WITH
    Fingerprints <- Payloads, FingerprintOf <- PayloadOf, Bodies <- Snapshots,
    SlotOf <- [r \in Requests |-> Slot(r)]

-----------------------------------------------------------------------------

(* The actions of the execution service are those its own specification    *)
(* takes.                                                                  *)
LEMMA RequestStepsAreTurns ==
  ASSUME NEW r \in Requests
  PROVE  /\ Turns!Require(r) => TP!Next
         /\ Turns!NotFound(r) => TP!Next
         /\ Turns!Leave(r) => TP!Next
         /\ Turns!BeginTurn(r) => TP!Next
         /\ Turns!BusyTurn(r) => TP!Next
         /\ Turns!Execute(r) => TP!Next
         /\ Turns!Raise(r) => TP!Next
         /\ Turns!Lose(r) => TP!Next
<1> USE DEF Turns!Goto, TP!Goto, Turns!tables, TP!tables, Turns!checkpoint,
            TP!checkpoint, Turns!locals, TP!locals, Turns!InGraph, TP!InGraph
<1>1. /\ Turns!Visible(r) <=> TP!Visible(r)
      /\ Turns!CanBegin(r) <=> TP!CanBegin(r)
  BY DEF Turns!Visible, TP!Visible, Turns!CanBegin, TP!CanBegin, Turns!NoActiveRun,
         TP!NoActiveRun, Turns!RunActive, TP!RunActive, Turns!SequencesFree,
         TP!SequencesFree, Turns!SequenceTaken, TP!SequenceTaken
<1>2. Turns!Require(r) => TP!Require(r)
  BY <1>1 DEF Turns!Require, TP!Require
<1>3. Turns!NotFound(r) => TP!NotFound(r)
  BY <1>1 DEF Turns!NotFound, TP!NotFound
<1>4. Turns!Leave(r) => TP!Leave(r)
  BY DEF Turns!Leave, TP!Leave
<1>5. Turns!BeginTurn(r) => TP!BeginTurn(r)
  BY <1>1 DEF Turns!BeginTurn, TP!BeginTurn, Turns!UserMessage, TP!UserMessage,
     Turns!PendingReply, TP!PendingReply, Turns!NewMessage, TP!NewMessage
<1>6. Turns!BusyTurn(r) => TP!BusyTurn(r)
  BY <1>1 DEF Turns!BusyTurn, TP!BusyTurn
<1>7. Turns!Execute(r) => TP!Execute(r)
  <2>1. Turns!Invoke(r) => TP!Invoke(r)
    BY DEF Turns!Invoke, TP!Invoke, Turns!Asks, TP!Asks
  <2>2. Turns!Reply(r) => TP!Reply(r)
    BY DEF Turns!Reply, TP!Reply, Turns!Replies, TP!Replies
  <2>3. Turns!ReadFinal(r) => TP!ReadFinal(r)
    BY DEF Turns!ReadFinal, TP!ReadFinal
  <2>4. Turns!CompleteTurn(r) => TP!CompleteTurn(r)
    BY DEF Turns!CompleteTurn, TP!CompleteTurn, Turns!SetReply, TP!SetReply
  <2>5. Turns!Refresh(r) => TP!Refresh(r)
    BY DEF Turns!Refresh, TP!Refresh
  <2>6. Turns!MarkFailed(r) => TP!MarkFailed(r)
    BY DEF Turns!MarkFailed, TP!MarkFailed, Turns!FailReply, TP!FailReply
  <2> QED
    BY <2>1, <2>2, <2>3, <2>4, <2>5, <2>6 DEF Turns!Execute, TP!Execute
<1>8. Turns!Raise(r) => TP!Raise(r)
  BY DEF Turns!Raise, TP!Raise
<1>9. Turns!Lose(r) => TP!Lose(r)
  BY DEF Turns!Lose, TP!Lose
<1> QED
  BY <1>2, <1>3, <1>4, <1>5, <1>6, <1>7, <1>8, <1>9 DEF TP!Next

LEMMA DeletionsAreTurns ==
  ASSUME NEW d \in Deleters, Turns!RequireDelete(d) \/ Turns!Delete(d)
  PROVE  TP!Next
<1>1. TP!RequireDelete(d) \/ TP!Delete(d)
  BY DEF Turns!RequireDelete, TP!RequireDelete, Turns!Delete, TP!Delete,
     Turns!Goto, TP!Goto, Turns!tables, TP!tables, Turns!checkpoint, TP!checkpoint,
     Turns!locals, TP!locals, Turns!Visible, TP!Visible
<1> QED
  BY <1>1 DEF TP!Next

(* Seen through its own variables, the execution service runs here as in   *)
(* its specification.                                                      *)
LEMMA TurnsRun == Spec => TP!Spec
<1>1. Init => TP!Init
  BY DEF Init, Turns!Init, TP!Init
<1>2. [Next]_vars => [TP!Next]_TP!turnVars
  <2> SUFFICES ASSUME Next, ~UNCHANGED turnVars
               PROVE  TP!Next
    BY DEF vars, turnVars, TP!turnVars
  <2>1. ASSUME NEW r \in Requests,
               Require(r) \/ Handle(r) \/ Raise(r) \/ Lose(r) \/ LoseResponse(r)
        PROVE  TP!Next
    BY <2>1, RequestStepsAreTurns DEF Require, Handle, Refuse, BeginKey, StartTurn,
       Execute, CompleteKey, FailKey, Raise, Lose, LoseResponse
  <2>2. ASSUME NEW d \in Deleters, DeleteConversation(d)
        PROVE  TP!Next
    BY <2>2, DeletionsAreTurns DEF DeleteConversation
  <2> QED
    BY <2>1, <2>2 DEF Next, Expire, Quiet, vars
<1> QED
  BY <1>1, <1>2, PTL DEF Spec, TP!Spec

(* The ledger's transactions are those of its own specification, with the  *)
(* response that submit_message stores among the bodies.                   *)
LEMMA KeyStepsAreLedgers ==
  ASSUME NEW r \in Requests
  PROVE  /\ Ledger!Begin(r) => LP!Next
         /\ Ledger!Complete(r, r) => LP!Next
         /\ \A body \in {"conversation_busy", "internal_error"} :
                Ledger!Fail(r, body) => LP!Next
         /\ Ledger!Abandon(r) => LP!Next
<1> USE DEF Ledger!Working, LP!Working
<1>1. Ledger!RowOf(r) = LP!RowOf(r) /\ Ledger!InFlight = LP!InFlight
      /\ Ledger!Absent = LP!Absent /\ Ledger!NoOutcome = LP!NoOutcome
  BY DEF Ledger!RowOf, LP!RowOf, Ledger!InFlight, LP!InFlight, Ledger!Absent,
     LP!Absent, Ledger!NoOutcome, LP!NoOutcome
<1>2. Ledger!Settle(r) => LP!Settle(r)
  BY <1>1 DEF Ledger!Settle, LP!Settle, Ledger!Verdict, LP!Verdict
<1>3. Ledger!LookupFree(r) => LP!LookupFree(r)
  BY <1>1 DEF Ledger!LookupFree, LP!LookupFree
<1>4. Ledger!LookupExpired(r) => LP!LookupExpired(r)
  BY <1>1 DEF Ledger!LookupExpired, LP!LookupExpired
<1>5. Ledger!LookupTaken(r) => LP!LookupTaken(r)
  BY <1>1, <1>2 DEF Ledger!LookupTaken, LP!LookupTaken
<1>6. Ledger!Insert(r) => LP!Insert(r)
  BY <1>1 DEF Ledger!Insert, LP!Insert, Ledger!Reserve, LP!Reserve
<1>7. Ledger!InsertConflict(r) => LP!InsertConflict(r)
  BY <1>1 DEF Ledger!InsertConflict, LP!InsertConflict
<1>8. Ledger!Recheck(r) => LP!Recheck(r)
  BY <1>1, <1>2 DEF Ledger!Recheck, LP!Recheck
<1>9. Ledger!Begin(r) => LP!Begin(r)
  BY <1>3, <1>4, <1>5, <1>6, <1>7, <1>8 DEF Ledger!Begin, LP!Begin
<1>10. \A body : /\ Ledger!Complete(r, body) => LP!Complete(r, body)
                 /\ Ledger!Fail(r, body) => LP!Fail(r, body)
  BY DEF Ledger!Complete, LP!Complete, Ledger!Fail, LP!Fail, Ledger!Store, LP!Store
<1>11. Ledger!Complete(r, r) => LP!Finish(r)
  BY <1>10 DEF LP!Finish, Snapshots
<1>12. \A body \in {"conversation_busy", "internal_error"} :
            Ledger!Fail(r, body) => LP!Finish(r)
  BY <1>10 DEF LP!Finish, Snapshots
<1>13. Ledger!Abandon(r) => LP!Abandon(r)
  BY DEF Ledger!Abandon, LP!Abandon
<1> QED
  BY <1>9, <1>11, <1>12, <1>13 DEF LP!Next

(* Seen through its own variables, the ledger runs here as in its          *)
(* specification.                                                          *)
LEMMA LedgerRuns == Spec => LP!Spec
<1>1. Init => LP!Init
  BY DEF Init, Ledger!Init, LP!Init, Ledger!Absent, LP!Absent, Ledger!NoOutcome,
     LP!NoOutcome
<1>2. [Next]_vars => [LP!Next]_LP!idempotencyVars
  <2> SUFFICES ASSUME Next, ~UNCHANGED ledgerVars
               PROVE  LP!Next
    BY DEF vars, ledgerVars, LP!idempotencyVars
  <2>1. ASSUME NEW r \in Requests,
               Require(r) \/ Handle(r) \/ Raise(r) \/ Lose(r) \/ LoseResponse(r)
        PROVE  LP!Next
    BY <2>1, KeyStepsAreLedgers DEF Require, Handle, Refuse, BeginKey, StartTurn,
       Execute, CompleteKey, FailKey, Raise, Lose, LoseResponse
  <2>2. ASSUME NEW s \in Slots, Expire(s)
        PROVE  LP!Next
    <3>1. LP!Expire(s)
      BY <2>2 DEF Expire, Ledger!Expire, LP!Expire, Ledger!InFlight, LP!InFlight,
         Ledger!Working, LP!Working
    <3> QED
      BY <3>1 DEF LP!Next
  <2> QED
    BY <2>1, <2>2 DEF Next, DeleteConversation, Quiet, vars
<1> QED
  BY <1>1, <1>2, PTL DEF Spec, LP!Spec

(* What each part guarantees of its own state, carried over.               *)
PartsInv == TP!TurnInv /\ TP!EndsRecorded /\ LP!IndInv

LEMMA PartsInvHolds == Spec => []PartsInv
<1>1. TP!TurnsAssumption /\ LP!IdempotencyAssumption
  BY SubmitAssumption
<1>2. TP!Spec => [](TP!TurnInv /\ TP!EndsRecorded)
  BY <1>1, TP!EndsAreRecorded
<1>3. LP!Spec => []LP!IndInv
  BY <1>1, LP!IndInvHolds
<1> QED
  BY <1>2, <1>3, TurnsRun, LedgerRuns, PTL DEF PartsInv

-----------------------------------------------------------------------------

InTurn == {"began", "invoked", "replied", "answered", "committed", "failing"}

(* The stages of a request with the execution service and with the ledger  *)
(* fit: nothing is looked up before require, and a turn runs under a       *)
(* reservation.                                                            *)
StagesAgree ==
    \A r \in Requests :
        /\ tpc[r] \in {"idle", "not_found"} => ipc[r] = "idle"
        /\ tpc[r] = "required" =>
            ipc[r] \in {"idle", "insert", "recheck", "reserved"}
        /\ tpc[r] \in InTurn => ipc[r] = "reserved"

(* A row whose retention does not end stays with the request whose turn it *)
(* covers.                                                                 *)
KeysAgree ==
    /\ \A s \in Slots \ Expiring : ~keys[s].expired
    /\ \A r \in Requests : runs[r] # "none" /\ Slot(r) \notin Expiring =>
        keys[Slot(r)].status # "absent" /\ keys[Slot(r)].owner = r

(* A terminal row is what its owner's turn came to.                        *)
StoredAgree ==
    \A s \in Slots :
        LET o == keys[s].owner IN
        /\ keys[s].status = "completed" => keys[s].body = o /\ tpc[o] = "completed"
        /\ keys[s].status = "failed" =>
            \/ keys[s].body = "conversation_busy" /\ tpc[o] = "busy"
            \/ keys[s].body = "internal_error" /\ tpc[o] = "failed"

JointInv == StagesAgree /\ KeysAgree /\ StoredAgree

(* The facts about the parts that the proofs below use, in plain terms.    *)
PartFacts ==
    /\ DOMAIN tpc = Requests \cup Deleters
    /\ DOMAIN ipc = Requests
    /\ runs \in [Requests -> {"none", "running", "completed", "failed"}]
    /\ keys \in [Slots -> Ledger!Row]
    /\ \A r \in Requests :
        /\ Slot(r) \in Slots
        /\ tpc[r] \in {"idle", "required"} => runs[r] = "none"
        /\ tpc[r] \in InTurn => runs[r] # "none"
        /\ ipc[r] = "reserved" =>
            keys[Slot(r)].owner = r /\ keys[Slot(r)].status = "processing"
        /\ tpc[r] = "completed" => runs[r] = "completed"
            /\ \E m \in messages : /\ m.run = r /\ m.role = "assistant"
                                   /\ m.status = "complete" /\ m.text = r
        /\ tpc[r] = "busy" => runs[r] = "none"
        /\ tpc[r] = "failed" => runs[r] = "failed"
    /\ \A s \in Slots : keys[s].status # "absent" => keys[s].owner \in Requests

LEMMA PartsInvFacts == PartsInv => PartFacts
<1> SUFFICES ASSUME PartsInv
             PROVE  PartFacts
  OBVIOUS
<1>1. TP!TypeOK /\ TP!RunsFollowRequests /\ TP!EndsRecorded
  BY DEF PartsInv, TP!TurnInv, TP!IndInv, TP!ControlInv
<1>2. LP!TypeOK /\ LP!RowsOwned /\ LP!SoleReservation
  BY DEF PartsInv, LP!IndInv
<1>3. \A r \in Requests : ConvOf[r] \in Conversations /\ KeyOf[r] \in Keys
  BY SubmitAssumption DEF Turns!TurnsAssumption
<1>4. \A r \in Requests : Slot(r) \in Slots
  BY <1>3 DEF Slot, Slots
<1>5. /\ DOMAIN tpc = Requests \cup Deleters
      /\ runs \in [Requests -> {"none", "running", "completed", "failed"}]
  BY <1>1 DEF TP!TypeOK
<1>6. DOMAIN ipc = Requests /\ keys \in [Slots -> Ledger!Row]
  BY <1>2 DEF LP!TypeOK, LP!Row, Ledger!Row
<1>7. \A r \in Requests : ipc[r] = "reserved" =>
            keys[Slot(r)].owner = r /\ keys[Slot(r)].status = "processing"
  BY <1>2 DEF LP!SoleReservation, LP!RowOf
<1>8. \A s \in Slots : keys[s].status # "absent" => keys[s].owner \in Requests
  BY <1>2 DEF LP!RowsOwned
<1>9. ASSUME NEW r \in Requests
      PROVE  /\ tpc[r] \in {"idle", "required"} => runs[r] = "none"
             /\ tpc[r] \in InTurn => runs[r] # "none"
             /\ tpc[r] = "completed" => runs[r] = "completed"
                /\ \E m \in messages : /\ m.run = r /\ m.role = "assistant"
                                       /\ m.status = "complete" /\ m.text = r
             /\ tpc[r] = "busy" => runs[r] = "none"
             /\ tpc[r] = "failed" => runs[r] = "failed"
  BY <1>1 DEF TP!RunsFollowRequests, TP!EndsRecorded, TP!ReplyShown, TP!InGraph,
     InTurn
<1> QED
  BY <1>4, <1>5, <1>6, <1>7, <1>8, <1>9 DEF PartFacts

-----------------------------------------------------------------------------

(* A step of the turn of r, as far as the ledger can tell: ended requests  *)
(* stay ended, and a run appears only under a reservation.                 *)
TurnMove(r) ==
    /\ \A o \in Requests : o # r => tpc'[o] = tpc[o] /\ runs'[o] = runs[o]
    /\ tpc[r] \in {"completed", "busy", "failed"} => tpc'[r] = tpc[r]
    /\ runs'[r] # "none" => runs[r] # "none" \/ ipc[r] = "reserved"

LEMMA TurnMoveKeeps ==
  ASSUME PartFacts, KeysAgree, StoredAgree, NEW r \in Requests, TurnMove(r),
         keys' = keys
  PROVE  KeysAgree' /\ StoredAgree'
<1>1. ASSUME NEW o \in Requests, runs'[o] # "none", Slot(o) \notin Expiring
      PROVE  keys[Slot(o)].status # "absent" /\ keys[Slot(o)].owner = o
  <2>1. CASE runs[o] # "none"
    BY <1>1, <2>1 DEF KeysAgree
  <2>2. CASE runs[o] = "none"
    <3>1. o = r /\ ipc[r] = "reserved"
      BY <1>1, <2>2 DEF TurnMove
    <3> QED
      BY <3>1 DEF PartFacts
  <2> QED
    BY <2>1, <2>2
<1>2. KeysAgree'
  BY <1>1 DEF KeysAgree
<1>3. ASSUME NEW s \in Slots, keys[s].status \in {"completed", "failed"}
      PROVE  tpc'[keys[s].owner] = tpc[keys[s].owner]
  <2>1. keys[s].owner \in Requests
    BY <1>3 DEF PartFacts
  <2>2. tpc[keys[s].owner] \in {"completed", "busy", "failed"}
    BY <1>3 DEF StoredAgree
  <2> QED
    BY <2>1, <2>2 DEF TurnMove
<1>4. StoredAgree'
  BY <1>3 DEF StoredAgree
<1> QED
  BY <1>2, <1>4

(* A step that rewrites the row of slot s while no turn moves.             *)
LEMMA RowChangeKeeps ==
  ASSUME PartFacts, KeysAgree, StoredAgree, NEW s \in Slots, NEW row,
         keys' = [keys EXCEPT ![s] = row], UNCHANGED <<tpc, runs>>,
         s \notin Expiring =>
            /\ ~row.expired
            /\ keys[s].status # "absent" =>
                row.status # "absent" /\ row.owner = keys[s].owner,
         row.status = "completed" =>
            row.body = row.owner /\ tpc[row.owner] = "completed",
         row.status = "failed" =>
            \/ row.body = "conversation_busy" /\ tpc[row.owner] = "busy"
            \/ row.body = "internal_error" /\ tpc[row.owner] = "failed"
  PROVE  KeysAgree' /\ StoredAgree'
<1>1. keys'[s] = row /\ \A x \in Slots : x # s => keys'[x] = keys[x]
  BY DEF PartFacts
<1>2. ASSUME NEW o \in Requests, runs[o] # "none", Slot(o) \notin Expiring
      PROVE  keys'[Slot(o)].status # "absent" /\ keys'[Slot(o)].owner = o
  <2>1. keys[Slot(o)].status # "absent" /\ keys[Slot(o)].owner = o
    BY <1>2 DEF KeysAgree
  <2>2. Slot(o) \in Slots
    BY DEF PartFacts
  <2> QED
    BY <1>1, <1>2, <2>1, <2>2
<1>3. \A x \in Slots \ Expiring : ~keys'[x].expired
  BY <1>1 DEF KeysAgree
<1>4. KeysAgree'
  BY <1>2, <1>3 DEF KeysAgree
<1>5. StoredAgree'
  BY <1>1 DEF StoredAgree
<1> QED
  BY <1>4, <1>5

(* What the steps of a request do to its stage and its run.                *)
LEMMA TurnStages ==
  ASSUME PartFacts, NEW r \in Requests,
         \/ Turns!Require(r) \/ Turns!NotFound(r) \/ Turns!Leave(r)
         \/ Turns!BeginTurn(r) \/ Turns!BusyTurn(r) \/ Turns!Execute(r)
         \/ Turns!Raise(r) \/ Turns!Lose(r)
  PROVE  /\ \A o \in Requests : o # r => tpc'[o] = tpc[o] /\ runs'[o] = runs[o]
         /\ \/ tpc[r] = "idle" /\ tpc'[r] \in {"required", "not_found"}
            \/ tpc[r] = "required" /\ tpc'[r] \in {"left", "began", "busy", "lost"}
            \/ tpc[r] \in InTurn /\ tpc'[r] \in InTurn \cup {"completed", "failed", "lost"}
         /\ tpc[r] # "required" \/ tpc'[r] # "began" =>
                (runs'[r] = "none" <=> runs[r] = "none")
<1> USE DEF Turns!Goto, Turns!tables, Turns!InGraph, InTurn, PartFacts
<1>1. CASE Turns!Require(r) \/ Turns!NotFound(r) \/ Turns!Leave(r)
  BY <1>1 DEF Turns!Require, Turns!NotFound, Turns!Leave
<1>2. CASE Turns!BeginTurn(r) \/ Turns!BusyTurn(r)
  BY <1>2 DEF Turns!BeginTurn, Turns!BusyTurn
<1>3. CASE Turns!Raise(r) \/ Turns!Lose(r)
  BY <1>3 DEF Turns!Raise, Turns!Lose
<1>4. CASE Turns!Invoke(r) \/ Turns!Reply(r) \/ Turns!ReadFinal(r) \/ Turns!Refresh(r)
  BY <1>4 DEF Turns!Invoke, Turns!Reply, Turns!ReadFinal, Turns!Refresh
<1>5. CASE Turns!CompleteTurn(r)
  BY <1>5 DEF Turns!CompleteTurn
<1>6. CASE Turns!MarkFailed(r)
  BY <1>6 DEF Turns!MarkFailed
<1> QED
  BY <1>1, <1>2, <1>3, <1>4, <1>5, <1>6 DEF Turns!Execute

(* A step of a request with the execution service alone, which begins the  *)
(* turn only under a reservation; the ledger may be told that it is lost.  *)
LEMMA TurnStepKeeps ==
  ASSUME PartFacts, JointInv, NEW r \in Requests,
         \/ Turns!Require(r) \/ Turns!NotFound(r) \/ Turns!Leave(r)
         \/ Turns!BeginTurn(r) \/ Turns!BusyTurn(r) \/ Turns!Execute(r)
         \/ Turns!Raise(r) \/ Turns!Lose(r),
         tpc[r] = "required" /\ tpc'[r] = "began" => ipc[r] = "reserved",
         keys' = keys,
         \A o \in Requests : o # r => ipc'[o] = ipc[o],
         ipc'[r] = ipc[r] \/ tpc'[r] = "lost"
  PROVE  JointInv'
<1>1. /\ \A o \in Requests : o # r => tpc'[o] = tpc[o] /\ runs'[o] = runs[o]
      /\ \/ tpc[r] = "idle" /\ tpc'[r] \in {"required", "not_found"}
         \/ tpc[r] = "required" /\ tpc'[r] \in {"left", "began", "busy", "lost"}
         \/ tpc[r] \in InTurn /\ tpc'[r] \in InTurn \cup {"completed", "failed", "lost"}
      /\ tpc[r] # "required" \/ tpc'[r] # "began" =>
             (runs'[r] = "none" <=> runs[r] = "none")
  BY TurnStages
<1>2. TurnMove(r)
  BY <1>1 DEF TurnMove, InTurn
<1>3. KeysAgree' /\ StoredAgree'
  BY <1>2, TurnMoveKeeps DEF JointInv
<1>4. /\ tpc[r] \in {"idle", "not_found"} => ipc[r] = "idle"
      /\ tpc[r] = "required" => ipc[r] \in {"idle", "insert", "recheck", "reserved"}
      /\ tpc[r] \in InTurn => ipc[r] = "reserved"
  BY DEF JointInv, StagesAgree
<1>5. /\ tpc'[r] \in {"idle", "not_found"} => ipc'[r] = "idle"
      /\ tpc'[r] = "required" => ipc'[r] \in {"idle", "insert", "recheck", "reserved"}
      /\ tpc'[r] \in InTurn => ipc'[r] = "reserved"
  BY <1>1, <1>4 DEF InTurn
<1>6. StagesAgree'
  BY <1>1, <1>5 DEF JointInv, StagesAgree
<1> QED
  BY <1>3, <1>6 DEF JointInv

(* A step that only moves the request r within the ledger, and its turn    *)
(* from required to left when it leaves begin() with an answer.            *)
LEMMA LedgerStages ==
  ASSUME PartFacts, StagesAgree, NEW r \in Requests,
         \A o \in Requests : o # r => tpc'[o] = tpc[o] /\ ipc'[o] = ipc[o],
         \/ tpc[r] = "required" /\ tpc'[r] = "left"
         \/ tpc[r] = "required" /\ tpc'[r] = "required"
                /\ ipc'[r] \in {"insert", "recheck", "reserved"}
         \/ tpc[r] \in {"completed", "busy", "failed"} /\ tpc'[r] = tpc[r]
  PROVE  StagesAgree'
  BY DEF StagesAgree, InTurn

LEMMA BeginKeyKeeps ==
  ASSUME PartFacts, JointInv, NEW r \in Requests, BeginKey(r)
  PROVE  JointInv'
<1>1. /\ tpc[r] = "required" /\ runs' = runs
      /\ \/ tpc' = tpc /\ ipc'[r] \in {"insert", "recheck", "reserved"}
         \/ tpc' = [tpc EXCEPT ![r] = "left"]
      /\ ipc'[r] \in {"insert", "recheck", "reserved"} => tpc' = tpc
  BY DEF BeginKey, turnVars, Turns!Leave, Turns!Goto, Turns!tables
<1>2. \/ tpc'[r] = "required" /\ ipc'[r] \in {"insert", "recheck", "reserved"}
      \/ tpc'[r] = "left"
  BY <1>1 DEF PartFacts
<1>3. \A o \in Requests : o # r => tpc'[o] = tpc[o]
  BY <1>1 DEF PartFacts
<1>4. \/ Ledger!LookupFree(r) \/ Ledger!LookupTaken(r)
      \/ Ledger!InsertConflict(r) \/ Ledger!Recheck(r)
      \/ Ledger!LookupExpired(r) \/ Ledger!Insert(r)
  BY DEF BeginKey, Ledger!Begin
<1>5. \A o \in Requests : o # r => ipc'[o] = ipc[o]
  BY <1>4 DEF Ledger!LookupFree, Ledger!LookupTaken, Ledger!InsertConflict,
     Ledger!Recheck, Ledger!LookupExpired, Ledger!Insert, Ledger!Reserve,
     Ledger!Settle, PartFacts
<1>6. StagesAgree'
  BY <1>1, <1>2, <1>3, <1>5, LedgerStages DEF JointInv
<1>7. TurnMove(r)
  BY <1>1, <1>2, <1>3 DEF TurnMove
<1>8. Slot(r) \in Slots /\ Ledger!RowOf(r) = keys[Slot(r)]
  BY DEF PartFacts, Ledger!RowOf
<1>9. CASE keys' = keys
  BY <1>6, <1>7, <1>9, TurnMoveKeeps DEF JointInv
<1>10. CASE Ledger!LookupExpired(r)
  <2>1. /\ keys' = [keys EXCEPT ![Slot(r)] = Ledger!Absent]
        /\ keys[Slot(r)].expired
        /\ ipc'[r] = "insert"
    BY <1>8, <1>10 DEF Ledger!LookupExpired, PartFacts
  <2>2. Slot(r) \in Expiring
    BY <1>8, <2>1 DEF JointInv, KeysAgree
  <2>3. KeysAgree' /\ StoredAgree'
    BY <1>1, <1>8, <2>1, <2>2, RowChangeKeeps DEF JointInv, Ledger!Absent
  <2> QED
    BY <1>6, <2>3 DEF JointInv
<1>11. CASE Ledger!Insert(r)
  <2> DEFINE row == [status |-> "processing", owner |-> r, body |-> NoBody,
                     born |-> Ledger!InFlight, expired |-> FALSE]
  <2>1. /\ keys' = [keys EXCEPT ![Slot(r)] = row]
        /\ keys[Slot(r)].status = "absent"
        /\ ipc'[r] = "reserved"
    BY <1>8, <1>11 DEF Ledger!Insert, Ledger!Reserve, PartFacts
  <2>2. row.status = "processing" /\ row.expired = FALSE
    OBVIOUS
  <2> HIDE DEF row
  <2>3. KeysAgree' /\ StoredAgree'
    BY <1>1, <1>8, <2>1, <2>2, RowChangeKeeps DEF JointInv
  <2> QED
    BY <1>6, <2>3 DEF JointInv
<1> QED
  BY <1>4, <1>9, <1>10, <1>11 DEF Ledger!LookupFree, Ledger!LookupTaken,
     Ledger!InsertConflict, Ledger!Recheck, Ledger!Settle

(* The response stored for an ended turn.                                  *)
LEMMA StoreKeyKeeps ==
  ASSUME PartFacts, JointInv, NEW r \in Requests, CompleteKey(r) \/ FailKey(r)
  PROVE  JointInv'
<1>1. PICK status, body :
        /\ Ledger!Store(r, status, body)
        /\ \/ status = "completed" /\ body = r /\ tpc[r] = "completed"
           \/ status = "failed" /\ body = "conversation_busy" /\ tpc[r] = "busy"
           \/ status = "failed" /\ body = "internal_error" /\ tpc[r] = "failed"
  BY DEF CompleteKey, FailKey, Ledger!Complete, Ledger!Fail
<1>2. UNCHANGED <<tpc, runs>>
  BY DEF CompleteKey, FailKey, turnVars
<1>3. /\ ipc[r] = "reserved"
      /\ \A o \in Requests : o # r => ipc'[o] = ipc[o]
  BY <1>1 DEF Ledger!Store, PartFacts
<1>4. StagesAgree'
  BY <1>1, <1>2, <1>3, LedgerStages DEF JointInv
<1>5. PICK s \in Slots : s = Slot(r)
  BY DEF PartFacts
<1> DEFINE row == [keys[s] EXCEPT !.status = status, !.body = body]
<1>6. keys[s] \in Ledger!Row /\ keys[s].owner = r /\ keys[s].status = "processing"
  BY <1>3, <1>5 DEF PartFacts
<1>7. row.status = status /\ row.body = body /\ row.owner = r
      /\ row.expired = keys[s].expired
  BY <1>6 DEF Ledger!Row
<1>8. keys' = [keys EXCEPT ![s] = row]
  BY <1>1, <1>5 DEF Ledger!Store, PartFacts
<1> HIDE DEF row
<1>9. s \notin Expiring => ~row.expired
  BY <1>7 DEF JointInv, KeysAgree
<1>10. KeysAgree' /\ StoredAgree'
  BY <1>1, <1>2, <1>6, <1>7, <1>8, <1>9, RowChangeKeeps DEF JointInv
<1> QED
  BY <1>4, <1>10 DEF JointInv

(* Only a slot whose retention may end expires.                            *)
LEMMA ExpireKeeps ==
  ASSUME PartFacts, JointInv, NEW s \in Slots, Expire(s)
  PROVE  JointInv'
<1> DEFINE row == [keys[s] EXCEPT !.expired = TRUE]
<1>1. /\ s \in Expiring
      /\ keys' = [keys EXCEPT ![s] = row]
      /\ UNCHANGED <<tpc, runs, ipc>>
  BY DEF Expire, Ledger!Expire, turnVars
<1>2. /\ row.status = keys[s].status /\ row.body = keys[s].body
      /\ row.owner = keys[s].owner
  BY DEF PartFacts, Ledger!Row
<1> HIDE DEF row
<1>3. /\ keys[s].status = "completed" =>
            keys[s].body = keys[s].owner /\ tpc[keys[s].owner] = "completed"
      /\ keys[s].status = "failed" =>
            \/ keys[s].body = "conversation_busy" /\ tpc[keys[s].owner] = "busy"
            \/ keys[s].body = "internal_error" /\ tpc[keys[s].owner] = "failed"
  BY DEF JointInv, StoredAgree
<1>4. KeysAgree' /\ StoredAgree'
  BY <1>1, <1>2, <1>3, RowChangeKeeps DEF JointInv
<1>5. StagesAgree'
  BY <1>1 DEF JointInv, StagesAgree
<1> QED
  BY <1>4, <1>5 DEF JointInv

LEMMA JointInvKept == PartFacts /\ JointInv /\ [Next]_vars => JointInv'
<1> SUFFICES ASSUME PartFacts, JointInv, [Next]_vars
             PROVE  JointInv'
  OBVIOUS
<1>1. ASSUME NEW r \in Requests, Require(r)
      PROVE  JointInv'
  <2>1. tpc[r] = "idle"
    BY <1>1 DEF Require, Turns!Require, Turns!NotFound
  <2> QED
    BY <1>1, <2>1, TurnStepKeeps DEF Require, ledgerVars
<1>2. ASSUME NEW r \in Requests, Refuse(r)
      PROVE  JointInv'
  <2>1. tpc'[r] # "began"
    BY <1>2 DEF Refuse, Turns!Leave, Turns!Goto, PartFacts
  <2> QED
    BY <1>2, <2>1, TurnStepKeeps DEF Refuse, ledgerVars
<1>3. ASSUME NEW r \in Requests, BeginKey(r)
      PROVE  JointInv'
  BY <1>3, BeginKeyKeeps
<1>4. ASSUME NEW r \in Requests, StartTurn(r)
      PROVE  JointInv'
  BY <1>4, TurnStepKeeps DEF StartTurn, ledgerVars
<1>5. ASSUME NEW r \in Requests, Execute(r)
      PROVE  JointInv'
  <2>1. tpc[r] # "required"
    BY <1>5 DEF Execute, Turns!Execute, Turns!Invoke, Turns!Reply, Turns!ReadFinal,
       Turns!CompleteTurn, Turns!Refresh, Turns!MarkFailed
  <2> QED
    BY <1>5, <2>1, TurnStepKeeps DEF Execute, ledgerVars
<1>6. ASSUME NEW r \in Requests, Raise(r)
      PROVE  JointInv'
  <2>1. tpc[r] # "required"
    BY <1>6 DEF Raise, Turns!Raise, Turns!InGraph
  <2> QED
    BY <1>6, <2>1, TurnStepKeeps DEF Raise, ledgerVars
<1>7. ASSUME NEW r \in Requests, CompleteKey(r) \/ FailKey(r)
      PROVE  JointInv'
  BY <1>7, StoreKeyKeeps
<1>8. ASSUME NEW r \in Requests, Lose(r)
      PROVE  JointInv'
  <2>1. tpc'[r] = "lost"
    BY <1>8 DEF Lose, Turns!Lose, Turns!Goto, PartFacts
  <2>2. /\ keys' = keys
        /\ \A o \in Requests : o # r => ipc'[o] = ipc[o]
    BY <1>8 DEF Lose, Ledger!Abandon, ledgerVars, PartFacts
  <2> QED
    BY <1>8, <2>1, <2>2, TurnStepKeeps DEF Lose
<1>9. ASSUME NEW r \in Requests, LoseResponse(r)
      PROVE  JointInv'
  <2>1. /\ UNCHANGED <<keys, tpc, runs>>
        /\ tpc[r] \in {"completed", "busy", "failed"}
        /\ \A o \in Requests : o # r => ipc'[o] = ipc[o]
    BY <1>9 DEF LoseResponse, Ledger!Abandon, turnVars, PartFacts
  <2>2. StagesAgree'
    BY <2>1, LedgerStages DEF JointInv
  <2>3. KeysAgree' /\ StoredAgree'
    BY <2>1 DEF JointInv, KeysAgree, StoredAgree
  <2> QED
    BY <2>2, <2>3 DEF JointInv
<1>10. ASSUME NEW d \in Deleters, DeleteConversation(d)
       PROVE  JointInv'
  <2>1. d \notin Requests
    BY SubmitAssumption DEF Turns!TurnsAssumption
  <2>2. /\ UNCHANGED <<runs, keys, ipc>>
        /\ \A r \in Requests : tpc'[r] = tpc[r]
    BY <1>10, <2>1 DEF DeleteConversation, Turns!RequireDelete, Turns!Delete,
       Turns!Goto, Turns!tables, ledgerVars, PartFacts
  <2>3. StagesAgree' /\ KeysAgree'
    BY <2>2 DEF JointInv, StagesAgree, KeysAgree
  <2>4. \A s \in Slots : keys[s].status # "absent" => keys[s].owner \in Requests
    BY DEF PartFacts
  <2>5. StoredAgree'
    BY <2>2, <2>4 DEF JointInv, StoredAgree
  <2> QED
    BY <2>3, <2>5 DEF JointInv
<1>11. ASSUME NEW s \in Slots, Expire(s)
       PROVE  JointInv'
  BY <1>11, ExpireKeeps
<1>12. ASSUME UNCHANGED vars
       PROVE  JointInv'
  BY <1>12 DEF vars, turnVars, ledgerVars, JointInv, StagesAgree, KeysAgree,
     StoredAgree
<1> QED
  BY <1>1, <1>2, <1>3, <1>4, <1>5, <1>6, <1>7, <1>8, <1>9, <1>10, <1>11, <1>12
  DEF Next, Handle, Quiet

(* The stages of submit_message fit together in every run of the           *)
(* composition: no turn without a reservation, no row that outlives its    *)
(* owner's claim unless it expires, no stored answer that the turn did not *)
(* give.                                                                   *)
THEOREM StagesFit == Spec => [](PartsInv /\ JointInv)
<1>1. Init => JointInv
  <2> SUFFICES ASSUME Init
               PROVE  JointInv
    OBVIOUS
  <2>1. /\ \A r \in Requests : tpc[r] = "idle" /\ ipc[r] = "idle" /\ runs[r] = "none"
        /\ \A s \in Slots : keys[s] = Ledger!Absent
    BY DEF Init, Turns!Init, Ledger!Init
  <2> QED
    BY <2>1 DEF JointInv, StagesAgree, KeysAgree, StoredAgree, Ledger!Absent, InTurn
<1>2. PartsInv /\ JointInv /\ [Next]_vars => JointInv'
  BY PartsInvFacts, JointInvKept
<1> QED
  BY <1>1, <1>2, PartsInvHolds, PTL DEF Spec

(* A turn in progress is covered by its key (conversations.py).            *)
THEOREM TurnsHoldKeys == Spec => []TurnHoldsKey
<1>1. PartsInv /\ JointInv => TurnHoldsKey
  BY PartsInvFacts DEF PartFacts, JointInv, StagesAgree, InTurn, TurnHoldsKey,
     Turns!InGraph
<1> QED
  BY <1>1, StagesFit, PTL

(* Exactly once: two requests with one key never both start a turn, unless *)
(* the first one's row has expired, and then its turn is over.             *)
THEOREM OneRunPerKey == Spec => []AtMostOneRunPerKey
<1>1. PartsInv /\ JointInv => AtMostOneRunPerKey
  <2> SUFFICES ASSUME PartsInv, JointInv, NEW r \in Requests, NEW o \in Requests,
                      r # o, Slot(r) = Slot(o), runs[r] # "none", runs[o] # "none"
               PROVE  /\ Slot(r) \in Expiring
                      /\ tpc[r] \notin Turns!InGraph \/ tpc[o] \notin Turns!InGraph
    BY DEF AtMostOneRunPerKey
  <2>1. Slot(r) \in Expiring
    BY DEF JointInv, KeysAgree
  <2>2. \A x \in Requests : tpc[x] \in Turns!InGraph => keys[Slot(x)].owner = x
    BY PartsInvFacts DEF PartFacts, JointInv, StagesAgree, InTurn, Turns!InGraph
  <2> QED
    BY <2>1, <2>2
<1> QED
  BY <1>1, StagesFit, PTL

(* What is stored under a key is what its request's turn came to.          *)
THEOREM StoredResponsesMatch == Spec => []StoredResponseMatchesRun
<1>1. PartsInv /\ JointInv => StoredResponseMatchesRun
  <2> SUFFICES ASSUME PartsInv, JointInv, NEW s \in Slots
               PROVE
                 /\ keys[s].status = "completed" =>
                     /\ keys[s].body = keys[s].owner
                     /\ runs[keys[s].owner] = "completed"
                     /\ \E m \in messages :
                         /\ m.run = keys[s].owner /\ m.role = "assistant"
                         /\ m.status = "complete" /\ m.text = keys[s].owner
                 /\ keys[s].status = "failed" =>
                     runs[keys[s].owner] =
                         IF keys[s].body = "conversation_busy" THEN "none" ELSE "failed"
    BY DEF StoredResponseMatchesRun
  <2>1. keys[s].status # "absent" => keys[s].owner \in Requests
    BY PartsInvFacts DEF PartFacts
  <2>2. CASE keys[s].status = "completed"
    BY <2>1, <2>2, PartsInvFacts DEF PartFacts, JointInv, StoredAgree
  <2>3. CASE keys[s].status = "failed"
    BY <2>1, <2>3, PartsInvFacts DEF PartFacts, JointInv, StoredAgree
  <2> QED
    BY <2>2, <2>3
<1> QED
  BY <1>1, StagesFit, PTL

-----------------------------------------------------------------------------

(* The response that tells of the end of the turn of r.                    *)
TellsEnd(response, r) ==
    \/ response = [status |-> "completed", body |-> r] /\ tpc[r] = "completed"
    \/ response = [status |-> "failed", body |-> "conversation_busy"] /\ tpc[r] = "busy"
    \/ response = [status |-> "failed", body |-> "internal_error"] /\ tpc[r] = "failed"

(* A request that has stored its response has given it for its own turn.   *)
ToldAgree == \A r \in Requests : ipc[r] = "stored" => TellsEnd(told[r], r)

(* A step with which no request stores a response leaves those that have,  *)
(* since their turns are over.                                             *)
LEMMA NobodyStores ==
  ASSUME ToldAgree,
         \A r \in Requests :
            ipc'[r] = "stored" => /\ ipc[r] = "stored" /\ told'[r] = told[r]
                                  /\ \/ tpc'[r] = tpc[r]
                                     \/ tpc[r] \notin {"completed", "busy", "failed"}
  PROVE  ToldAgree'
<1> SUFFICES ASSUME NEW r \in Requests, ipc'[r] = "stored"
             PROVE  TellsEnd(told[r], r)'
  BY DEF ToldAgree
<1>1. TellsEnd(told[r], r) /\ told'[r] = told[r]
  BY DEF ToldAgree
<1>2. tpc[r] \in {"completed", "busy", "failed"}
  BY <1>1 DEF TellsEnd
<1>3. tpc'[r] = tpc[r]
  BY <1>2
<1> QED
  BY <1>1, <1>3 DEF TellsEnd

(* A step of the turn of r, which may at most lose its reservation.        *)
LEMMA TurnKeepsTold ==
  ASSUME PartFacts, ToldAgree, NEW r \in Requests,
         \/ Turns!Require(r) \/ Turns!NotFound(r) \/ Turns!Leave(r)
         \/ Turns!BeginTurn(r) \/ Turns!BusyTurn(r) \/ Turns!Execute(r)
         \/ Turns!Raise(r) \/ Turns!Lose(r),
         ipc' = ipc \/ Ledger!Abandon(r), told' = told
  PROVE  ToldAgree'
<1>1. /\ \A o \in Requests : o # r => tpc'[o] = tpc[o]
      /\ tpc[r] \notin {"completed", "busy", "failed"}
  BY TurnStages DEF InTurn
<1>2. \A o \in Requests : ipc'[o] = "stored" => ipc[o] = "stored"
  BY DEF Ledger!Abandon, PartFacts
<1> QED
  BY <1>1, <1>2, NobodyStores

LEMMA BeginKeepsTold ==
  ASSUME PartFacts, DOMAIN told = Requests, ToldAgree, NEW r \in Requests, BeginKey(r)
  PROVE  ToldAgree'
<1>1. tpc' = tpc \/ tpc' = [tpc EXCEPT ![r] = "left"]
  BY DEF BeginKey, turnVars, Turns!Leave, Turns!Goto
<1>2. tpc[r] = "required" /\ \A o \in Requests : o # r => tpc'[o] = tpc[o]
  BY <1>1 DEF BeginKey, PartFacts
<1>3. /\ \A o \in Requests : o # r => ipc'[o] = ipc[o] /\ told'[o] = told[o]
      /\ ipc'[r] # "stored"
  BY DEF BeginKey, Ledger!Begin, Ledger!LookupFree, Ledger!LookupTaken,
     Ledger!InsertConflict, Ledger!Recheck, Ledger!LookupExpired, Ledger!Insert,
     Ledger!Reserve, Ledger!Settle, Ledger!Verdict, PartFacts
<1> QED
  BY <1>2, <1>3, NobodyStores

LEMMA StoreTells ==
  ASSUME PartFacts, DOMAIN told = Requests, ToldAgree, NEW r \in Requests,
         CompleteKey(r) \/ FailKey(r)
  PROVE  ToldAgree'
<1>1. PICK status, body :
        /\ Ledger!Store(r, status, body)
        /\ \/ status = "completed" /\ body = r /\ tpc[r] = "completed"
           \/ status = "failed" /\ body = "conversation_busy" /\ tpc[r] = "busy"
           \/ status = "failed" /\ body = "internal_error" /\ tpc[r] = "failed"
  BY DEF CompleteKey, FailKey, Ledger!Complete, Ledger!Fail
<1>2. tpc' = tpc
  BY DEF CompleteKey, FailKey, turnVars
<1>3. /\ told'[r] = [status |-> status, body |-> body]
      /\ \A o \in Requests : o # r => ipc'[o] = ipc[o] /\ told'[o] = told[o]
  BY <1>1 DEF Ledger!Store, PartFacts
<1>4. TellsEnd(told[r], r)'
  BY <1>1, <1>2, <1>3 DEF TellsEnd
<1>5. ASSUME NEW o \in Requests, o # r, ipc'[o] = "stored"
      PROVE  TellsEnd(told[o], o)'
  BY <1>2, <1>3, <1>5 DEF ToldAgree, TellsEnd
<1> QED
  BY <1>4, <1>5 DEF ToldAgree

LEMMA ToldAgreeKept ==
  PartFacts /\ DOMAIN told = Requests /\ ToldAgree /\ [Next]_vars => ToldAgree'
<1> SUFFICES ASSUME PartFacts, DOMAIN told = Requests, ToldAgree, [Next]_vars
             PROVE  ToldAgree'
  OBVIOUS
<1>1. ASSUME NEW r \in Requests, Require(r) \/ Refuse(r) \/ StartTurn(r)
                                 \/ Execute(r) \/ Raise(r)
      PROVE  ToldAgree'
  BY <1>1, TurnKeepsTold DEF Require, Refuse, StartTurn, Execute, Raise, ledgerVars
<1>2. ASSUME NEW r \in Requests, Lose(r)
      PROVE  ToldAgree'
  BY <1>2, TurnKeepsTold DEF Lose, Ledger!Abandon, ledgerVars
<1>3. ASSUME NEW r \in Requests, BeginKey(r)
      PROVE  ToldAgree'
  BY <1>3, BeginKeepsTold
<1>4. ASSUME NEW r \in Requests, CompleteKey(r) \/ FailKey(r)
      PROVE  ToldAgree'
  BY <1>4, StoreTells
<1>5. ASSUME NEW r \in Requests, LoseResponse(r)
      PROVE  ToldAgree'
  <2>1. /\ UNCHANGED <<tpc, told>>
        /\ \A o \in Requests : ipc'[o] = "stored" => ipc[o] = "stored"
    BY <1>5 DEF LoseResponse, Ledger!Abandon, turnVars, PartFacts
  <2> QED
    BY <2>1, NobodyStores
<1>6. ASSUME NEW d \in Deleters, DeleteConversation(d)
      PROVE  ToldAgree'
  <2>1. d \notin Requests
    BY SubmitAssumption DEF Turns!TurnsAssumption
  <2>2. UNCHANGED <<ipc, told>> /\ \A r \in Requests : tpc'[r] = tpc[r]
    BY <1>6, <2>1 DEF DeleteConversation, Turns!RequireDelete, Turns!Delete,
       Turns!Goto, Turns!tables, ledgerVars, PartFacts
  <2> QED
    BY <2>2, NobodyStores
<1>7. ASSUME UNCHANGED <<tpc, ipc, told>>
      PROVE  ToldAgree'
  BY <1>7, NobodyStores
<1>8. ASSUME NEW s \in Slots, Expire(s)
      PROVE  ToldAgree'
  BY <1>7, <1>8 DEF Expire, Ledger!Expire, turnVars
<1>9. CASE UNCHANGED vars
  BY <1>7, <1>9 DEF vars, turnVars, ledgerVars
<1> QED
  BY <1>1, <1>2, <1>3, <1>4, <1>5, <1>6, <1>8, <1>9 DEF Next, Handle, Quiet

(* A retry that gets a response gets that of another submission with its   *)
(* key and payload, and it tells how that one's turn ended: a completed    *)
(* response names a completed run whose reply is in the transcript, a busy *)
(* one belongs to no run and an error to a failed one                      *)
(* (idempotency.py:144-165, conversations.py:290-306).                     *)
ReplayShowsTurn ==
    \A r \in Requests : ipc[r] = "replayed" =>
        \E o \in Requests \ {r} :
            /\ Slot(o) = Slot(r) /\ PayloadOf[o] = PayloadOf[r]
            /\ \/ /\ told[r] = [status |-> "completed", body |-> o]
                  /\ runs[o] = "completed"
                  /\ \E m \in messages :
                        /\ m.run = o /\ m.role = "assistant"
                        /\ m.status = "complete" /\ m.text = o
               \/ /\ told[r] = [status |-> "failed", body |-> "conversation_busy"]
                  /\ runs[o] = "none"
               \/ /\ told[r] = [status |-> "failed", body |-> "internal_error"]
                  /\ runs[o] = "failed"

(* The replays of any number of retries show turns that ran, whatever is   *)
(* lost, expires or fails between (idempotency.py, conversations.py).      *)
THEOREM ReplaysShowTurns == Spec => []ReplayShowsTurn
<1>1. Init => ToldAgree
  BY DEF Init, Ledger!Init, ToldAgree
<1>2. PartsInv => PartFacts /\ DOMAIN told = Requests
  BY PartsInvFacts DEF PartsInv, LP!IndInv, LP!TypeOK
<1>3. PartsInv /\ ToldAgree /\ [Next]_vars => ToldAgree'
  BY <1>2, ToldAgreeKept
<1>4. PartsInv /\ ToldAgree => ReplayShowsTurn
  <2> SUFFICES ASSUME PartsInv, ToldAgree, NEW r \in Requests, ipc[r] = "replayed"
               PROVE  \E o \in Requests \ {r} :
                        /\ Slot(o) = Slot(r) /\ PayloadOf[o] = PayloadOf[r]
                        /\ \/ /\ told[r] = [status |-> "completed", body |-> o]
                              /\ runs[o] = "completed"
                              /\ \E m \in messages :
                                    /\ m.run = o /\ m.role = "assistant"
                                    /\ m.status = "complete" /\ m.text = o
                           \/ /\ told[r] = [status |-> "failed",
                                            body |-> "conversation_busy"]
                              /\ runs[o] = "none"
                           \/ /\ told[r] = [status |-> "failed",
                                            body |-> "internal_error"]
                              /\ runs[o] = "failed"
    BY DEF ReplayShowsTurn
  <2>1. PICK o \in Requests \ {r} :
            /\ Slot(o) = Slot(r) /\ PayloadOf[o] = PayloadOf[r]
            /\ ipc[o] = "stored" /\ told[o] = told[r]
    BY DEF PartsInv, LP!IndInv, LP!ReplayFaithful
  <2>2. TellsEnd(told[r], o)
    BY <2>1 DEF ToldAgree
  <2> QED
    BY <1>2, <2>1, <2>2 DEF TellsEnd, PartFacts
<1> QED
  BY <1>1, <1>3, <1>4, PartsInvHolds, PTL DEF Spec

=============================================================================
