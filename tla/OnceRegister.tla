---------------------------- MODULE OnceRegister ----------------------------
(***************************************************************************)
(* What an idempotency key promises the clients that send it, without      *)
(* rows, transactions or races: a register for each slot that one request  *)
(* opens, which then works alone and closes it with its result.  The       *)
(* others hear that result, if they ask for the same thing, or give up.    *)
(* A result stays until it lapses, which no worker of the register lives   *)
(* to see, and only then can the register be opened again.                 *)
(***************************************************************************)

CONSTANTS
    Requests, Slots, Fingerprints, Results,
    SlotOf, FingerprintOf,
    NoResult,        \* nothing has been heard, or stored
    Nobody           \* the holder of a free register

VARIABLES
    cell,            \* the register of each slot
    stage,           \* each request waits, works or is over
    heard            \* what each request has been told

vars == <<cell, stage, heard>>

Free == [status |-> "free", holder |-> Nobody, result |-> NoResult,
         lapsed |-> FALSE]

Init ==
    /\ cell = [s \in Slots |-> Free]
    /\ stage = [r \in Requests |-> "waiting"]
    /\ heard = [r \in Requests |-> NoResult]

CellOf(r) == cell[SlotOf[r]]

(* A request takes a free register and works.                              *)
Open(r) ==
    /\ stage[r] = "waiting" /\ CellOf(r) = Free
    /\ cell' = [cell EXCEPT ![SlotOf[r]] =
            [status |-> "open", holder |-> r, result |-> NoResult,
             lapsed |-> FALSE]]
    /\ stage' = [stage EXCEPT ![r] = "working"]
    /\ UNCHANGED heard

(* It closes the register it holds with its result.                        *)
Close(r, result) ==
    /\ stage[r] = "working"
    /\ CellOf(r).status = "open" /\ CellOf(r).holder = r
    /\ cell' = [cell EXCEPT ![SlotOf[r]] =
            [status |-> "closed", holder |-> r, result |-> result,
             lapsed |-> FALSE]]
    /\ stage' = [stage EXCEPT ![r] = "over"]
    /\ heard' = [heard EXCEPT ![r] = result]

(* Another that asks for the same thing hears the result.                  *)
Hear(r) ==
    /\ stage[r] = "waiting"
    /\ CellOf(r).status = "closed" /\ ~CellOf(r).lapsed
    /\ FingerprintOf[CellOf(r).holder] = FingerprintOf[r]
    /\ stage' = [stage EXCEPT ![r] = "over"]
    /\ heard' = [heard EXCEPT ![r] = CellOf(r).result]
    /\ UNCHANGED cell

(* A request is refused, or is lost; what it holds stays held.             *)
GiveUp(r) ==
    /\ stage[r] # "over"
    /\ stage' = [stage EXCEPT ![r] = "over"]
    /\ UNCHANGED <<cell, heard>>

(* The time of a register is over; nobody works on it any more.            *)
Lapse(s) ==
    /\ cell[s] # Free /\ ~cell[s].lapsed
    /\ \A r \in Requests : SlotOf[r] = s => stage[r] # "working"
    /\ cell' = [cell EXCEPT ![s] =
            [status |-> @.status, holder |-> @.holder, result |-> @.result,
             lapsed |-> TRUE]]
    /\ UNCHANGED <<stage, heard>>

Forget(s) ==
    /\ cell[s].lapsed
    /\ cell' = [cell EXCEPT ![s] = Free]
    /\ UNCHANGED <<stage, heard>>

Next ==
    \/ \E r \in Requests :
        Open(r) \/ Hear(r) \/ GiveUp(r) \/ \E x \in Results : Close(r, x)
    \/ \E s \in Slots : Lapse(s) \/ Forget(s)

Spec == Init /\ [][Next]_vars

=============================================================================
