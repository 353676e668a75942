---------------------------- MODULE SerialTurns ----------------------------
(***************************************************************************)
(* What a conversation promises its user, without messages, checkpoints or *)
(* transactions: its turns are opened one at a time, each behind turns     *)
(* that are all closed, and the log of turns only grows.  A completed turn *)
(* may still be taken back while its outcome has not been answered, even   *)
(* when the next turn is open; once answered, or failed, it is final.      *)
(***************************************************************************)
EXTENDS Naturals, Sequences

CONSTANTS
    Requests,        \* the turns that may be opened
    Conversations,
    ConvOf           \* the conversation of each turn

VARIABLES
    log,             \* the turns of each conversation in order
    answered         \* the completed turns whose outcome has been answered

Turn == [run: Requests, status: {"running", "completed", "failed"}]

TypeOK ==
    /\ log \in [Conversations -> Seq(Turn)]
    /\ answered \subseteq Requests

Init ==
    /\ log = [c \in Conversations |-> <<>>]
    /\ answered = {}

(* A new turn follows turns that are all closed.                           *)
Open(r) ==
    LET c == ConvOf[r] IN
    /\ \A i \in DOMAIN log[c] :
        log[c][i].run # r /\ log[c][i].status # "running"
    /\ log' = [log EXCEPT ![c] = Append(@, [run |-> r, status |-> "running"])]
    /\ UNCHANGED answered

(* The open turn, which is the last one, gets its outcome.                 *)
Close(r, outcome) ==
    LET c == ConvOf[r] IN
    /\ log[c] # <<>>
    /\ log[c][Len(log[c])] = [run |-> r, status |-> "running"]
    /\ log' = [log EXCEPT ![c][Len(log[c])].status = outcome]
    /\ UNCHANGED answered

CompletedAt(r, i) == log[ConvOf[r]][i] = [run |-> r, status |-> "completed"]

(* A completed turn fails after all, wherever it stands in the log.        *)
Retract(r) ==
    /\ r \notin answered
    /\ \E i \in DOMAIN log[ConvOf[r]] :
        /\ CompletedAt(r, i)
        /\ log' = [log EXCEPT ![ConvOf[r]][i].status = "failed"]
    /\ UNCHANGED answered

(* The outcome of a completed turn is answered.                            *)
Answer(r) ==
    /\ r \notin answered
    /\ \E i \in DOMAIN log[ConvOf[r]] : CompletedAt(r, i)
    /\ answered' = answered \cup {r}
    /\ UNCHANGED log

Next ==
    \E r \in Requests :
        \/ Open(r)
        \/ \E outcome \in {"completed", "failed"} : Close(r, outcome)
        \/ Retract(r)
        \/ Answer(r)

Spec == Init /\ [][Next]_<<log, answered>>

=============================================================================
