------------------------ MODULE MCConversationTurns ------------------------
(***************************************************************************)
(* TLC instance of ConversationTurns: up to three turns compete for the    *)
(* conversation "talk", r3 as a stream; d1 deletes it, and x is a stranger *)
(* who names it.                                                           *)
(***************************************************************************)
EXTENDS ConversationTurns, TLC

CONSTANTS r1, r2, r3, d1, x, talk

MCConvOf == [r \in Requests \cup Deleters |-> talk]

(* The two JSON turns are interchangeable.                                 *)
Interchangeable == Permutations({r1, r2})

=============================================================================
