------------------------ MODULE MCConversationPages ------------------------
(***************************************************************************)
(* TLC instance of ConversationPages: one user with three conversations    *)
(* and one to be created, another user with one; turns in two of them, two *)
(* deletions of one of these; a client that pages through the list, one    *)
(* through the history of the busiest conversation, and a stranger who     *)
(* tries to.                                                               *)
(***************************************************************************)
EXTENDS ConversationPages, TLC

CONSTANTS alice, bob, t1, t2, t3, d1, d2, list, history, stranger

MCOwnerOf == [c \in Conversations |-> IF c = 5 THEN bob ELSE alice]
MCCallerOf == [x \in Calls \cup Walks |-> IF x = stranger THEN bob ELSE alice]
MCConvOf == (t1 :> 1) @@ (t2 :> 1) @@ (t3 :> 2) @@ (d1 :> 2) @@ (d2 :> 2)
            @@ (history :> 1) @@ (stranger :> 1)
MCLimit == (list :> 1) @@ (history :> 3) @@ (stranger :> 3)

(* The turns of one conversation are interchangeable, and its deletions.   *)
Interchangeable == Permutations({t1, t2}) \cup Permutations({d1, d2})

=============================================================================
