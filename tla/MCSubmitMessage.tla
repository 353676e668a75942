-------------------------- MODULE MCSubmitMessage --------------------------
(***************************************************************************)
(* TLC instance of SubmitMessage on one conversation: a message r1 and its *)
(* retry r2, and a second message r3 with another key.                     *)
(***************************************************************************)
EXTENDS SubmitMessage, TLC

CONSTANTS r1, r2, r3, d1, talk, k1, k2, p1

MCConvOf == [x \in Requests \cup Deleters |-> talk]
MCKeyOf == [x \in Requests |-> IF x \in {r1, r2} THEN k1 ELSE k2]
MCPayloadOf == [x \in Requests |-> p1]
FirstKey == {<<talk, k1>>}
SecondKey == {<<talk, k2>>}

=============================================================================
