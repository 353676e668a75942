--------------------------- MODULE MCAuthSessions ---------------------------
(***************************************************************************)
(* TLC instance of AuthSessions for one user with one session allowed: the *)
(* second of two logins ends the session of the first, while two refreshes *)
(* and two logouts use either.                                             *)
(***************************************************************************)
EXTENDS AuthSessions, TLC

CONSTANTS u, l1, l2, f1, f2, o1, o2

MCUserOf == [l \in Logins |-> u]

Interchangeable ==
    Permutations(Logins) \cup Permutations(Refreshes) \cup Permutations(Logouts)

=============================================================================
