---------------------------- MODULE MCRateLimits ----------------------------
(***************************************************************************)
(* TLC instance of RateLimits: calls that count one key, against a limit   *)
(* of two in a window of two ticks.                                        *)
(***************************************************************************)
EXTENDS RateLimits

CONSTANTS c1, c2, c3, c4, key

MCKeyOf == [x \in Checks |-> key]

=============================================================================
