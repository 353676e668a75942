--------------------------- MODULE MCSmokeClient ---------------------------
(***************************************************************************)
(* TLC instance of SmokeClient: a primary and a fallback model, with       *)
(* replies of at most three chunks.                                        *)
(***************************************************************************)
EXTENDS SmokeClient

=============================================================================
