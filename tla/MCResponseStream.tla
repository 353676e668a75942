-------------------------- MODULE MCResponseStream --------------------------
(***************************************************************************)
(* TLC instance of ResponseStream: a primary and a fallback model, with    *)
(* replies of at most two chunks.                                          *)
(***************************************************************************)
EXTENDS ResponseStream

=============================================================================
