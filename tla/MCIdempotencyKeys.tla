------------------------- MODULE MCIdempotencyKeys -------------------------
(***************************************************************************)
(* TLC instance of IdempotencyKeys: four requests on two slots.  r1, r2    *)
(* and r3 share a slot, r3 with another payload, so races, replays, reuse  *)
(* and expiry meet on one row; r4 has a slot of its own, so an update of   *)
(* the wrong row shows.                                                    *)
(***************************************************************************)
EXTENDS IdempotencyKeys, TLC

CONSTANTS r1, r2, r3, r4, a, b, p, q

MCRequests == {r1, r2, r3, r4}
MCSlots == {a, b}
MCFingerprints == {p, q}
MCBodies == {"first", "second"}
MCSlotOf == (r1 :> a) @@ (r2 :> a) @@ (r3 :> a) @@ (r4 :> b)
MCFingerprintOf == (r1 :> p) @@ (r2 :> p) @@ (r3 :> q) @@ (r4 :> p)

(* Retries with one slot and payload, and the stored responses, are        *)
(* interchangeable.                                                        *)
Interchangeable == Permutations({r1, r2})

=============================================================================
