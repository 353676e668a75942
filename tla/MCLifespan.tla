----------------------------- MODULE MCLifespan -----------------------------
(***************************************************************************)
(* TLC instance of Lifespan: two processes on a new or a migrated database,*)
(* with settings that do and do not allow the limiter in memory, and two   *)
(* registrations of one address, which may be the administrator's.         *)
(***************************************************************************)
EXTENDS Lifespan

CONSTANTS r1, r2, e1, e2

MCEmailOf == [r \in Registrations |-> e1]
MCSettings == [redis_url: {TRUE}, allow_in_memory: BOOLEAN]

=============================================================================
