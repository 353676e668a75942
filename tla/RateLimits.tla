----------------------------- MODULE RateLimits -----------------------------
(***************************************************************************)
(* The two rate limiters of app/core/rate_limit.py, of which               *)
(* create_rate_limiter picks one: the in-memory one counts in a single     *)
(* step under its lock, the Valkey one with two commands, INCR and EXPIRE. *)
(*                                                                         *)
(* A counter is gone when its count is 0: an absent or expired entry of    *)
(* the dictionary, or an absent key of Valkey.  Time is counted in ticks   *)
(* left until its deadline, 0 when it has none.                            *)
(***************************************************************************)
EXTENDS Naturals, FiniteSets

CONSTANTS
    Checks,          \* calls of check
    Keys, KeyOf,     \* the key each call counts
    Limit, Window,   \* limit and window_seconds, in ticks
    Faults           \* "lost": calls may fail or die between two commands

ASSUME LimitsAssumption ==
    /\ IsFiniteSet(Checks)
    /\ KeyOf \in [Checks -> Keys]
    /\ Limit \in Nat \ {0} /\ Window \in Nat \ {0}
    /\ Faults \subseteq {"lost"}

VARIABLES
    store,           \* the limiter picked at startup
    count, left,     \* the counters and the ticks left of their windows
    cpc,             \* where each call stands
    seen,            \* the count it has got
    tally            \* history: the calls a counter has counted

limitVars == <<store, count, left, cpc, seen, tally>>

TypeOK ==
    /\ store \in {"memory", "valkey"}
    /\ count \in [Keys -> Nat]
    /\ left \in [Keys -> 0 .. Window]
    /\ cpc \in [Checks -> {"idle", "first", "admitted", "limited", "error"}]
    /\ seen \in [Checks -> Nat]
    /\ tally \in [Keys -> SUBSET Checks]

(* create_rate_limiter: Valkey when it answers a ping, else the fallback.  *)
Init ==
    /\ store \in {"memory", "valkey"}
    /\ count = [k \in Keys |-> 0]
    /\ left = [k \in Keys |-> 0]
    /\ cpc = [c \in Checks |-> "idle"]
    /\ seen = [c \in Checks |-> 0]
    /\ tally = [k \in Keys |-> {}]

-----------------------------------------------------------------------------

(* Slips, for the mutation runs: the limit is off by one.                  *)
VerdictLate(n) == IF n > Limit + 1 THEN "limited" ELSE "admitted"
VerdictEarly(n) == IF n >= Limit THEN "limited" ELSE "admitted"

Verdict(n) == IF n > Limit THEN "limited" ELSE "admitted"

Goto(c, stage) == cpc' = [cpc EXCEPT ![c] = stage]

(* The count is incremented and returned, from 1 when the counter is gone. *)
Count(c) ==
    /\ cpc[c] = "idle"
    /\ count' = [count EXCEPT ![KeyOf[c]] = @ + 1]
    /\ seen' = [seen EXCEPT ![c] = count[KeyOf[c]] + 1]
    /\ tally' = [tally EXCEPT ![KeyOf[c]] = @ \cup {c}]
    /\ UNCHANGED store

(* InMemoryRateLimiter.check: there is no await between read and write.    *)
CheckInMemory(c) ==
    /\ store = "memory"
    /\ Count(c)
    /\ left' = [left EXCEPT ![KeyOf[c]] = IF count[KeyOf[c]] = 0 THEN Window ELSE @]
    /\ Goto(c, Verdict(count[KeyOf[c]] + 1))

(* ValkeyRateLimiter.check: INCR.                                          *)
Incr(c) ==
    /\ store = "valkey"
    /\ Count(c)
    /\ Goto(c, IF count[KeyOf[c]] = 0 THEN "first" ELSE Verdict(count[KeyOf[c]] + 1))
    /\ UNCHANGED left

(* A slip: the deadline is not set.                                        *)
ExpireSkipped(c) ==
    /\ cpc[c] = "first"
    /\ Goto(c, Verdict(seen[c]))
    /\ UNCHANGED <<store, count, left, seen, tally>>

(* EXPIRE by the call that got 1; without effect on an absent key.         *)
Expire(c) ==
    /\ cpc[c] = "first"
    /\ left' = [left EXCEPT ![KeyOf[c]] = IF count[KeyOf[c]] = 0 THEN @ ELSE Window]
    /\ Goto(c, Verdict(seen[c]))
    /\ UNCHANGED <<store, count, seen, tally>>

(* A command is not sent, or its caller dies before it.                    *)
Fail(c) ==
    /\ "lost" \in Faults /\ store = "valkey"
    /\ cpc[c] \in {"idle", "first"}
    /\ Goto(c, "error")
    /\ UNCHANGED <<store, count, left, seen, tally>>

(* INCR is executed and its answer lost.                                   *)
LoseCount(c) ==
    /\ "lost" \in Faults /\ store = "valkey"
    /\ Count(c)
    /\ Goto(c, "error")
    /\ UNCHANGED left

(* A slip: the window closes one tick after its deadline.                  *)
TickPast(k) ==
    /\ count[k] > 0
    /\ left' = [left EXCEPT ![k] = IF @ = 0 THEN Window + 1 ELSE @ - 1]
    /\ UNCHANGED <<store, count, cpc, seen, tally>>

(* A tick passes; with the last one the counter is gone.                   *)
Tick(k) ==
    /\ left[k] > 0
    /\ left' = [left EXCEPT ![k] = @ - 1]
    /\ count' = [count EXCEPT ![k] = IF left[k] = 1 THEN 0 ELSE @]
    /\ tally' = [tally EXCEPT ![k] = IF left[k] = 1 THEN {} ELSE @]
    /\ UNCHANGED <<store, cpc, seen>>

(* Every call has ended and no window is open.                             *)
Quiet ==
    /\ \A c \in Checks : cpc[c] \in {"admitted", "limited", "error"}
    /\ \A k \in Keys : left[k] = 0
    /\ UNCHANGED limitVars

Next ==
    \/ \E c \in Checks : \/ CheckInMemory(c) \/ Incr(c) \/ Expire(c)
                         \/ Fail(c) \/ LoseCount(c)
    \/ \E k \in Keys : Tick(k)
    \/ Quiet

Spec == Init /\ [][Next]_limitVars

(* Time passes, and a caller that lives sends its EXPIRE.                  *)
FairSpec ==
    /\ Spec
    /\ \A k \in Keys : WF_limitVars(Tick(k))
    /\ \A c \in Checks : WF_limitVars(Expire(c))

-----------------------------------------------------------------------------

(* No window admits more calls than the limit, although a Valkey call is   *)
(* judged by a count that others have raised since (rate_limit.py:51-55).  *)
WithinLimit ==
    \A k \in Keys :
        Cardinality({c \in tally[k] : cpc[c] = "admitted"}) <= Limit

(* A call is turned away only when its window has counted the limit        *)
(* without it.                                                             *)
LimitedOnlyWhenFull ==
    \A k \in Keys : \A c \in tally[k] :
        cpc[c] = "limited" => Cardinality(tally[k] \ {c}) >= Limit

(* The deadline of an open window is never moved: windows are fixed.       *)
WindowNotExtended ==
    [][\A k \in Keys :
        left[k] > 0 /\ count'[k] > 0 => left'[k] <= left[k]]_limitVars

(* Every window closes, unless the call that opened it has failed.         *)
WindowsCloseUnlessLost ==
    \A k \in Keys :
        count[k] > 0 ~> \/ count[k] = 0
                        \/ \E c \in tally[k] : seen[c] = 1 /\ cpc[c] = "error"

=============================================================================
