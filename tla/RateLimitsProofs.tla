-------------------------- MODULE RateLimitsProofs --------------------------
(***************************************************************************)
(* Proofs that RateLimits keeps its limit and its windows for any calls,   *)
(* keys, limit and window, whichever calls fail.                           *)
(***************************************************************************)
EXTENDS RateLimits, FiniteSetTheorems, TLAPS

(* The calls a counter has counted got the numbers from 1 to its count,    *)
(* each one once.                                                          *)
Numbered ==
    \A k \in Keys :
        /\ \A c \in tally[k] :
            KeyOf[c] = k /\ cpc[c] # "idle" /\ seen[c] \in 1 .. count[k]
        /\ \A c, d \in tally[k] : seen[c] = seen[d] => c = d
        /\ \A n \in 1 .. count[k] : \E c \in tally[k] : seen[c] = n

(* Their verdicts were given by that number.                               *)
Judged ==
    \A c \in Checks :
        /\ cpc[c] = "admitted" => seen[c] <= Limit
        /\ cpc[c] = "limited" => seen[c] > Limit

(* The call that is to set the deadline of a counter is its first, and     *)
(* until then there is none, so the counter is not gone.                   *)
FirstSetsDeadline ==
    /\ \A k \in Keys : count[k] = 0 => left[k] = 0
    /\ \A c \in Checks : cpc[c] = "first" =>
        /\ store = "valkey" /\ seen[c] = 1
        /\ c \in tally[KeyOf[c]] /\ left[KeyOf[c]] = 0

IndInv == TypeOK /\ Numbered /\ Judged /\ FirstSetsDeadline

-----------------------------------------------------------------------------

(* Nothing has been counted.                                               *)
LEMMA InitIndInv == Init => IndInv
  BY LimitsAssumption
  DEF Init, IndInv, TypeOK, Numbered, Judged, FirstSetsDeadline

(* Counting a call gives it the next number of its counter.                *)
LEMMA CountNumbers ==
  ASSUME IndInv, NEW c \in Checks, Count(c), cpc'[c] # "idle",
         cpc' \in [Checks -> {"idle", "first", "admitted", "limited", "error"}],
         \A d \in Checks \ {c} : cpc'[d] = cpc[d]
  PROVE  /\ Numbered'
         /\ count[KeyOf[c]] \in Nat
         /\ seen'[c] = count[KeyOf[c]] + 1
         /\ count'[KeyOf[c]] = count[KeyOf[c]] + 1
         /\ tally'[KeyOf[c]] = tally[KeyOf[c]] \cup {c}
         /\ \A d \in Checks \ {c} : seen'[d] = seen[d]
         /\ \A k \in Keys \ {KeyOf[c]} : count'[k] = count[k] /\ tally'[k] = tally[k]
         /\ count' \in [Keys -> Nat] /\ seen' \in [Checks -> Nat]
         /\ tally' \in [Keys -> SUBSET Checks]
<1> USE LimitsAssumption
<1> DEFINE j == KeyOf[c]
<1>1. /\ j \in Keys /\ count[j] \in Nat
      /\ seen'[c] = count[j] + 1
      /\ count'[j] = count[j] + 1
      /\ tally'[j] = tally[j] \cup {c}
      /\ \A d \in Checks \ {c} : seen'[d] = seen[d]
      /\ \A k \in Keys \ {j} : count'[k] = count[k] /\ tally'[k] = tally[k]
      /\ count' \in [Keys -> Nat] /\ seen' \in [Checks -> Nat]
      /\ tally' \in [Keys -> SUBSET Checks]
  <2>1. j \in Keys /\ count \in [Keys -> Nat] /\ seen \in [Checks -> Nat]
        /\ tally \in [Keys -> SUBSET Checks]
    BY DEF IndInv, TypeOK
  <2>2. count' \in [Keys -> Nat] /\ count'[j] = count[j] + 1
        /\ \A k \in Keys \ {j} : count'[k] = count[k]
    BY <2>1 DEF Count
  <2>3. seen' \in [Checks -> Nat] /\ seen'[c] = count[j] + 1
        /\ \A d \in Checks \ {c} : seen'[d] = seen[d]
    BY <2>1 DEF Count
  <2>4. tally' \in [Keys -> SUBSET Checks] /\ tally'[j] = tally[j] \cup {c}
        /\ \A k \in Keys \ {j} : tally'[k] = tally[k]
    BY <2>1 DEF Count
  <2> QED
    BY <2>1, <2>2, <2>3, <2>4
<1>2. \A k \in Keys : c \notin tally[k]
  BY DEF IndInv, Numbered, Count
<1>3. ASSUME NEW k \in Keys
      PROVE  /\ \A d \in tally'[k] :
                    KeyOf[d] = k /\ cpc'[d] # "idle" /\ seen'[d] \in 1 .. count'[k]
             /\ \A d, e \in tally'[k] : seen'[d] = seen'[e] => d = e
             /\ \A n \in 1 .. count'[k] : \E d \in tally'[k] : seen'[d] = n
  <2>1. \A d \in tally[k] : d \in Checks \ {c} /\ seen'[d] = seen[d] /\ cpc'[d] = cpc[d]
    BY <1>1, <1>2 DEF IndInv, TypeOK
  <2>2. /\ count[k] \in Nat
        /\ \A d \in tally[k] : KeyOf[d] = k /\ cpc[d] # "idle" /\ seen[d] \in 1 .. count[k]
        /\ \A d, e \in tally[k] : seen[d] = seen[e] => d = e
        /\ \A n \in 1 .. count[k] : \E d \in tally[k] : seen[d] = n
    BY DEF IndInv, TypeOK, Numbered
  <2>3. CASE k # j
    BY <1>1, <2>1, <2>2, <2>3
  <2>4. CASE k = j
    <3>1. \A d \in tally'[k] : d = c \/ d \in tally[k]
      BY <1>1, <2>4
    <3>2. \A d \in tally[k] : seen[d] < seen'[c]
      BY <1>1, <2>2, <2>4
    <3>3. \A d \in tally'[k] :
            KeyOf[d] = k /\ cpc'[d] # "idle" /\ seen'[d] \in 1 .. count'[k]
      BY <1>1, <2>1, <2>2, <2>4, <3>1
    <3>4. \A d, e \in tally'[k] : seen'[d] = seen'[e] => d = e
      BY <2>1, <2>2, <3>1, <3>2
    <3>5. ASSUME NEW n \in 1 .. count'[k]
          PROVE  \E d \in tally'[k] : seen'[d] = n
      <4>1. CASE n = count[k] + 1
        BY <1>1, <2>4, <4>1
      <4>2. CASE n # count[k] + 1
        <5>1. n \in 1 .. count[k]
          BY <1>1, <2>2, <2>4, <4>2
        <5> QED
          BY <1>1, <2>1, <2>2, <2>4, <5>1
      <4> QED
        BY <4>1, <4>2
    <3> QED
      BY <3>3, <3>4, <3>5
  <2> QED
    BY <2>3, <2>4
<1>4. Numbered'
  BY <1>3 DEF Numbered
<1> QED
  BY <1>1, <1>4

(* A step that counts nothing and only moves one call that was counted.    *)
LEMMA GotoNumbers ==
  ASSUME IndInv, NEW c \in Checks, NEW stage \in {"admitted", "limited", "error"},
         Goto(c, stage), UNCHANGED <<count, seen, tally>>
  PROVE  /\ Numbered'
         /\ cpc' \in [Checks -> {"idle", "first", "admitted", "limited", "error"}]
         /\ cpc'[c] = stage
         /\ \A d \in Checks \ {c} : cpc'[d] = cpc[d]
<1>1. /\ cpc' \in [Checks -> {"idle", "first", "admitted", "limited", "error"}]
      /\ cpc'[c] = stage
      /\ \A d \in Checks \ {c} : cpc'[d] = cpc[d]
  BY DEF IndInv, TypeOK, Goto
<1>2. \A k \in Keys : \A d \in tally[k] : d \in Checks /\ cpc'[d] # "idle"
  BY <1>1 DEF IndInv, TypeOK, Numbered
<1>3. Numbered'
  BY <1>2 DEF IndInv, Numbered
<1> QED
  BY <1>1, <1>3

(* Every step keeps the invariant.                                         *)
LEMMA NextIndInv == IndInv /\ [Next]_limitVars => IndInv'
<1> SUFFICES ASSUME IndInv, [Next]_limitVars
             PROVE  IndInv'
  OBVIOUS
<1> USE LimitsAssumption
<1> DEFINE Stages == {"idle", "first", "admitted", "limited", "error"}
<1>t. /\ store \in {"memory", "valkey"} /\ count \in [Keys -> Nat]
      /\ left \in [Keys -> 0 .. Window] /\ cpc \in [Checks -> Stages]
      /\ seen \in [Checks -> Nat] /\ tally \in [Keys -> SUBSET Checks]
      /\ \A c \in Checks : KeyOf[c] \in Keys
  BY DEF IndInv, TypeOK
<1>1. ASSUME NEW c \in Checks, CheckInMemory(c)
      PROVE  IndInv'
  <2> DEFINE j == KeyOf[c]
             stage == Verdict(count[j] + 1)
  <2>1. /\ cpc' \in [Checks -> Stages] /\ cpc'[c] = stage
        /\ \A d \in Checks \ {c} : cpc'[d] = cpc[d]
    BY <1>1, <1>t DEF CheckInMemory, Goto, Verdict
  <2>2. Count(c) /\ store' = store /\ store = "memory" /\ stage \in {"admitted", "limited"}
    BY <1>1 DEF CheckInMemory, Count, Verdict
  <2>3. /\ Numbered' /\ seen'[c] = count[j] + 1 /\ count'[j] = count[j] + 1
        /\ \A d \in Checks \ {c} : seen'[d] = seen[d]
        /\ \A k \in Keys \ {j} : count'[k] = count[k]
        /\ count' \in [Keys -> Nat] /\ seen' \in [Checks -> Nat]
        /\ tally' \in [Keys -> SUBSET Checks]
    BY <2>1, <2>2, CountNumbers
  <2>4. left' \in [Keys -> 0 .. Window] /\ \A k \in Keys \ {j} : left'[k] = left[k]
    BY <1>1, <1>t DEF CheckInMemory
  <2>5. Judged'
    BY <2>1, <2>3, <1>t DEF IndInv, Judged, Verdict
  <2>6. FirstSetsDeadline'
    <3>1. \A k \in Keys : count'[k] = 0 => left'[k] = 0
      BY <2>3, <2>4, <1>t DEF IndInv, FirstSetsDeadline
    <3>2. \A d \in Checks : cpc'[d] # "first"
      BY <2>1, <2>2 DEF IndInv, FirstSetsDeadline
    <3> QED
      BY <3>1, <3>2 DEF FirstSetsDeadline
  <2> QED
    BY <2>1, <2>2, <2>3, <2>4, <2>5, <2>6 DEF IndInv, TypeOK
<1>2. ASSUME NEW c \in Checks, Incr(c) \/ LoseCount(c)
      PROVE  IndInv'
  <2> DEFINE j == KeyOf[c]
             stage == IF Incr(c) THEN IF count[j] = 0 THEN "first" ELSE Verdict(count[j] + 1)
                      ELSE "error"
  <2>1. /\ cpc' \in [Checks -> Stages] /\ cpc'[c] # "idle"
        /\ \A d \in Checks \ {c} : cpc'[d] = cpc[d]
        /\ \/ count[j] = 0 /\ cpc'[c] = "first"
           \/ cpc'[c] = Verdict(count[j] + 1)
           \/ cpc'[c] = "error"
    BY <1>2, <1>t DEF Incr, LoseCount, Goto, Verdict
  <2>2. Count(c) /\ store' = store /\ store = "valkey" /\ left' = left
    BY <1>2 DEF Incr, LoseCount, Count
  <2>3. /\ Numbered' /\ seen'[c] = count[j] + 1 /\ count'[j] = count[j] + 1
        /\ tally'[j] = tally[j] \cup {c}
        /\ \A d \in Checks \ {c} : seen'[d] = seen[d]
        /\ \A k \in Keys \ {j} : count'[k] = count[k] /\ tally'[k] = tally[k]
        /\ count' \in [Keys -> Nat] /\ seen' \in [Checks -> Nat]
        /\ tally' \in [Keys -> SUBSET Checks]
    BY <2>1, <2>2, CountNumbers
  <2>4. Judged'
    BY <2>1, <2>3, <1>t DEF IndInv, Judged, Verdict
  <2>5. FirstSetsDeadline'
    <3>1. \A k \in Keys : count'[k] = 0 => left'[k] = 0
      BY <2>2, <2>3, <1>t DEF IndInv, FirstSetsDeadline
    <3>2. \A k \in Keys : tally[k] \subseteq tally'[k]
      BY <2>3
    <3>3. ASSUME NEW d \in Checks, cpc'[d] = "first"
          PROVE  seen'[d] = 1 /\ d \in tally'[KeyOf[d]] /\ left'[KeyOf[d]] = 0
      <4>1. CASE d = c
        BY <2>1, <2>2, <2>3, <3>3, <4>1, <1>t DEF IndInv, FirstSetsDeadline, Verdict
      <4>2. CASE d # c
        BY <2>1, <2>2, <2>3, <3>2, <3>3, <4>2, <1>t DEF IndInv, FirstSetsDeadline
      <4> QED
        BY <4>1, <4>2
    <3> QED
      BY <2>2, <3>1, <3>3 DEF FirstSetsDeadline
  <2> QED
    BY <2>1, <2>2, <2>3, <2>4, <2>5, <1>t DEF IndInv, TypeOK
<1>3. ASSUME NEW c \in Checks, Expire(c)
      PROVE  IndInv'
  <2> DEFINE j == KeyOf[c]
  <2>1. /\ cpc[c] = "first" /\ Goto(c, Verdict(seen[c]))
        /\ Verdict(seen[c]) \in {"admitted", "limited"}
        /\ UNCHANGED <<store, count, seen, tally>>
    BY <1>3 DEF Expire, Verdict
  <2>2. /\ Numbered' /\ cpc' \in [Checks -> Stages] /\ cpc'[c] = Verdict(seen[c])
        /\ \A d \in Checks \ {c} : cpc'[d] = cpc[d]
    BY <2>1, GotoNumbers
  <2>3. /\ left' \in [Keys -> 0 .. Window] /\ \A k \in Keys \ {j} : left'[k] = left[k]
        /\ count[j] = 0 => left'[j] = left[j]
    BY <1>3, <1>t DEF Expire
  <2>4. Judged'
    BY <2>1, <2>2, <1>t DEF IndInv, Judged, Verdict
  <2>5. ASSUME NEW d \in Checks, cpc'[d] = "first"
        PROVE  d # c /\ KeyOf[d] # j
    <3>1. d # c /\ cpc[d] = "first"
      BY <2>1, <2>2, <2>5
    <3>2. seen[c] = 1 /\ seen[d] = 1 /\ c \in tally[j] /\ d \in tally[KeyOf[d]]
      BY <2>1, <3>1 DEF IndInv, FirstSetsDeadline
    <3> QED
      BY <3>1, <3>2, <1>t DEF IndInv, Numbered
  <2>6. FirstSetsDeadline'
    BY <2>1, <2>2, <2>3, <2>5, <1>t DEF IndInv, FirstSetsDeadline
  <2> QED
    BY <2>1, <2>2, <2>3, <2>4, <2>6, <1>t DEF IndInv, TypeOK
<1>4. ASSUME NEW c \in Checks, Fail(c)
      PROVE  IndInv'
  <2>1. Goto(c, "error") /\ UNCHANGED <<store, count, left, seen, tally>>
    BY <1>4 DEF Fail
  <2>2. /\ Numbered' /\ cpc' \in [Checks -> Stages] /\ cpc'[c] = "error"
        /\ \A d \in Checks \ {c} : cpc'[d] = cpc[d]
    BY <2>1, GotoNumbers
  <2>3. Judged' /\ FirstSetsDeadline'
    BY <2>1, <2>2 DEF IndInv, Judged, FirstSetsDeadline
  <2> QED
    BY <2>1, <2>2, <2>3, <1>t DEF IndInv, TypeOK
<1>5. ASSUME NEW j \in Keys, Tick(j)
      PROVE  IndInv'
  <2>1. /\ left[j] > 0 /\ UNCHANGED <<store, cpc, seen>>
        /\ left' \in [Keys -> 0 .. Window] /\ left'[j] = left[j] - 1
        /\ \A k \in Keys \ {j} : left'[k] = left[k]
    BY <1>5, <1>t DEF Tick
  <2>2. /\ count' \in [Keys -> Nat] /\ count'[j] = IF left[j] = 1 THEN 0 ELSE count[j]
        /\ \A k \in Keys \ {j} : count'[k] = count[k]
    BY <1>5, <1>t DEF Tick
  <2>3. /\ tally' \in [Keys -> SUBSET Checks]
        /\ tally'[j] = IF left[j] = 1 THEN {} ELSE tally[j]
        /\ \A k \in Keys \ {j} : tally'[k] = tally[k]
    BY <1>5, <1>t DEF Tick
  <2>4. Numbered'
    <3>1. ASSUME NEW k \in Keys
          PROVE  /\ \A c \in tally'[k] :
                        KeyOf[c] = k /\ cpc[c] # "idle" /\ seen[c] \in 1 .. count'[k]
                 /\ \A c, d \in tally'[k] : seen[c] = seen[d] => c = d
                 /\ \A n \in 1 .. count'[k] : \E c \in tally'[k] : seen[c] = n
      <4>1. CASE k = j /\ left[j] = 1
        BY <2>2, <2>3, <4>1
      <4>2. CASE ~(k = j /\ left[j] = 1)
        BY <2>2, <2>3, <4>2 DEF IndInv, Numbered
      <4> QED
        BY <4>1, <4>2
    <3> QED
      BY <2>1, <3>1 DEF Numbered
  <2>5. Judged'
    BY <2>1 DEF IndInv, Judged
  <2>6. FirstSetsDeadline'
    <3>1. \A k \in Keys : count'[k] = 0 => left'[k] = 0
      BY <2>1, <2>2, <1>t DEF IndInv, FirstSetsDeadline
    <3>2. \A c \in Checks : cpc[c] = "first" => KeyOf[c] # j
      BY <2>1 DEF IndInv, FirstSetsDeadline
    <3> QED
      BY <2>1, <2>2, <2>3, <3>1, <3>2, <1>t DEF IndInv, FirstSetsDeadline
  <2> QED
    BY <2>1, <2>2, <2>3, <2>4, <2>5, <2>6, <1>t DEF IndInv, TypeOK
<1>6. CASE UNCHANGED limitVars
  BY <1>6 DEF limitVars, IndInv, TypeOK, Numbered, Judged, FirstSetsDeadline
<1> QED
  BY <1>1, <1>2, <1>3, <1>4, <1>5, <1>6 DEF Next, Quiet

(* The invariant holds in every reachable state.                           *)
THEOREM IndInvHolds == Spec => []IndInv
  BY InitIndInv, NextIndInv, PTL DEF Spec

(* The counters, deadlines and verdicts keep their types.                  *)
THEOREM TypeCorrect == Spec => []TypeOK
  BY IndInvHolds, PTL DEF IndInv

-----------------------------------------------------------------------------

(* Of the calls a counter has counted at most Limit are admitted: their    *)
(* numbers are different and do not exceed it.                             *)
LEMMA NumbersBoundAdmitted == IndInv => WithinLimit
<1> SUFFICES ASSUME IndInv, NEW k \in Keys
             PROVE  Cardinality({c \in tally[k] : cpc[c] = "admitted"}) <= Limit
  BY DEF WithinLimit
<1> USE LimitsAssumption
<1> DEFINE S == {c \in tally[k] : cpc[c] = "admitted"}
           f == [c \in S |-> seen[c]]
<1>1. \A c \in S : seen[c] \in 1 .. Limit
  BY DEF IndInv, TypeOK, Numbered, Judged
<1>2. \A c, d \in S : seen[c] = seen[d] => c = d
  BY DEF IndInv, Numbered
<1>3. f \in Injection(S, 1 .. Limit)
  BY <1>1, <1>2 DEF Injection, IsInjective
<1>4. IsFiniteSet(1 .. Limit) /\ Cardinality(1 .. Limit) = Limit
  BY FS_Interval
<1>5. Cardinality(S) <= Cardinality(1 .. Limit)
  <2> HIDE DEF S, f
  <2> QED
    BY <1>3, <1>4, FS_Injection
<1> QED
  BY <1>4, <1>5

(* No window admits more calls than the limit.                             *)
THEOREM AdmissionsBounded == Spec => []WithinLimit
  BY IndInvHolds, NumbersBoundAdmitted, PTL

(* The calls numbered up to the limit are other calls than a limited one.  *)
LEMMA NumbersFillWindow == IndInv => LimitedOnlyWhenFull
<1> SUFFICES ASSUME IndInv, NEW k \in Keys, NEW c \in tally[k], cpc[c] = "limited"
             PROVE  Cardinality(tally[k] \ {c}) >= Limit
  BY DEF LimitedOnlyWhenFull
<1> USE LimitsAssumption
<1> DEFINE T == tally[k] \ {c}
           f == [n \in 1 .. Limit |-> CHOOSE d \in tally[k] : seen[d] = n]
<1>1. c \in Checks /\ seen[c] > Limit /\ seen[c] \in 1 .. count[k] /\ count[k] \in Nat
  BY DEF IndInv, TypeOK, Numbered, Judged
<1>2. \A n \in 1 .. Limit : \E d \in tally[k] : seen[d] = n
  BY <1>1 DEF IndInv, Numbered
<1>3. \A n \in 1 .. Limit : f[n] \in T /\ seen[f[n]] = n
  BY <1>1, <1>2
<1>4. f \in Injection(1 .. Limit, T)
  BY <1>3 DEF Injection, IsInjective
<1>5. IsFiniteSet(T)
  <2>1. T \in SUBSET Checks
    BY DEF IndInv, TypeOK
  <2> QED
    BY <2>1, FS_Subset
<1>6. Cardinality(1 .. Limit) = Limit
  BY FS_Interval
<1>7. Cardinality(T) \in Nat
  BY <1>5, FS_CardinalityType
<1>8. Cardinality(1 .. Limit) <= Cardinality(T)
  <2> HIDE DEF T, f
  <2> QED
    BY <1>4, <1>5, FS_Injection
<1> QED
  BY <1>6, <1>7, <1>8

(* A call is turned away only when its window is full without it.          *)
THEOREM LimitsJustified == Spec => []LimitedOnlyWhenFull
  BY IndInvHolds, NumbersFillWindow, PTL

(* The call that sets a deadline finds none.                               *)
LEMMA StepKeepsDeadlines ==
  ASSUME IndInv, [Next]_limitVars
  PROVE  \A k \in Keys : left[k] > 0 /\ count'[k] > 0 => left'[k] <= left[k]
<1> USE LimitsAssumption
<1>1. /\ left \in [Keys -> 0 .. Window] /\ count \in [Keys -> Nat]
      /\ \A c \in Checks : KeyOf[c] \in Keys
  BY DEF IndInv, TypeOK
<1>2. \A c \in Checks : CheckInMemory(c) =>
        \A k \in Keys : left[k] > 0 => left'[k] = left[k]
  BY <1>1 DEF CheckInMemory, IndInv, FirstSetsDeadline
<1>3. \A c \in Checks : Expire(c) =>
        \A k \in Keys : left[k] > 0 => left'[k] = left[k]
  BY <1>1 DEF Expire, IndInv, FirstSetsDeadline
<1>4. \A k \in Keys : Tick(k) => \A j \in Keys : left'[j] <= left[j]
  BY <1>1 DEF Tick
<1>5. \A c \in Checks : Incr(c) \/ Fail(c) \/ LoseCount(c) => left' = left
  BY DEF Incr, Fail, LoseCount
<1> QED
  BY <1>1, <1>2, <1>3, <1>4, <1>5 DEF Next, Quiet, limitVars

(* The deadline of an open window is never moved.                          *)
THEOREM WindowsFixed == Spec => WindowNotExtended
<1>1. IndInv /\ [Next]_limitVars =>
        [\A k \in Keys : left[k] > 0 /\ count'[k] > 0 => left'[k] <= left[k]]_limitVars
  BY StepKeepsDeadlines
<1> QED
  BY <1>1, IndInvHolds, PTL DEF Spec, WindowNotExtended

=============================================================================
