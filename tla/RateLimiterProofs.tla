------------------------- MODULE RateLimiterProofs -------------------------
(***************************************************************************)
(* Theorems about RateLimiter, for every number of concurrent calls, every *)
(* threshold and every interval.                                           *)
(***************************************************************************)
EXTENDS RateLimiter, FiniteSetTheorems, TLAPS

\* Until the limiter degrades, a request is let through for each failure it
\* has counted.  Once it has degraded, only the calls in flight can still be.
OpensInv ==
    /\ ~degraded => opens <= consecutiveFailures
    /\ degraded => opens + Cardinality(InFlight)
                     <= threshold + Cardinality(Calls) - 2

\* The options, once defaulted, are positive.
LEMMA OptionTypes ==
    /\ threshold \in Nat \ {0} /\ interval \in Nat \ {0}
    /\ 0 \in 0..(threshold - 1) /\ 0 \in 0..threshold
    /\ 0 \in 0..interval /\ interval \in 0..interval
<1>1. threshold \in Nat \ {0} /\ interval \in Nat \ {0}
  BY RateLimiterAssumption DEF threshold, interval
<1> QED
  BY <1>1

\* A new limiter is of the right type.
LEMMA TypeInit == Init => TypeOK
<1> SUFFICES ASSUME Init PROVE TypeOK
  OBVIOUS
<1>1. /\ degraded \in BOOLEAN /\ pipeUp \in BOOLEAN /\ pingUp \in BOOLEAN
      /\ pc \in [Calls -> CallPCs] /\ ret \in [Calls -> Decisions]
  BY DEF Init, CallPCs, Decisions
<1>2. /\ consecutiveFailures \in 0..(threshold - 1)
      /\ sinceProbe \in 0..interval /\ opens \in Nat /\ gone = {}
  BY OptionTypes DEF Init
<1> QED
  BY <1>1, <1>2 DEF TypeOK

\* Every step keeps the types: a call that reaches the threshold resets the
\* counter in the same critical section.
LEMMA TypeStep == TypeOK /\ [Next]_vars => TypeOK'
<1> SUFFICES ASSUME TypeOK, [Next]_vars PROVE TypeOK'
  OBVIOUS
<1> USE OptionTypes DEF TypeOK, CallPCs, Decisions
<1>1. ASSUME NEW t \in Calls, Allow(t) PROVE TypeOK'
  BY <1>1 DEF Allow, Goto, limiterVars, redisState
<1>2. ASSUME NEW t \in Calls, RedisAllows(t) PROVE TypeOK'
  BY <1>2 DEF RedisAllows, Return, limiterVars, redisState
<1>3. ASSUME NEW t \in Calls, RedisFails(t) PROVE TypeOK'
  BY <1>3 DEF RedisFails, Goto, limiterVars, redisState
<1>4. ASSUME NEW t \in Calls, OnRedisError(t) PROVE TypeOK'
  <2>1. /\ degraded' \in BOOLEAN /\ pc' \in [Calls -> CallPCs]
        /\ ret' \in [Calls -> Decisions]
        /\ gone' \subseteq {u \in Calls : pc'[u] # "idle"}
    BY <1>4 DEF OnRedisError, Goto, Return
  <2>2. consecutiveFailures' \in 0..(threshold - 1) /\ opens' \in Nat
    BY <1>4 DEF OnRedisError, ReachesThreshold
  <2> QED
    BY <1>4, <2>1, <2>2 DEF OnRedisError, redisState
<1>5. ASSUME NEW t \in Calls, TryProbe(t) PROVE TypeOK'
  BY <1>5 DEF TryProbe, Goto, redisState
<1>6. ASSUME NEW t \in Calls, Ping(t) PROVE TypeOK'
  BY <1>6 DEF Ping, Goto, limiterVars, redisState
<1>7. ASSUME NEW t \in Calls, Recover(t) PROVE TypeOK'
  <2>1. /\ degraded' \in BOOLEAN /\ pc' \in [Calls -> CallPCs]
        /\ gone' \subseteq {u \in Calls : pc'[u] # "idle"}
    BY <1>7 DEF Recover, Goto
  <2>2. consecutiveFailures' \in 0..(threshold - 1) /\ opens' \in Nat
    BY <1>7 DEF Recover
  <2> QED
    BY <1>7, <2>1, <2>2 DEF Recover, redisState
<1>8. ASSUME NEW t \in Calls, Degraded(t) PROVE TypeOK'
  BY <1>8 DEF Degraded, Return, limiterVars, redisState
<1>9. CASE Tick
  BY <1>9 DEF Tick, redisState
<1>10. CASE RedisChanges
  BY <1>10 DEF RedisChanges, limiterVars
<1>11. ASSUME NEW t \in Calls, Leave(t) PROVE TypeOK'
  BY <1>11 DEF Leave, limiterVars, redisState
<1>12. CASE UNCHANGED vars
  BY <1>12 DEF vars, limiterVars, redisState
<1> QED
  BY <1>1, <1>2, <1>3, <1>4, <1>5, <1>6, <1>7, <1>8, <1>9, <1>10, <1>11,
     <1>12
     DEF Next, CallStep

\* The failure counter never reaches the threshold outside the critical
\* section, however the calls interleave.
THEOREM TypeCorrect == Spec => []TypeOK
BY TypeInit, TypeStep, PTL DEF Spec

\* The calls in flight are finitely many.
LEMMA InFlightFinite ==
    /\ IsFiniteSet(InFlight) /\ Cardinality(InFlight) \in Nat
    /\ Cardinality(Calls) \in Nat \ {0}
    /\ Cardinality(InFlight) <= Cardinality(Calls)
<1>1. InFlight \subseteq Calls
  BY DEF InFlight
<1>2. Cardinality(Calls) \in Nat /\ Cardinality(Calls) # 0
  BY RateLimiterAssumption, FS_CardinalityType, FS_EmptySet
<1> QED
  BY <1>1, <1>2, RateLimiterAssumption, FS_Subset, FS_CardinalityType

\* A step that lets nothing through and sends no call to Redis while the
\* limiter is degraded keeps the bound.
LEMMA QuietStep ==
    ASSUME TypeOK, OpensInv, opens' = opens, degraded' = degraded,
           consecutiveFailures' = consecutiveFailures,
           degraded => InFlight' \subseteq InFlight
    PROVE  OpensInv'
<1>1. CASE degraded
  <2>1. Cardinality(InFlight') <= Cardinality(InFlight)
        /\ Cardinality(InFlight') \in Nat
    BY <1>1, InFlightFinite, FS_Subset, FS_CardinalityType
  <2>2. opens + Cardinality(InFlight) <= threshold + Cardinality(Calls) - 2
    BY <1>1 DEF OpensInv
  <2>3. opens \in Nat /\ threshold \in Nat /\ Cardinality(Calls) \in Nat
        /\ Cardinality(InFlight) \in Nat
    BY OptionTypes, InFlightFinite DEF TypeOK
  <2>4. opens + Cardinality(InFlight') <= threshold + Cardinality(Calls) - 2
    BY <2>1, <2>2, <2>3
  <2> QED
    BY <1>1, <2>4 DEF OpensInv
<1>2. CASE ~degraded
  BY <1>2 DEF OpensInv
<1> QED
  BY <1>1, <1>2

\* Every step keeps OpensInv.
LEMMA OpensStep ==
    ASSUME TypeOK, TypeOK', OpensInv, [Next]_vars
    PROVE  OpensInv'
<1>1. ASSUME NEW t \in Calls, Allow(t) PROVE OpensInv'
  <2>1. degraded => InFlight' \subseteq InFlight
    BY <1>1 DEF Allow, Goto, InFlight, TypeOK
  <2> QED
    BY <1>1, <2>1, QuietStep DEF Allow, limiterVars
<1>2. ASSUME NEW t \in Calls, RedisAllows(t) PROVE OpensInv'
  <2>1. InFlight' \subseteq InFlight
    BY <1>2 DEF RedisAllows, Return, InFlight, TypeOK
  <2> QED
    BY <1>2, <2>1, QuietStep DEF RedisAllows, limiterVars
<1>3. ASSUME NEW t \in Calls, RedisFails(t) PROVE OpensInv'
  <2>1. InFlight' \subseteq InFlight
    BY <1>3 DEF RedisFails, Goto, InFlight, TypeOK
  <2> QED
    BY <1>3, <2>1, QuietStep DEF RedisFails, limiterVars
<1>4. ASSUME NEW t \in Calls, OnRedisError(t) PROVE OpensInv'
  <2>1. t \in InFlight /\ InFlight' = InFlight \ {t}
    BY <1>4 DEF OnRedisError, Goto, Return, InFlight, TypeOK
  <2>2. Cardinality(InFlight') = Cardinality(InFlight) - 1
    BY <2>1, InFlightFinite, FS_RemoveElement
  <2>3. /\ opens \in Nat /\ consecutiveFailures \in Nat
        /\ consecutiveFailures < threshold /\ threshold \in Nat
        /\ Cardinality(Calls) \in Nat /\ Cardinality(InFlight) \in Nat
        /\ Cardinality(InFlight) <= Cardinality(Calls)
    BY OptionTypes, InFlightFinite DEF TypeOK
  <2>4. CASE ReachesThreshold(consecutiveFailures + 1)
    <3>1. degraded' /\ opens' = opens
      BY <1>4, <2>4 DEF OnRedisError
    <3>2. opens + Cardinality(InFlight') <= threshold + Cardinality(Calls) - 2
      BY <2>2, <2>3 DEF OpensInv, TypeOK
    <3> QED
      BY <3>1, <3>2 DEF OpensInv
  <2>5. CASE ~ReachesThreshold(consecutiveFailures + 1)
    <3>1. /\ degraded' = degraded /\ opens' = opens + 1
          /\ consecutiveFailures' = consecutiveFailures + 1
      BY <1>4, <2>5 DEF OnRedisError
    <3> QED
      BY <2>2, <2>3, <3>1 DEF OpensInv
  <2> QED
    BY <2>4, <2>5
<1>5. ASSUME NEW t \in Calls, TryProbe(t) PROVE OpensInv'
  <2>1. InFlight' \subseteq InFlight
    BY <1>5 DEF TryProbe, Goto, InFlight, TypeOK
  <2> QED
    BY <1>5, <2>1, QuietStep DEF TryProbe
<1>6. ASSUME NEW t \in Calls, Ping(t) PROVE OpensInv'
  <2>1. InFlight' \subseteq InFlight
    BY <1>6 DEF Ping, Goto, InFlight, TypeOK
  <2> QED
    BY <1>6, <2>1, QuietStep DEF Ping, limiterVars
<1>7. ASSUME NEW t \in Calls, Recover(t) PROVE OpensInv'
  BY <1>7 DEF Recover, OpensInv
<1>8. ASSUME NEW t \in Calls, Degraded(t) PROVE OpensInv'
  <2>1. InFlight' \subseteq InFlight
    BY <1>8 DEF Degraded, Return, InFlight, TypeOK
  <2> QED
    BY <1>8, <2>1, QuietStep DEF Degraded, limiterVars
<1>9. CASE Tick
  BY <1>9, QuietStep DEF Tick, InFlight
<1>10. CASE RedisChanges
  BY <1>10, QuietStep DEF RedisChanges, limiterVars, InFlight
<1>11. ASSUME NEW t \in Calls, Leave(t) PROVE OpensInv'
  BY <1>11, QuietStep DEF Leave, limiterVars, InFlight
<1>12. CASE UNCHANGED vars
  BY <1>12, QuietStep DEF vars, limiterVars, InFlight
<1> QED
  BY <1>1, <1>2, <1>3, <1>4, <1>5, <1>6, <1>7, <1>8, <1>9, <1>10, <1>11,
     <1>12
     DEF Next, CallStep

\* Between two recoveries the limiter lets fewer requests through undecided
\* than the threshold, plus one for each other concurrent call.
THEOREM FailOpenIsBounded == Spec => []FailOpenBound
<1>1. Init => OpensInv
  BY DEF Init, OpensInv
<1>2. TypeOK /\ OpensInv => FailOpenBound
  <2> SUFFICES ASSUME TypeOK, OpensInv PROVE FailOpenBound
    OBVIOUS
  <2>1. /\ opens \in Nat /\ consecutiveFailures \in Nat
        /\ consecutiveFailures <= threshold - 1 /\ threshold \in Nat
        /\ Cardinality(Calls) \in Nat \ {0} /\ Cardinality(InFlight) \in Nat
    BY OptionTypes, InFlightFinite DEF TypeOK
  <2> QED
    BY <2>1 DEF OpensInv, FailOpenBound, TypeOK
<1> QED
  BY <1>1, <1>2, TypeInit, TypeStep, OpensStep, PTL DEF Spec
=============================================================================
