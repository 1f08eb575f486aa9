------------------------ MODULE CircuitBreakerProofs ------------------------
(***************************************************************************)
(* Theorems about CircuitBreaker, for every set of breakers and callers    *)
(* and every threshold.                                                    *)
(***************************************************************************)
EXTENDS CircuitBreaker, FiniteSetTheorems, TLAPS

\* The calls that the breaker b has let through in its present generation.
InFlight(b) == {c \in Callers : BreakerOf(c) = b /\ call[c] = "current"}

\* What the counts of a generation say of its calls: each request is in flight
\* or has ended, and each failure is one that has ended.
Counted(b) ==
    /\ IsFiniteSet(InFlight(b))
    /\ Cardinality(InFlight(b)) + cb[b].failures <= cb[b].requests

\* An open breaker lets nothing through, a half-open one a single probe.
Guarded(b) ==
    /\ cb[b].state = "open" => cb[b].requests = 0
    /\ cb[b].state = "halfopen" => cb[b].requests <= MaxRequests

\* TypeOK is not inductive: that failures stay below requests depends on the
\* calls in flight.
GenerationInv ==
    /\ TypeOK
    /\ \A b \in Names : Counted(b) /\ Guarded(b)

\* The types of a breaker's record, one field at a time.
WellFormed(r) ==
    /\ r \in Breaker
    /\ r.streak <= r.failures /\ r.failures <= r.requests
    /\ r.state = "halfopen" => ~r.expired
    /\ r.state = "open" => r.requests = 0
    /\ r.state = "halfopen" => r.requests <= MaxRequests

\* A breaker that enters a state is well formed.
LEMMA EnterWellFormed ==
    ASSUME NEW state \in {"closed", "open", "halfopen"}
    PROVE  /\ WellFormed(Enter(state))
           /\ Enter(state).state = state
           /\ Enter(state).requests = 0 /\ Enter(state).failures = 0
           /\ Enter(state).expired = FALSE
BY BreakerAssumption DEF WellFormed, Enter, Breaker, MaxRequests

\* Looking at the clock keeps a breaker well formed, and never closes or opens
\* it.
LEMMA CurrentWellFormed ==
    ASSUME NEW r, WellFormed(r)
    PROVE  /\ WellFormed(Current(r))
           /\ r.expired => Current(r).requests = 0 /\ Current(r).failures = 0
           /\ ~r.expired => Current(r) = r
           /\ ~Current(r).expired
           /\ Current(r).state # "open" \/ Current(r) = r
           /\ Current(r).state = "closed" <=> r.state = "closed"
<1>1. CASE r.expired
  <2>1. r.state \in {"closed", "open"}
    BY <1>1 DEF WellFormed, Breaker
  <2> QED
    BY <1>1, <2>1, EnterWellFormed DEF Current
<1>2. CASE ~r.expired
  BY <1>2 DEF Current
<1> QED
  BY <1>1, <1>2

\* A result that counts keeps a breaker well formed: it enters a new state or
\* adds at most one failure.
LEMMA ResultWellFormed ==
    ASSUME NEW r, WellFormed(r), r.state # "open", r.failures < r.requests
    PROVE  /\ WellFormed(OnSuccess(r)) /\ WellFormed(OnFailure(r))
           /\ \/ OnSuccess(r).state # r.state /\ OnSuccess(r) = Enter("closed")
              \/ /\ OnSuccess(r).state = r.state
                 /\ OnSuccess(r).requests = r.requests
                 /\ OnSuccess(r).failures = r.failures
           /\ \/ OnFailure(r).state # r.state /\ OnFailure(r) = Enter("open")
              \/ /\ OnFailure(r).state = r.state
                 /\ OnFailure(r).requests = r.requests
                 /\ OnFailure(r).failures = r.failures + 1
<1> USE BreakerAssumption
<1>1. r \in Breaker /\ r.state \in {"closed", "halfopen"}
      /\ r.requests \in 0..MaxCalls /\ r.failures \in 0..MaxCalls
      /\ r.streak \in 0..MaxCalls /\ r.expired \in BOOLEAN
  BY DEF WellFormed, Breaker
<1>2. CASE r.state = "halfopen"
  BY <1>2, EnterWellFormed DEF OnSuccess, OnFailure
<1>3. CASE r.state = "closed"
  <2>1. WellFormed(OnSuccess(r)) /\ OnSuccess(r).state = r.state
        /\ OnSuccess(r).requests = r.requests
        /\ OnSuccess(r).failures = r.failures
    BY <1>1, <1>3 DEF OnSuccess, WellFormed, Breaker
  <2> DEFINE counted == [r EXCEPT !.failures = @ + 1, !.streak = @ + 1]
  <2>2. WellFormed(counted) /\ counted.state = r.state
        /\ counted.requests = r.requests /\ counted.failures = r.failures + 1
    <3>1. r.failures + 1 \in 0..MaxCalls /\ r.streak + 1 \in 0..MaxCalls
          /\ r.streak <= r.failures
      BY <1>1 DEF WellFormed
    <3>2. counted \in Breaker
      BY <1>1, <3>1 DEF Breaker
    <3>3. /\ counted.state = r.state /\ counted.requests = r.requests
          /\ counted.failures = r.failures + 1
          /\ counted.streak = r.streak + 1 /\ counted.expired = r.expired
      BY <1>1 DEF Breaker
    <3> HIDE DEF counted
    <3> QED
      BY <1>1, <1>3, <3>1, <3>2, <3>3 DEF WellFormed
  <2>3. \/ OnFailure(r) = Enter("open")
        \/ OnFailure(r) = counted
    BY <1>3 DEF OnFailure
  <2> QED
    BY <1>3, <2>1, <2>2, <2>3, EnterWellFormed
<1> QED
  BY <1>1, <1>2, <1>3

\* The breakers of a good state are well formed.
LEMMA BreakersWellFormed ==
    ASSUME GenerationInv, NEW b \in Names
    PROVE  WellFormed(cb[b])
BY DEF GenerationInv, Guarded, TypeOK, WellFormed

\* The calls in flight after a step of the caller c, with or without a new
\* generation of its breaker.
LEMMA CallsAfter ==
    ASSUME TypeOK, NEW c \in Callers, NEW new \in BOOLEAN,
           NEW value \in {"none", "current"},
           call' = [Aged(BreakerOf(c), new) EXCEPT ![c] = value]
    PROVE  /\ call' \in [Callers -> {"none", "current", "stale"}]
           /\ \A b \in Names \ {BreakerOf(c)} : InFlight(b)' = InFlight(b)
           /\ InFlight(BreakerOf(c))' =
                 (IF new THEN {} ELSE InFlight(BreakerOf(c)) \ {c})
                 \cup (IF value = "current" THEN {c} ELSE {})
<1>1. call \in [Callers -> {"none", "current", "stale"}]
  BY DEF TypeOK
<1>2. call' \in [Callers -> {"none", "current", "stale"}]
  BY <1>1 DEF Aged
<1>3. /\ call'[c] = value
      /\ \A d \in Callers \ {c} :
            call'[d] = IF new /\ BreakerOf(d) = BreakerOf(c)
                             /\ call[d] = "current"
                       THEN "stale" ELSE call[d]
  BY <1>1 DEF Aged
<1>4. \A d \in Callers : BreakerOf(d)' = BreakerOf(d)
  BY DEF BreakerOf
<1>5. ASSUME NEW b \in Names \ {BreakerOf(c)} PROVE InFlight(b)' = InFlight(b)
  BY <1>3, <1>4, <1>5 DEF InFlight
<1>6. InFlight(BreakerOf(c))' =
         (IF new THEN {} ELSE InFlight(BreakerOf(c)) \ {c})
         \cup (IF value = "current" THEN {c} ELSE {})
  BY <1>3, <1>4 DEF InFlight
<1> QED
  BY <1>2, <1>5, <1>6

\* A step that gives one breaker a well-formed record with room for its calls
\* in flight, and leaves the others alone, keeps the invariant.
LEMMA OneBreakerStep ==
    ASSUME GenerationInv, NEW b \in Names, NEW r, WellFormed(r),
           cb' = [cb EXCEPT ![b] = r],
           call' \in [Callers -> {"none", "current", "stale"}],
           \A a \in Names \ {b} : InFlight(a)' = InFlight(a),
           IsFiniteSet(InFlight(b)'),
           Cardinality(InFlight(b)') + r.failures <= r.requests,
           refused' \in [Callers -> BOOLEAN],
           strikes' \in [Names -> 0..MinStrikes],
           calm' \in BOOLEAN
    PROVE  GenerationInv'
<1>1. cb \in [Names -> Breaker] /\ r \in Breaker
  BY DEF GenerationInv, TypeOK, WellFormed
<1>2. cb' \in [Names -> Breaker] /\ cb'[b] = r
      /\ \A a \in Names \ {b} : cb'[a] = cb[a]
  BY <1>1
<1>3. \A a \in Names : WellFormed(cb'[a])
  BY <1>2, BreakersWellFormed
<1>4. TypeOK'
  BY <1>2, <1>3 DEF TypeOK, WellFormed, MinStrikes
<1>5. ASSUME NEW a \in Names PROVE Counted(a)' /\ Guarded(a)'
  <2>1. CASE a = b
    BY <1>2, <1>3, <2>1 DEF Counted, Guarded, WellFormed
  <2>2. CASE a # b
    <3>1. InFlight(a)' = InFlight(a) /\ cb'[a] = cb[a]
      BY <1>2, <2>2
    <3> QED
      BY <1>3, <3>1 DEF GenerationInv, Counted, Guarded, WellFormed, MaxRequests
  <2> QED
    BY <2>1, <2>2
<1> QED
  BY <1>4, <1>5 DEF GenerationInv

\* Only a breaker that is not open has calls of its generation in flight, and
\* their results are not counted yet.
LEMMA InFlightRoom ==
    ASSUME GenerationInv, NEW c \in Callers, call[c] = "current"
    PROVE  LET b == BreakerOf(c) IN
           /\ b \in Names
           /\ cb[b].state # "open"
           /\ cb[b].failures < cb[b].requests
           /\ IsFiniteSet(InFlight(b) \ {c})
           /\ Cardinality(InFlight(b) \ {c}) = Cardinality(InFlight(b)) - 1
           /\ Cardinality(InFlight(b)) \in Nat
<1> DEFINE b == BreakerOf(c)
<1>1. b \in Names
  BY BreakerAssumption DEF BreakerOf
<1>2. c \in InFlight(b)
  BY DEF InFlight
<1>3. Counted(b) /\ Guarded(b) /\ cb[b].failures \in Nat
      /\ cb[b].requests \in Nat
  BY <1>1, BreakerAssumption DEF GenerationInv, TypeOK, Breaker
<1>4. /\ IsFiniteSet(InFlight(b)) /\ Cardinality(InFlight(b)) \in Nat
      /\ IsFiniteSet(InFlight(b) \ {c})
      /\ Cardinality(InFlight(b) \ {c}) \in Nat
      /\ Cardinality(InFlight(b) \ {c}) = Cardinality(InFlight(b)) - 1
  BY <1>2, <1>3, FS_RemoveElement, FS_CardinalityType DEF Counted
<1> QED
  BY <1>1, <1>3, <1>4 DEF Counted, Guarded

\* A call that Execute lets through.
LEMMA BeginStep ==
    ASSUME GenerationInv, NEW c \in Callers, Begin(c)
    PROVE  GenerationInv'
<1> DEFINE b == BreakerOf(c)
           now == Current(cb[b])
           r == [now EXCEPT !.requests = @ + 1]
<1>1. b \in Names
  BY BreakerAssumption DEF BreakerOf
<1>2. WellFormed(cb[b])
  BY <1>1, BreakersWellFormed
<1>3. /\ WellFormed(now) /\ ~now.expired
      /\ cb[b].expired => now.requests = 0 /\ now.failures = 0
      /\ ~cb[b].expired => now = cb[b]
  BY <1>2, CurrentWellFormed
<1> HIDE DEF now
<1>4. /\ call[c] = "none" /\ ~Refuses(now) /\ now.requests < MaxCalls
      /\ cb' = [cb EXCEPT ![b] = r]
      /\ call' = [Aged(b, cb[b].expired) EXCEPT ![c] = "current"]
      /\ refused' = [refused EXCEPT ![c] = FALSE]
      /\ UNCHANGED <<strikes, calm>>
  BY DEF Begin, now
<1>5. WellFormed(r) /\ r.failures = now.failures
      /\ r.requests = now.requests + 1
  <2>1. /\ now \in Breaker /\ now.requests + 1 \in 0..MaxCalls
        /\ now.requests \in Nat /\ now.failures \in Nat /\ now.streak \in Nat
        /\ now.state # "open" /\ (now.state = "halfopen" => now.requests < 1)
    BY <1>3, <1>4, BreakerAssumption
       DEF WellFormed, Breaker, Refuses, MaxRequests
  <2>2. r \in Breaker
    BY <2>1 DEF Breaker
  <2>3. /\ r.state = now.state /\ r.requests = now.requests + 1
        /\ r.failures = now.failures /\ r.streak = now.streak
        /\ r.expired = now.expired
    BY <2>1 DEF Breaker
  <2> HIDE DEF r
  <2> QED
    BY <1>3, <2>1, <2>2, <2>3 DEF WellFormed, MaxRequests
<1> HIDE DEF r
<1>6. /\ call' \in [Callers -> {"none", "current", "stale"}]
      /\ \A a \in Names \ {b} : InFlight(a)' = InFlight(a)
      /\ InFlight(b)' =
            (IF cb[b].expired THEN {} ELSE InFlight(b) \ {c}) \cup {c}
  <2>1. cb[b].expired \in BOOLEAN
    BY <1>2 DEF WellFormed, Breaker
  <2> QED
    BY <1>4, <2>1, CallsAfter DEF GenerationInv
<1>7. /\ IsFiniteSet(InFlight(b)')
      /\ Cardinality(InFlight(b)') + r.failures <= r.requests
  <2>1. now.requests \in Nat /\ now.failures \in Nat
    BY <1>3, BreakerAssumption DEF WellFormed, Breaker
  <2>2. CASE cb[b].expired
    <3>1. InFlight(b)' = {c}
      BY <1>6, <2>2
    <3>2. IsFiniteSet({c}) /\ Cardinality({c}) = 1
      BY FS_Singleton
    <3>3. now.requests = 0 /\ now.failures = 0
      BY <1>3, <2>2
    <3> QED
      BY <1>5, <3>1, <3>2, <3>3
  <2>3. CASE ~cb[b].expired
    <3>1. c \notin InFlight(b) /\ InFlight(b)' = InFlight(b) \cup {c}
      BY <1>4, <1>6, <2>3 DEF InFlight
    <3>2. Counted(b) /\ now = cb[b]
      BY <1>1, <1>3, <2>3 DEF GenerationInv
    <3>3. /\ IsFiniteSet(InFlight(b)') /\ Cardinality(InFlight(b)) \in Nat
          /\ Cardinality(InFlight(b)') = Cardinality(InFlight(b)) + 1
      BY <3>1, <3>2, FS_AddElement, FS_CardinalityType DEF Counted
    <3> QED
      BY <1>5, <2>1, <3>2, <3>3 DEF Counted
  <2> QED
    BY <2>2, <2>3
<1>8. /\ refused' \in [Callers -> BOOLEAN]
      /\ strikes' \in [Names -> 0..MinStrikes] /\ calm' \in BOOLEAN
  BY <1>4 DEF GenerationInv, TypeOK
<1> QED
  BY <1>1, <1>4, <1>5, <1>6, <1>7, <1>8, OneBreakerStep

\* A call whose result comes back, whether it counts or not.
LEMMA AfterRequestStep ==
    ASSUME GenerationInv, NEW c \in Callers, call[c] # "none",
           NEW ok \in BOOLEAN, AfterRequest(c, ok),
           refused' \in [Callers -> BOOLEAN],
           strikes' \in [Names -> 0..MinStrikes],
           calm' \in BOOLEAN
    PROVE  GenerationInv'
<1> DEFINE b == BreakerOf(c)
           now == Current(cb[b])
           mine == call[c] = "current" /\ ~cb[b].expired
           after == CASE ~mine -> now
                      [] mine /\ ok -> OnSuccess(now)
                      [] mine /\ ~ok -> OnFailure(now)
           new == cb[b].expired \/ after.state # now.state
<1>1. b \in Names
  BY BreakerAssumption DEF BreakerOf
<1>2. WellFormed(cb[b]) /\ cb[b].expired \in BOOLEAN /\ Counted(b)
      /\ IsFiniteSet(InFlight(b)) /\ Cardinality(InFlight(b)) \in Nat
  BY <1>1, BreakersWellFormed, FS_CardinalityType
     DEF WellFormed, Breaker, GenerationInv, Counted
<1>3. /\ WellFormed(now)
      /\ cb[b].expired => now.requests = 0 /\ now.failures = 0
      /\ ~cb[b].expired => now = cb[b]
  BY <1>2, CurrentWellFormed
<1>4. /\ cb' = [cb EXCEPT ![b] = after]
      /\ call' = [Aged(b, new) EXCEPT ![c] = "none"]
  BY DEF AfterRequest
<1>5. /\ call' \in [Callers -> {"none", "current", "stale"}]
      /\ \A a \in Names \ {b} : InFlight(a)' = InFlight(a)
      /\ InFlight(b)' = IF new THEN {} ELSE InFlight(b) \ {c}
  <2>1. new \in BOOLEAN
    BY <1>2
  <2> HIDE DEF new, b
  <2> QED
    BY <1>4, <2>1, CallsAfter DEF GenerationInv, b
<1>6. /\ WellFormed(after)
      /\ IsFiniteSet(InFlight(b)')
      /\ Cardinality(InFlight(b)') + after.failures <= after.requests
  <2>1. CASE ~mine /\ cb[b].expired
    <3>1. after = now /\ InFlight(b)' = {}
      BY <1>5, <2>1
    <3> QED
      BY <1>3, <2>1, <3>1, FS_EmptySet
  <2>2. CASE ~mine /\ ~cb[b].expired
    <3>1. after = cb[b] /\ ~new /\ c \notin InFlight(b)
      BY <1>2, <1>3, <2>2 DEF InFlight
    <3>2. InFlight(b)' = InFlight(b)
      BY <1>5, <3>1
    <3> QED
      BY <1>2, <3>1, <3>2 DEF Counted
  <2>3. CASE mine
    <3>0. now = cb[b] /\ cb[b].failures \in Nat /\ cb[b].requests \in Nat
      BY <1>2, <1>3, <2>3, BreakerAssumption DEF WellFormed, Breaker
    <3>1. /\ now.state # "open" /\ now.failures < now.requests
          /\ IsFiniteSet(InFlight(b) \ {c})
          /\ Cardinality(InFlight(b) \ {c}) = Cardinality(InFlight(b)) - 1
      BY <2>3, <3>0, InFlightRoom
    <3>2. after = OnSuccess(now) \/ after = OnFailure(now)
      BY <2>3
    <3>3. /\ WellFormed(after)
          /\ \/ /\ after.state # now.state
                /\ after = Enter("closed") \/ after = Enter("open")
             \/ /\ after.state = now.state /\ after.requests = now.requests
                /\ \/ after.failures = now.failures
                   \/ after.failures = now.failures + 1
      <4> HIDE DEF after, now
      <4> QED
        BY <1>3, <3>1, <3>2, ResultWellFormed
    <3>4. CASE after.state # now.state
      <4>1. InFlight(b)' = {}
        BY <1>5, <3>4
      <4>2. after.requests = 0 /\ after.failures = 0
        <5> HIDE DEF after, now
        <5> QED
          BY <3>3, <3>4, EnterWellFormed
      <4> QED
        BY <3>3, <4>1, <4>2, FS_EmptySet
    <3>5. CASE after.state = now.state
      <4>1. InFlight(b)' = InFlight(b) \ {c}
        BY <1>5, <2>3, <3>5
      <4> HIDE DEF after, now
      <4> QED
        BY <1>2, <3>0, <3>1, <3>3, <3>5, <4>1 DEF Counted
    <3> QED
      BY <3>4, <3>5
  <2> QED
    BY <2>1, <2>2, <2>3
<1> HIDE DEF b, after
<1> QED
  BY <1>1, <1>4, <1>5, <1>6, OneBreakerStep

\* The number of failures it takes to open a breaker is positive.
LEMMA MinStrikesType ==
    MinStrikes \in Nat \ {0} /\ MinStrikes <= Consecutive
BY BreakerAssumption DEF MinStrikes

\* The history of failures keeps its type.
LEMMA StrikesType ==
    ASSUME TypeOK, NEW c \in Callers, NEW outcome \in Outcomes,
           strikes' = [b \in Names |-> Strikes(b, c, outcome)]
    PROVE  strikes' \in [Names -> 0..MinStrikes]
<1> SUFFICES ASSUME NEW b \in Names PROVE Strikes(b, c, outcome) \in 0..MinStrikes
  OBVIOUS
<1>1. strikes[b] \in 0..MinStrikes /\ MinStrikes \in Nat
  BY MinStrikesType DEF TypeOK
<1> QED
  BY <1>1 DEF Strikes

\* The end of a call.
LEMMA EndStep ==
    ASSUME GenerationInv, NEW c \in Callers, NEW outcome \in Outcomes,
           End(c, outcome)
    PROVE  GenerationInv'
<1>1. (~Fails(c, outcome)) \in BOOLEAN
  BY DEF Fails
<1>2. /\ refused' \in [Callers -> BOOLEAN] /\ calm' \in BOOLEAN
  BY DEF End, GenerationInv, TypeOK
<1>3. strikes' \in [Names -> 0..MinStrikes]
  BY StrikesType DEF End, GenerationInv
<1> QED
  BY <1>1, <1>2, <1>3, AfterRequestStep DEF End

\* The clock.
LEMMA ElapseStep ==
    ASSUME GenerationInv, NEW b \in Names, Elapse(b)
    PROVE  GenerationInv'
<1> DEFINE r == [cb[b] EXCEPT !.expired = TRUE]
<1>1. WellFormed(cb[b]) /\ cb[b].state # "halfopen"
      /\ cb' = [cb EXCEPT ![b] = r]
  BY BreakersWellFormed DEF Elapse
<1>2. WellFormed(r) /\ r.failures = cb[b].failures /\ r.requests = cb[b].requests
  BY <1>1 DEF WellFormed, Breaker
<1>3. \A a \in Names : InFlight(a)' = InFlight(a)
  BY DEF InFlight, BreakerOf, Elapse
<1>4. Counted(b)
  BY DEF GenerationInv
<1> HIDE DEF r
<1> QED
  BY <1>1, <1>2, <1>3, <1>4, OneBreakerStep
     DEF Elapse, Counted, GenerationInv, TypeOK

\* Every step keeps the invariant.
LEMMA GenerationStep == GenerationInv /\ [Next]_vars => GenerationInv'
<1> SUFFICES ASSUME GenerationInv, [Next]_vars PROVE GenerationInv'
  OBVIOUS
<1>1. ASSUME UNCHANGED <<cb, call, strikes>>,
             refused' \in [Callers -> BOOLEAN], calm' \in BOOLEAN
      PROVE  GenerationInv'
  BY <1>1 DEF GenerationInv, TypeOK, Counted, Guarded, InFlight, BreakerOf,
     MinStrikes, MaxRequests
<1>2. ASSUME NEW c \in Callers, TurnAway(c) PROVE GenerationInv'
  BY <1>1, <1>2 DEF TurnAway, GenerationInv, TypeOK
<1>3. CASE Environment
  BY <1>1, <1>3 DEF Environment, GenerationInv, TypeOK
<1>4. CASE UNCHANGED vars
  BY <1>1, <1>4 DEF vars, GenerationInv, TypeOK
<1>5. ASSUME NEW c \in Callers, Panic(c) PROVE GenerationInv'
  <2>1. \A b \in Names : cb'[b] = Enter("closed") /\ InFlight(b)' = {}
    BY <1>5 DEF Panic, InFlight
  <2>2. \A b \in Names : WellFormed(cb'[b]) /\ cb'[b].requests = 0
                         /\ cb'[b].failures = 0
    BY <2>1, EnterWellFormed
  <2>3. cb' \in [Names -> Breaker]
    BY <1>5, <2>1, <2>2 DEF Panic, WellFormed
  <2>4. TypeOK'
    BY <1>5, <2>2, <2>3, MinStrikesType
       DEF Panic, WellFormed, TypeOK, GenerationInv, MinStrikes
  <2>5. \A b \in Names : Counted(b)' /\ Guarded(b)'
    BY <2>1, <2>2, FS_EmptySet DEF Counted, Guarded, WellFormed
  <2> QED
    BY <2>4, <2>5 DEF GenerationInv
<1> QED
  BY <1>2, <1>3, <1>4, <1>5, ElapseStep, BeginStep, EndStep DEF Next

\* Nothing has been called at first.
LEMMA GenerationInit == Init => GenerationInv
<1> SUFFICES ASSUME Init PROVE GenerationInv
  OBVIOUS
<1>1. \A b \in Names : cb[b] = Enter("closed") /\ InFlight(b) = {}
  BY DEF Init, InFlight
<1>2. \A b \in Names : WellFormed(cb[b]) /\ cb[b].requests = 0
                       /\ cb[b].failures = 0
  BY <1>1, EnterWellFormed
<1>3. cb \in [Names -> Breaker]
  BY <1>1, <1>2 DEF Init, WellFormed
<1>4. TypeOK
  BY <1>2, <1>3, MinStrikesType DEF Init, WellFormed, TypeOK
<1>5. \A b \in Names : Counted(b) /\ Guarded(b)
  BY <1>1, <1>2, FS_EmptySet DEF Counted, Guarded, WellFormed
<1> QED
  BY <1>4, <1>5 DEF GenerationInv

\* For any callers and thresholds the counts that ReadyToTrip sees are counts
\* of the calls of one generation: no more failures than requests, no longer a
\* run of failures than there were failures.
THEOREM TypeCorrect == Spec => []TypeOK
<1>1. GenerationInv => TypeOK
  BY DEF GenerationInv
<1> QED
  BY <1>1, GenerationInit, GenerationStep, PTL DEF Spec

\* Of any number of workers and handlers that share a breaker one at a time
\* probes the service behind it, although calls from before may still hang.
THEOREM ProbesAreAlone == Spec => []ProbeAlone
<1>1. GenerationInv => ProbeAlone
  <2> SUFFICES ASSUME GenerationInv, NEW b \in Names, cb[b].state = "halfopen"
               PROVE  Cardinality(InFlight(b)) <= 1
    BY DEF ProbeAlone, InFlight
  <2>1. Counted(b) /\ cb[b].requests <= 1
    BY DEF GenerationInv, Guarded, MaxRequests
  <2>2. cb[b].requests \in Nat /\ cb[b].failures \in Nat
        /\ Cardinality(InFlight(b)) \in Nat
    BY <2>1, BreakerAssumption, FS_CardinalityType
       DEF GenerationInv, TypeOK, Breaker, Counted
  <2> QED
    BY <2>1, <2>2 DEF Counted
<1> QED
  BY <1>1, GenerationInit, GenerationStep, PTL DEF Spec

-----------------------------------------------------------------------------
(***************************************************************************)
(* What changes the state of a breaker.                                    *)
(***************************************************************************)

\* What the end of c's call does to the breakers: nothing to the others; to
\* its own no more than a look at the clock, unless the call belongs to the
\* present generation.
LEMMA EndEffect ==
    ASSUME GenerationInv, NEW c \in Callers, NEW outcome \in Outcomes,
           End(c, outcome)
    PROVE  LET b == BreakerOf(c) IN
           /\ b \in Names
           /\ \A a \in Names \ {b} : cb'[a] = cb[a]
           /\ call'[c] = "none"
           /\ \/ cb'[b] = Current(cb[b])
              \/ /\ call[c] = "current" /\ ~cb[b].expired
                 /\ cb[b].state # "open" /\ cb[b].failures < cb[b].requests
                 /\ \/ ~Fails(c, outcome) /\ cb'[b] = OnSuccess(cb[b])
                    \/ Fails(c, outcome) /\ cb'[b] = OnFailure(cb[b])
<1> DEFINE b == BreakerOf(c)
           now == Current(cb[b])
           mine == call[c] = "current" /\ ~cb[b].expired
           ok == ~Fails(c, outcome)
           after == CASE ~mine -> now
                      [] mine /\ ok -> OnSuccess(now)
                      [] mine /\ ~ok -> OnFailure(now)
<1>1. b \in Names
  BY BreakerAssumption DEF BreakerOf
<1>2. ok \in BOOLEAN
  BY DEF Fails
<1>3. /\ cb' = [cb EXCEPT ![b] = after]
      /\ call' = [Aged(b, cb[b].expired \/ after.state # now.state)
                    EXCEPT ![c] = "none"]
  BY DEF End, AfterRequest
<1>4. cb \in [Names -> Breaker]
  BY DEF GenerationInv, TypeOK
<1>5. cb'[b] = after /\ \A a \in Names \ {b} : cb'[a] = cb[a]
  <2> HIDE DEF after, b
  <2> QED
    BY <1>1, <1>3, <1>4
<1>6. call'[c] = "none"
  <2> HIDE DEF after, now
  <2> QED
    BY <1>3 DEF Aged
<1>7. CASE ~mine
  <2>1. after = now
    BY <1>7
  <2> HIDE DEF after, mine
  <2> QED
    BY <1>1, <1>5, <1>6, <2>1
<1>8. CASE mine
  <2>1. now = cb[b]
    BY <1>8 DEF Current
  <2>2. (ok /\ after = OnSuccess(cb[b])) \/ (~ok /\ after = OnFailure(cb[b]))
    BY <1>2, <1>8, <2>1
  <2>3. cb[b].state # "open" /\ cb[b].failures < cb[b].requests
    BY <1>8, InFlightRoom
  <2> HIDE DEF after, now
  <2> QED
    BY <1>1, <1>5, <1>6, <1>8, <2>2, <2>3
<1> QED
  BY <1>7, <1>8

-----------------------------------------------------------------------------
(***************************************************************************)
(* How many failures open a breaker.                                       *)
(***************************************************************************)

\* The failures that a closed breaker has counted in its present interval are
\* failures since it closed.
StrikesInv ==
    \A b \in Names : cb[b].state = "closed" =>
        strikes[b] >= cb[b].failures \/ strikes[b] = MinStrikes

\* A quotient that exceeds 50 has a numerator of more than 50 divisors.
LEMMA QuotientBound ==
    ASSUME NEW f \in Nat, NEW n \in Nat \ {0}, (f * 100) \div n > 50
    PROVE  2 * f > n
<1> DEFINE q == (f * 100) \div n
<1>1. q \in Nat /\ q >= 51 /\ n * q <= f * 100
  OBVIOUS
<1>2. n * 51 <= n * q
  BY <1>1
<1> QED
  BY <1>1, <1>2

\* A breaker that has seen enough to trip has seen MinStrikes failures.
LEMMA TripTakesStrikes ==
    ASSUME NEW r \in Breaker, r.streak <= r.failures, r.requests > 0,
           ReadyToTrip(r)
    PROVE  r.failures >= MinStrikes
<1> USE BreakerAssumption
<1>1. r.failures \in Nat /\ r.requests \in Nat \ {0} /\ r.streak \in Nat
  BY DEF Breaker
<1>2. CASE r.streak >= Consecutive
  BY <1>1, <1>2, MinStrikesType
<1>3. CASE r.requests >= MinRequests /\ (r.failures * 100) \div r.requests > 50
  <2>1. 2 * r.failures > r.requests
    BY <1>1, <1>3, QuotientBound
  <2>2. 2 * r.failures > MinRequests
    BY <1>1, <1>3, <2>1
  <2>3. r.failures >= MinRequests \div 2 + 1
    BY <1>1, <2>2
  <2>4. MinStrikes <= MinRequests \div 2 + 1
    BY DEF MinStrikes
  <2>5. MinRequests \div 2 \in Nat /\ MinStrikes \in Nat
    BY MinStrikesType
  <2> QED
    BY <1>1, <2>3, <2>4, <2>5
<1> QED
  BY <1>2, <1>3 DEF ReadyToTrip

\* What the end of c's call adds to the history.
LEMMA StrikesAfterEnd ==
    ASSUME GenerationInv, NEW c \in Callers, NEW outcome \in Outcomes,
           End(c, outcome)
    PROVE  LET b == BreakerOf(c) IN
           /\ \A a \in Names \ {b} : strikes'[a] = strikes[a]
           /\ cb[b].state = "closed" =>
                 \/ strikes'[b] = strikes[b] + 1
                 \/ strikes'[b] = strikes[b] /\ strikes[b] = MinStrikes
                 \/ strikes'[b] = strikes[b]
                       /\ (call[c] # "current" \/ ~Fails(c, outcome))
<1> DEFINE b == BreakerOf(c)
<1>1. b \in Names /\ \A a \in Names \ {b} : cb'[a] = cb[a]
  BY EndEffect
<1>2. \A a \in Names : strikes'[a] = Strikes(a, c, outcome)
                       /\ strikes[a] \in 0..MinStrikes
  BY DEF End, GenerationInv, TypeOK
<1>3. ASSUME NEW a \in Names \ {b} PROVE strikes'[a] = strikes[a]
  BY <1>1, <1>2, <1>3 DEF Strikes
<1>4. ASSUME cb[b].state = "closed"
      PROVE  \/ strikes'[b] = strikes[b] + 1
             \/ strikes'[b] = strikes[b] /\ strikes[b] = MinStrikes
             \/ strikes'[b] = strikes[b]
                   /\ (call[c] # "current" \/ ~Fails(c, outcome))
  <2>1. strikes'[b] = IF /\ call[c] = "current" /\ Fails(c, outcome)
                         /\ strikes[b] < MinStrikes
                      THEN strikes[b] + 1 ELSE strikes[b]
    BY <1>1, <1>2, <1>4 DEF Strikes
  <2>2. strikes[b] \in 0..MinStrikes /\ MinStrikes \in Nat
    BY <1>1, <1>2, MinStrikesType
  <2> QED
    BY <2>1, <2>2
<1> QED
  BY <1>3, <1>4

\* Every step keeps the history of failures at least as long as the count, and
\* a breaker opens on a full history only.
LEMMA StrikesStep ==
    ASSUME GenerationInv, StrikesInv, [Next]_vars, NEW b \in Names
    PROVE  /\ cb'[b].state = "closed" =>
                strikes'[b] >= cb'[b].failures \/ strikes'[b] = MinStrikes
           /\ cb[b].state = "closed" /\ cb'[b].state = "open" =>
                strikes'[b] >= MinStrikes
<1> DEFINE Goal ==
        /\ cb'[b].state = "closed" =>
             strikes'[b] >= cb'[b].failures \/ strikes'[b] = MinStrikes
        /\ cb[b].state = "closed" /\ cb'[b].state = "open" =>
             strikes'[b] >= MinStrikes
<1>0. /\ cb \in [Names -> Breaker] /\ WellFormed(cb[b])
      /\ strikes[b] \in Nat /\ MinStrikes \in Nat /\ strikes[b] <= MinStrikes
      /\ cb[b].failures \in Nat /\ cb[b].requests \in Nat
      /\ cb[b].streak \in Nat
  BY BreakersWellFormed, BreakerAssumption, MinStrikesType
     DEF GenerationInv, TypeOK, Breaker
<1>01. strikes'[b] \in Nat /\ strikes'[b] <= MinStrikes
  <2>1. strikes' \in [Names -> 0..MinStrikes]
    BY GenerationStep DEF GenerationInv, TypeOK, MinStrikes
  <2> QED
    BY <1>0, <2>1
<1>1. ASSUME cb'[b].state = cb[b].state,
             cb'[b].failures = 0 \/ cb'[b].failures = cb[b].failures,
             strikes'[b] = strikes[b] \/ strikes'[b] = strikes[b] + 1
      PROVE  Goal
  BY <1>0, <1>01, <1>1 DEF StrikesInv
<1>2. CASE cb'[b].state = "halfopen"
  BY <1>2
<1>3. ASSUME NEW c \in Callers, NEW outcome \in Outcomes, End(c, outcome),
             b = BreakerOf(c)
      PROVE  Goal
  <2>1. CASE cb[b].state # "closed"
    <3>1. ASSUME cb'[b].state = "closed" PROVE strikes'[b] >= cb'[b].failures
      <4>1. cb'[b] = Enter("closed") \/ cb'[b] = Current(cb[b])
        BY <1>0, <1>3, <2>1, <3>1, EndEffect, EnterWellFormed, ResultWellFormed
      <4>2. cb'[b].failures = 0
        BY <1>0, <2>1, <3>1, <4>1, CurrentWellFormed, EnterWellFormed
      <4> QED
        BY <1>01, <4>2
    <3> QED
      BY <2>1, <3>1
  <2>2. CASE cb[b].state = "closed" /\ cb'[b] = Current(cb[b])
    <3>1. Current(cb[b]).state = "closed"
          /\ (Current(cb[b]).failures = 0 \/ Current(cb[b]) = cb[b])
      BY <1>0, <2>2, CurrentWellFormed DEF WellFormed, Breaker
    <3> QED
      BY <1>1, <1>3, <2>2, <3>1, StrikesAfterEnd
  <2>3. CASE cb[b].state = "closed" /\ cb'[b] = OnSuccess(cb[b])
    <3>1. OnSuccess(cb[b]).state = "closed"
          /\ OnSuccess(cb[b]).failures = cb[b].failures
      BY <1>0, <2>3 DEF OnSuccess, WellFormed, Breaker
    <3> QED
      BY <1>1, <1>3, <2>3, <3>1, StrikesAfterEnd
  <2>4. CASE /\ cb[b].state = "closed" /\ cb'[b] = OnFailure(cb[b])
             /\ call[c] = "current" /\ Fails(c, outcome)
             /\ cb[b].failures < cb[b].requests
    <3> DEFINE counted ==
                 [cb[b] EXCEPT !.failures = @ + 1, !.streak = @ + 1]
    <3>1. strikes'[b] >= cb[b].failures + 1 \/ strikes'[b] = MinStrikes
      <4>1. strikes[b] >= cb[b].failures \/ strikes[b] = MinStrikes
        BY <2>4 DEF StrikesInv
      <4>2. strikes'[b] = strikes[b] + 1
            \/ (strikes'[b] = strikes[b] /\ strikes[b] = MinStrikes)
        BY <1>3, <2>4, StrikesAfterEnd
      <4> QED
        BY <1>0, <1>01, <4>1, <4>2
    <3>2. cb'[b] = IF ReadyToTrip(counted) THEN Enter("open") ELSE counted
      BY <2>4 DEF OnFailure
    <3>3. /\ counted \in Breaker /\ counted.state = "closed"
          /\ counted.failures = cb[b].failures + 1
          /\ counted.requests = cb[b].requests
          /\ counted.streak = cb[b].streak + 1
      <4>1. cb[b].failures + 1 \in 0..MaxCalls /\ cb[b].streak + 1 \in 0..MaxCalls
        BY <1>0, <2>4, BreakerAssumption DEF WellFormed, Breaker
      <4> QED
        BY <1>0, <2>4, <4>1 DEF WellFormed, Breaker
    <3> HIDE DEF counted
    <3>4. CASE ReadyToTrip(counted)
      <4>1. counted.failures >= MinStrikes
        BY <1>0, <2>4, <3>3, <3>4, TripTakesStrikes DEF WellFormed
      <4>2. cb'[b].state = "open"
        BY <3>2, <3>4, EnterWellFormed
      <4> QED
        BY <1>0, <1>01, <3>1, <3>3, <4>1, <4>2
    <3>5. CASE ~ReadyToTrip(counted)
      BY <3>1, <3>2, <3>3, <3>5
    <3> QED
      BY <3>4, <3>5
  <2> QED
    BY <1>3, <2>1, <2>2, <2>3, <2>4, EndEffect
<1>4. ASSUME NEW c \in Callers, NEW outcome \in Outcomes, End(c, outcome),
             b # BreakerOf(c)
      PROVE  Goal
  BY <1>1, <1>4, EndEffect, StrikesAfterEnd
<1>5. ASSUME NEW c \in Callers, Begin(c) PROVE Goal
  <2> DEFINE a == BreakerOf(c)
  <2>1. a \in Names
    BY BreakerAssumption DEF BreakerOf
  <2>2. cb' = [cb EXCEPT ![a] = [Current(cb[a]) EXCEPT !.requests = @ + 1]]
        /\ strikes' = strikes /\ ~Refuses(Current(cb[a]))
    BY <1>5 DEF Begin
  <2>3. CASE a # b
    BY <1>0, <1>1, <2>1, <2>2, <2>3
  <2>4. CASE a = b
    <3>1. WellFormed(Current(cb[b]))
          /\ (Current(cb[b]).state = "closed" <=> cb[b].state = "closed")
          /\ (Current(cb[b]).failures = 0 \/ Current(cb[b]) = cb[b])
      BY <1>0, CurrentWellFormed DEF WellFormed, Breaker
    <3>2. cb'[b].state = Current(cb[b]).state
          /\ cb'[b].failures = Current(cb[b]).failures
          /\ cb'[b].state # "open"
      BY <1>0, <2>1, <2>2, <2>4, <3>1 DEF WellFormed, Breaker, Refuses
    <3> QED
      BY <1>1, <1>2, <2>2, <3>1, <3>2 DEF WellFormed, Breaker
  <2> QED
    BY <2>3, <2>4
<1>6. ASSUME NEW a \in Names, Elapse(a) PROVE Goal
  BY <1>0, <1>1, <1>6 DEF Elapse, Breaker
<1>7. ASSUME NEW c \in Callers, Panic(c) PROVE Goal
  BY <1>7, EnterWellFormed DEF Panic
<1>8. ASSUME UNCHANGED <<cb, strikes>> PROVE Goal
  BY <1>1, <1>8
<1> QED
  BY <1>3, <1>4, <1>5, <1>6, <1>7, <1>8 DEF Next, TurnAway, Environment, vars

\* A breaker that has just closed does not open again on a single failure, nor
\* on failures from before, but only after as many new ones as the smaller of
\* the two rules of ReadyToTrip asks for.
THEOREM OpensForCause == Spec => OpensOnPattern
<1>1. Init => StrikesInv
  BY EnterWellFormed DEF Init, StrikesInv
<1>2. GenerationInv /\ StrikesInv /\ [Next]_vars => StrikesInv'
  BY StrikesStep DEF StrikesInv, MinStrikes
<1>3. GenerationInv /\ StrikesInv /\ [Next]_vars =>
        [\A b \in Names : cb[b].state = "closed" /\ cb'[b].state = "open"
                            => strikes'[b] >= MinStrikes]_vars
  BY StrikesStep
<1> QED
  BY <1>1, <1>2, <1>3, GenerationInit, GenerationStep, PTL
     DEF Spec, OpensOnPattern
=============================================================================
