------------------------ MODULE MemoryLimiterProofs ------------------------
(***************************************************************************)
(* The fallback limiter keeps its key cap and its rate, for every limit,   *)
(* window, cap and delay, and any number of keys and concurrent calls.     *)
(***************************************************************************)
EXTENDS MemoryLimiter, FiniteSetTheorems, TLAPS

USE SlidingWindowAssumption, MemoryLimiterAssumption

-----------------------------------------------------------------------------
(* The window. *)

\* A grant keeps to the limit when everything that shares a span with it is
\* among at most Limit requests.
LEMMA OneMore ==
    ASSUME NEW S, IsFiniteSet(S), NEW e, NEW W, IsFiniteSet(W),
           Cardinality(W) <= Limit, NEW span \in Nat,
           \A x \in S \cup {e} : x.ts \in Int,
           \A x \in S \cup {e} : x.ts >= e.ts - span => x \in W,
           AtMostLimitIn(S, span)
    PROVE  AtMostLimitIn(S \cup {e}, span)
<1> SUFFICES ASSUME NEW g \in S \cup {e}
             PROVE  Cardinality(EntriesIn(S \cup {e}, g.ts, span)) <= Limit
  BY DEF AtMostLimitIn
<1> DEFINE A == EntriesIn(S \cup {e}, g.ts, span)
<1>1. g.ts \in Int /\ e.ts \in Int
  OBVIOUS
<1>2. CASE e \in A
  <2>1. g.ts >= e.ts - span
    BY <1>1, <1>2 DEF EntriesIn
  <2>2. ASSUME NEW x \in A PROVE x \in W
    <3>1. x \in S \cup {e} /\ x.ts \in Int /\ x.ts >= g.ts
      BY <1>1 DEF EntriesIn
    <3>2. x.ts >= e.ts - span
      BY <1>1, <2>1, <3>1
    <3> QED
      BY <3>1, <3>2
  <2>3. A \in SUBSET W
    BY <2>2
  <2> HIDE DEF A
  <2>4. Cardinality(A) <= Cardinality(W) /\ IsFiniteSet(A)
    BY <2>3, FS_Subset
  <2>5. Cardinality(A) \in Nat /\ Cardinality(W) \in Nat
    BY <2>4, FS_CardinalityType
  <2>6. Cardinality(A) <= Limit
    BY <2>4, <2>5
  <2> QED
    BY <2>6 DEF A
<1>3. CASE e \notin A
  <2>1. g \in S
    BY <1>1, <1>3 DEF EntriesIn
  <2>2. A = EntriesIn(S, g.ts, span)
    BY <1>3 DEF EntriesIn
  <2> QED
    BY <2>1, <2>2 DEF AtMostLimitIn
<1> QED
  BY <1>2, <1>3

LEMMA EntriesFinite == IsFiniteSet(Entries)
<1> DEFINE T == (0..MaxClock) \X (1..MaxRequests)
           f == [e \in Entries |-> <<e.ts, e.id>>]
<1>1. IsFiniteSet(0..MaxClock) /\ IsFiniteSet(1..MaxRequests)
  BY FS_Interval
<1>2. IsFiniteSet(T)
  BY <1>1, FS_Product
<1>3. f \in Injection(Entries, T)
  <2>1. f \in [Entries -> T]
    BY DEF Entries
  <2>2. ASSUME NEW a \in Entries, NEW b \in Entries, f[a] = f[b] PROVE a = b
    <3>1. a.ts = b.ts /\ a.id = b.id
      BY <2>2
    <3> QED
      BY <3>1 DEF Entries
  <2>3. \A a, b \in Entries : f[a] = f[b] => a = b
    BY <2>2
  <2> HIDE DEF T, f
  <2> QED
    BY <2>1, <2>3 DEF Injection, IsInjective
<1> HIDE DEF T, f
<1> QED
  BY <1>2, <1>3, FS_Injection

-----------------------------------------------------------------------------
(* The invariant. *)

\* A call that waits for the mutex read the clock MaxDelay ago at most.
Waiting ==
    \A t \in Calls : pc[t] = "lock" =>
        /\ now[t] <= clock /\ clock <= now[t] + MaxDelay
        /\ id[t] \in 1..MaxRequests

\* No pruning so far can have removed a grant of the last Window: the key is
\* tracked, and the request is in its window.
Remembered ==
    \A k \in Keys : \A e \in granted[k] :
        e.ts >= clock - Window => k \in DOMAIN keys /\ e \in keys[k].times

MemoryInv ==
    /\ TypeOK
    /\ IsFiniteSet(DOMAIN keys) /\ KeyCap
    /\ Waiting
    /\ Remembered
    /\ RateBound

\* A new key takes the place of the one that is evicted for it.
LEMMA CapKept ==
    ASSUME NEW D, IsFiniteSet(D), Cardinality(D) <= MaxKeys, NEW k, NEW victims,
           \/ k \in D /\ victims = {}
           \/ Cardinality(D) < MaxKeys /\ victims = {}
           \/ k \notin D /\ \E v \in D : victims = {v}
    PROVE  /\ IsFiniteSet((D \ victims) \cup {k})
           /\ Cardinality((D \ victims) \cup {k}) <= MaxKeys
<1>1. Cardinality(D) \in Nat
  BY FS_CardinalityType
<1>2. CASE k \in D /\ victims = {}
  <2>1. (D \ victims) \cup {k} = D
    BY <1>2
  <2> QED
    BY <2>1
<1>3. CASE Cardinality(D) < MaxKeys /\ victims = {}
  <2>1. (D \ victims) \cup {k} = D \cup {k}
    BY <1>3
  <2>2. /\ IsFiniteSet(D \cup {k})
        /\ Cardinality(D \cup {k}) =
              IF k \in D THEN Cardinality(D) ELSE Cardinality(D) + 1
    BY FS_AddElement
  <2>3. Cardinality(D \cup {k}) <= MaxKeys
    BY <1>1, <1>3, <2>2
  <2> QED
    BY <2>1, <2>2, <2>3
<1>4. CASE k \notin D /\ \E v \in D : victims = {v}
  <2>1. PICK v \in D : victims = {v}
    BY <1>4
  <2> DEFINE R == D \ {v}
  <2>2. IsFiniteSet(R) /\ Cardinality(R) = Cardinality(D) - 1
    BY <2>1, FS_RemoveElement
  <2>3. k \notin R /\ (D \ victims) \cup {k} = R \cup {k}
    BY <1>4, <2>1
  <2> HIDE DEF R
  <2>4. IsFiniteSet(R \cup {k}) /\ Cardinality(R \cup {k}) = Cardinality(R) + 1
    BY <2>2, <2>3, FS_AddElement
  <2>5. Cardinality(R \cup {k}) <= MaxKeys
    BY <1>1, <2>2, <2>4
  <2> QED
    BY <2>3, <2>4, <2>5
<1> QED
  BY <1>2, <1>3, <1>4

\* The section under the mutex keeps the invariant.
LEMMA DecideKeeps ==
    ASSUME MemoryInv, NEW t \in Calls, Decide(t)
    PROVE  MemoryInv'
<1> DEFINE k == key[t]
           e == Entry(now[t], id[t])
<1>1. PICK victims \in IF NeedsRoom(k) THEN {{v} : v \in Oldest} ELSE {{}} :
         /\ keys' = Touched(k, e, victims)
         /\ granted' = [l \in Keys |->
                IF l = k /\ Within(Cardinality(keys'[k].times))
                THEN granted[k] \cup {e}
                ELSE IF l \in victims THEN {} ELSE granted[l]]
  BY DEF Decide
<1>2. /\ pc[t] = "lock" /\ pc' = [pc EXCEPT ![t] = "idle"]
      /\ UNCHANGED <<clock, key, now, id, requests>>
  BY DEF Decide
<1>3. /\ clock \in 0..MaxClock /\ DOMAIN keys \subseteq Keys
      /\ \A l \in DOMAIN keys : keys[l] \in MemoryWindow /\ keys[l].times # {}
      /\ granted \in [Keys -> SUBSET Entries]
      /\ pc \in [Calls -> {"idle", "lock"}]
      /\ k \in Keys /\ now[t] \in 0..MaxClock
      /\ IsFiniteSet(DOMAIN keys) /\ KeyCap /\ Waiting /\ Remembered /\ RateBound
  BY DEF MemoryInv, TypeOK
<1>4. /\ e \in Entries /\ e.ts = now[t]
      /\ e.ts <= clock /\ clock <= e.ts + MaxDelay
  BY <1>2, <1>3 DEF Waiting, Entry, Entries
\* The windows after the step.
<1>5. /\ DOMAIN keys' = (DOMAIN keys \ victims) \cup {k}
      /\ keys'[k] = [times |-> Kept(k, e.ts) \cup {e}, lastTouch |-> e.ts]
      /\ \A l \in DOMAIN keys' \ {k} : l \in DOMAIN keys /\ keys'[l] = keys[l]
  BY <1>1 DEF Touched
<1> HIDE DEF k, e
<1>6. Kept(k, e.ts) \subseteq Entries
  BY <1>3 DEF Kept, MemoryWindow
<1>7. keys'[k] \in MemoryWindow /\ keys'[k].times # {}
  <2>1. e.ts \in 0..MaxClock
    BY <1>4 DEF Entries
  <2> QED
    BY <1>4, <1>5, <1>6, <2>1 DEF MemoryWindow
<1>8. granted' \in [Keys -> SUBSET Entries]
  BY <1>1, <1>3, <1>4
<1>9. TypeOK'
  <2>1. \A l \in DOMAIN keys' : keys'[l] \in MemoryWindow /\ keys'[l].times # {}
    BY <1>3, <1>5, <1>7
  <2>2. DOMAIN keys' \subseteq Keys
    BY <1>3, <1>5
  <2>3. pc' \in [Calls -> {"idle", "lock"}]
    BY <1>2, <1>3
  <2> QED
    BY <1>2, <1>8, <2>1, <2>2, <2>3 DEF MemoryInv, TypeOK
<1>10. IsFiniteSet(DOMAIN keys') /\ KeyCap'
  <2> DEFINE D == DOMAIN keys
  <2>1. IsFiniteSet(D) /\ Cardinality(D) <= MaxKeys /\ Cardinality(D) \in Nat
    BY <1>3, FS_CardinalityType DEF KeyCap
  <2>2. \/ k \in D /\ victims = {}
        \/ Cardinality(D) < MaxKeys /\ victims = {}
        \/ k \notin D /\ \E v \in D : victims = {v}
    <3>1. CASE NeedsRoom(k)
      BY <1>1, <3>1 DEF NeedsRoom, Oldest
    <3>2. CASE ~NeedsRoom(k)
      <4>1. victims = {}
        BY <1>1, <3>2
      <4> QED
        BY <2>1, <3>2, <4>1 DEF NeedsRoom
    <3> QED
      BY <3>1, <3>2
  <2> HIDE DEF D
  <2>3. /\ IsFiniteSet((D \ victims) \cup {k})
        /\ Cardinality((D \ victims) \cup {k}) <= MaxKeys
    BY <2>1, <2>2, CapKept
  <2> QED
    BY <1>5, <2>3 DEF D, KeyCap
<1>11. Waiting'
  BY <1>2, <1>3 DEF Waiting
\* Who is evicted was somebody else.
<1>12. k \notin victims
  <2>1. CASE NeedsRoom(k)
    BY <1>1, <2>1 DEF NeedsRoom, Oldest
  <2>2. CASE ~NeedsRoom(k)
    BY <1>1, <2>2
  <2> QED
    BY <2>1, <2>2
<1>13. Remembered'
  <2> SUFFICES ASSUME NEW l \in Keys, NEW x \in granted'[l], x.ts >= clock - Window
               PROVE  l \in DOMAIN keys' /\ x \in keys'[l].times
    BY <1>2 DEF Remembered
  <2>1. x.ts \in Int /\ e.ts \in Int /\ clock \in Int
    BY <1>3, <1>4, <1>8 DEF Entries
  <2>2. CASE x = e /\ l = k
    BY <1>5, <2>2
  <2>3. CASE x \in granted[l] /\ l \notin victims
    <3>1. l \in DOMAIN keys /\ x \in keys[l].times
      BY <1>3, <2>3 DEF Remembered
    <3>2. CASE l = k
      <4>1. MemoryKeeps(x.ts, e.ts)
        BY <1>4, <2>1 DEF MemoryKeeps
      <4> QED
        BY <1>5, <3>1, <3>2, <4>1 DEF Kept
    <3>3. CASE l # k
      BY <1>5, <2>3, <3>1, <3>3
    <3> QED
      BY <3>2, <3>3
  <2> QED
    BY <1>1, <1>12, <2>2, <2>3
<1>14. RateBound'
  <2> SUFFICES ASSUME NEW l \in Keys
               PROVE  AtMostLimitIn(granted'[l], Window - MaxDelay)
    BY DEF RateBound
  <2>1. AtMostLimitIn(granted[l], Window - MaxDelay)
    BY <1>3 DEF RateBound
  <2>2. CASE granted'[l] = granted[l]
    BY <2>1, <2>2
  <2>3. CASE granted'[l] = {}
    BY <2>3 DEF AtMostLimitIn
  <2>4. CASE /\ l = k /\ granted'[l] = granted[k] \cup {e}
             /\ Within(Cardinality(keys'[k].times))
    <3> DEFINE S == granted[k]
               W == keys'[k].times
               span == Window - MaxDelay
    <3>1. S \subseteq Entries /\ W \subseteq Entries
      BY <1>3, <1>7 DEF MemoryWindow
    <3>2. IsFiniteSet(S) /\ IsFiniteSet(W) /\ Cardinality(W) \in Nat
      BY <3>1, EntriesFinite, FS_Subset, FS_CardinalityType
    <3>3. Cardinality(W) <= Limit /\ span \in Nat
      BY <2>4 DEF Within
    <3>4. \A x \in S \cup {e} : x.ts \in Int
      BY <1>4, <3>1 DEF Entries
    <3>5. ASSUME NEW x \in S \cup {e}, x.ts >= e.ts - span PROVE x \in W
      <4>1. x.ts \in Int /\ e.ts \in Int /\ clock \in Int
        BY <1>3, <1>4, <3>4
      <4>2. x.ts >= clock - Window
        BY <1>4, <3>5, <4>1
      <4> QED
        BY <1>13, <1>2, <1>3, <2>4, <3>5, <4>2 DEF Remembered
    <3>6. AtMostLimitIn(S, span)
      BY <2>1, <2>4
    <3> HIDE DEF S, W, span
    <3>7. AtMostLimitIn(S \cup {e}, span)
      BY <3>2, <3>3, <3>4, <3>5, <3>6, OneMore
    <3> QED
      BY <2>4, <3>7 DEF S, span
  <2> QED
    BY <1>1, <2>2, <2>3, <2>4
<1> QED
  BY <1>9, <1>10, <1>11, <1>13, <1>14 DEF MemoryInv

\* Every step keeps the invariant.
LEMMA MemoryInvKept ==
    ASSUME MemoryInv, [Next]_vars
    PROVE  MemoryInv'
<1>1. TypeOK /\ Waiting /\ Remembered /\ clock \in Nat
  BY DEF MemoryInv, TypeOK
<1>2. CASE \E t \in Calls : Decide(t)
  BY <1>2, DecideKeeps
<1>3. ASSUME NEW t \in Calls, NEW l \in Keys, Arrive(t, l) PROVE MemoryInv'
  <2>1. UNCHANGED <<clock, keys, granted>>
    BY <1>3 DEF Arrive
  <2>2. requests + 1 \in 1..MaxRequests /\ requests' \in 0..MaxRequests
    BY <1>1, <1>3 DEF Arrive, TypeOK
  <2>3. TypeOK'
    <3>1. requests + 1 \in 0..MaxRequests
      BY <2>2
    <3> QED
      BY <1>1, <1>3, <2>2, <3>1 DEF Arrive, TypeOK
  <2>4. Waiting'
    <3> SUFFICES ASSUME NEW u \in Calls, pc'[u] = "lock"
                 PROVE  /\ now'[u] <= clock /\ clock <= now'[u] + MaxDelay
                        /\ id'[u] \in 1..MaxRequests
      BY <2>1 DEF Waiting
    <3>1. CASE u = t
      <4>1. now'[u] = clock /\ id'[u] = requests + 1
        BY <1>1, <1>3, <3>1 DEF Arrive, TypeOK
      <4> QED
        BY <1>1, <2>2, <4>1
    <3>2. CASE u # t
      BY <1>1, <1>3, <3>2 DEF Arrive, TypeOK, Waiting
    <3> QED
      BY <3>1, <3>2
  <2>5. Remembered' /\ RateBound' /\ KeyCap' /\ IsFiniteSet(DOMAIN keys')
    BY <2>1 DEF MemoryInv, Remembered, RateBound, KeyCap
  <2> QED
    BY <2>3, <2>4, <2>5 DEF MemoryInv
<1>4. CASE Tick
  <2>1. /\ clock' = clock + 1 /\ clock < MaxClock
        /\ \A t \in Calls : pc[t] = "lock" => clock - now[t] < MaxDelay
        /\ UNCHANGED <<keys, pc, key, now, id, granted, requests>>
    BY <1>4 DEF Tick
  <2>2. TypeOK'
    <3>1. clock' \in 0..MaxClock
      BY <1>1, <2>1
    <3> QED
      BY <1>1, <2>1, <3>1 DEF TypeOK
  <2>3. Waiting'
    <3> SUFFICES ASSUME NEW t \in Calls, pc[t] = "lock"
                 PROVE  /\ now[t] <= clock + 1 /\ clock + 1 <= now[t] + MaxDelay
                        /\ id[t] \in 1..MaxRequests
      BY <2>1 DEF Waiting
    <3>1. now[t] \in Int
      BY <1>1 DEF TypeOK
    <3>2. /\ now[t] <= clock /\ clock - now[t] < MaxDelay
          /\ id[t] \in 1..MaxRequests
      BY <1>1, <2>1 DEF Waiting
    <3> QED
      BY <1>1, <3>1, <3>2
  <2>4. Remembered'
    <3> SUFFICES ASSUME NEW l \in Keys, NEW x \in granted'[l],
                        x.ts >= clock' - Window
                 PROVE  l \in DOMAIN keys' /\ x \in keys'[l].times
      BY DEF Remembered
    <3>1. x \in granted[l] /\ x.ts \in Int
      BY <1>1, <2>1 DEF TypeOK, Entries
    <3>2. x.ts >= clock - Window
      BY <1>1, <2>1, <3>1
    <3> QED
      BY <1>1, <2>1, <3>1, <3>2 DEF Remembered
  <2>5. RateBound' /\ KeyCap' /\ IsFiniteSet(DOMAIN keys')
    BY <2>1 DEF MemoryInv, RateBound, KeyCap
  <2> QED
    BY <2>2, <2>3, <2>4, <2>5 DEF MemoryInv
<1>5. CASE UNCHANGED vars
  <2>1. TypeOK'
    BY <1>1, <1>5 DEF vars, TypeOK
  <2> QED
    BY <1>5, <2>1 DEF vars, MemoryInv, Waiting, Remembered, RateBound, KeyCap
<1> QED
  BY <1>2, <1>3, <1>4, <1>5 DEF Next, Finished

\* The invariant holds throughout.
LEMMA MemoryInvariant == Spec => []MemoryInv
<1>1. Init => MemoryInv
  <2> SUFFICES ASSUME Init PROVE MemoryInv
    OBVIOUS
  <2>1. DOMAIN keys = {}
    BY DEF Init
  <2>2. (CHOOSE k \in Keys : TRUE) \in Keys
    OBVIOUS
  <2>3. TypeOK
    BY <2>1, <2>2 DEF Init, TypeOK
  <2>4. IsFiniteSet(DOMAIN keys) /\ KeyCap
    BY <2>1, FS_EmptySet DEF KeyCap
  <2>5. Waiting /\ Remembered /\ RateBound
    BY DEF Init, Waiting, Remembered, RateBound, AtMostLimitIn
  <2> QED
    BY <2>3, <2>4, <2>5 DEF MemoryInv
<1>2. MemoryInv /\ [Next]_vars => MemoryInv'
  BY MemoryInvKept
<1> QED
  BY <1>1, <1>2, PTL DEF Spec

-----------------------------------------------------------------------------
(* The theorems. *)

\* Type correctness of the fallback's state: every tracked key of memory.go
\* has a window with a request in it.
THEOREM TypeCorrect == Spec => []TypeOK
<1>1. MemoryInv => TypeOK
  BY DEF MemoryInv
<1> QED
  BY <1>1, MemoryInvariant, PTL

\* The map of memoryLimiter never holds more than maxKeys keys: evictOldest
\* makes room before a new key is added.
THEOREM KeysAreCapped == Spec => []KeyCap
<1>1. MemoryInv => KeyCap
  BY DEF MemoryInv
<1> QED
  BY <1>1, MemoryInvariant, PTL

\* While a key stays tracked, Allow admits at most limit requests of it in any
\* span of the window, less the time that a call may wait for the mutex after
\* it read the clock.
THEOREM FallbackKeepsLimit == Spec => []RateBound
<1>1. MemoryInv => RateBound
  BY DEF MemoryInv
<1> QED
  BY <1>1, MemoryInvariant, PTL
=============================================================================
