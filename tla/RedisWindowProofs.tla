------------------------- MODULE RedisWindowProofs -------------------------
(***************************************************************************)
(* However the pipelines of redisAllow interleave, the window in Redis     *)
(* keeps the limit: for every limit, window, delay and grace, and any      *)
(* number of concurrent calls.                                             *)
(***************************************************************************)
EXTENDS RedisWindow, FiniteSetTheorems, TLAPS

USE SlidingWindowAssumption, RedisWindowAssumption

-----------------------------------------------------------------------------
(* The window. *)

\* A grant keeps to the limit when everything that shares a span with it is
\* among at most Limit requests.
LEMMA OneMore ==
    ASSUME NEW S, IsFiniteSet(S), NEW e, NEW W, IsFiniteSet(W),
           Cardinality(W) <= Limit, NEW span \in Nat,
           \A x \in S \cup {e} : x.ts \in Int,
           \A x \in S \cup {e} : x.ts >= e.ts - span => x \in W,
           AtMostLimitIn(S, span)
    PROVE  AtMostLimitIn(S \cup {e}, span)
<1> SUFFICES ASSUME NEW g \in S \cup {e}
             PROVE  Cardinality(EntriesIn(S \cup {e}, g.ts, span)) <= Limit
  BY DEF AtMostLimitIn
<1> DEFINE A == EntriesIn(S \cup {e}, g.ts, span)
<1>1. g.ts \in Int /\ e.ts \in Int
  OBVIOUS
<1>2. CASE e \in A
  <2>1. g.ts >= e.ts - span
    BY <1>1, <1>2 DEF EntriesIn
  <2>2. ASSUME NEW x \in A PROVE x \in W
    <3>1. x \in S \cup {e} /\ x.ts \in Int /\ x.ts >= g.ts
      BY <1>1 DEF EntriesIn
    <3>2. x.ts >= e.ts - span
      BY <1>1, <2>1, <3>1
    <3> QED
      BY <3>1, <3>2
  <2>3. A \in SUBSET W
    BY <2>2
  <2> HIDE DEF A
  <2>4. Cardinality(A) <= Cardinality(W) /\ IsFiniteSet(A)
    BY <2>3, FS_Subset
  <2>5. Cardinality(A) \in Nat /\ Cardinality(W) \in Nat
    BY <2>4, FS_CardinalityType
  <2>6. Cardinality(A) <= Limit
    BY <2>4, <2>5
  <2> QED
    BY <2>6 DEF A
<1>3. CASE e \notin A
  <2>1. g \in S
    BY <1>1, <1>3 DEF EntriesIn
  <2>2. A = EntriesIn(S, g.ts, span)
    BY <1>3 DEF EntriesIn
  <2> QED
    BY <2>1, <2>2 DEF AtMostLimitIn
<1> QED
  BY <1>2, <1>3

\* Fewer grants keep to the limit as well.
LEMMA FewerKeep ==
    ASSUME NEW S, IsFiniteSet(S), NEW T \in SUBSET S, NEW span,
           AtMostLimitIn(S, span)
    PROVE  AtMostLimitIn(T, span)
<1> SUFFICES ASSUME NEW g \in T
             PROVE  Cardinality(EntriesIn(T, g.ts, span)) <= Limit
  BY DEF AtMostLimitIn
<1> DEFINE A == EntriesIn(T, g.ts, span)
           B == EntriesIn(S, g.ts, span)
<1>1. A \in SUBSET B /\ B \in SUBSET S
  BY DEF EntriesIn
<1>2. Cardinality(B) <= Limit
  BY DEF AtMostLimitIn
<1> HIDE DEF A, B
<1>3. IsFiniteSet(B)
  BY <1>1, FS_Subset
<1>4. IsFiniteSet(A) /\ Cardinality(A) <= Cardinality(B)
  BY <1>1, <1>3, FS_Subset
<1>5. Cardinality(A) \in Nat /\ Cardinality(B) \in Nat
  BY <1>3, <1>4, FS_CardinalityType
<1>6. Cardinality(A) <= Limit
  BY <1>2, <1>4, <1>5
<1> QED
  BY <1>6 DEF A

LEMMA MembersFinite == IsFiniteSet(Member)
<1> DEFINE T == (0..MaxClock) \X (1..MaxRequests)
           f == [e \in Member |-> <<e.ts, e.id>>]
<1>1. IsFiniteSet(0..MaxClock) /\ IsFiniteSet(1..MaxRequests)
  BY FS_Interval
<1>2. IsFiniteSet(T)
  BY <1>1, FS_Product
<1>3. f \in Injection(Member, T)
  <2>1. f \in [Member -> T]
    BY DEF Member
  <2>2. ASSUME NEW a \in Member, NEW b \in Member, f[a] = f[b] PROVE a = b
    <3>1. a.ts = b.ts /\ a.id = b.id
      BY <2>2
    <3> QED
      BY <3>1 DEF Member
  <2>3. \A a, b \in Member : f[a] = f[b] => a = b
    BY <2>2
  <2> HIDE DEF T, f
  <2> QED
    BY <2>1, <2>3 DEF Injection, IsInjective
<1> HIDE DEF T, f
<1> QED
  BY <1>2, <1>3, FS_Injection

-----------------------------------------------------------------------------
(* The invariant. *)

Live(t) == pc[t] # "idle"

\* The call that adds m, or added it, is under way.
Pending(m) == \E t \in Calls : Live(t) /\ id[t] = m.id

\* A call read the clock MaxDelay ago at most; calls and members are told
\* apart by ids already drawn, and a member with a call's id is the call's own.
CallsApart ==
    /\ \A t \in Calls : Live(t) =>
          /\ now[t] <= clock /\ clock <= now[t] + MaxDelay
          /\ id[t] \in 1..requests
    /\ \A t, u \in Calls : Live(t) /\ Live(u) /\ t # u => id[t] # id[u]

MembersApart ==
    /\ \A m \in zset : m.id <= requests /\ m.ts <= clock
    /\ \A m \in zset, t \in Calls : Live(t) /\ id[t] = m.id => m = Request(t)
    /\ \A m, n \in zset : m.id = n.id => m = n

\* A call that has pruned adds to a set that reaches back less than a window.
Pruned ==
    \A t \in Calls : pc[t] = "add" => \A m \in zset : m.ts > now[t] - Window

\* The TTL outlives the members whose EXPIRE has run, and the time limit of a
\* call among those whose EXPIRE has not.
Renewed ==
    expireAt # 0 => \A m \in zset : ~Pending(m) => expireAt >= m.ts + Window + Grace

Guarded ==
    expireAt # 0 /\ (\E m \in zset : Pending(m)) =>
        \E m \in zset : Pending(m) /\ expireAt > m.ts + Grace

\* What a call has added is there until it returns.
Added == \A t \in Calls : pc[t] \in {"count", "expire"} => Request(t) \in zset

\* The calls that have counted and will be allowed, and those that were.
Winning == {t \in Calls : pc[t] = "expire" /\ Within(count[t])}
Winners == granted \cup {Request(t) : t \in Winning}

Remembered == \A m \in Winners : m.ts > clock - Window => m \in zset

Span == Window - 1 - MaxDelay

\* Once a call was given up, or slower than the grace, between its ZADD and its
\* EXPIRE, the key may expire too early; until then all of this holds.
WindowKept ==
    /\ Renewed
    /\ Guarded
    /\ Added
    /\ Remembered
    /\ AtMostLimitIn(Winners, Span)

RedisInv ==
    /\ TypeOK
    /\ CallsApart
    /\ MembersApart
    /\ zset = {} => expireAt = 0
    /\ Pruned
    /\ ~torn => WindowKept

-----------------------------------------------------------------------------
(* What the invariant says of values. *)

LEMMA Values ==
    ASSUME RedisInv
    PROVE  /\ clock \in Nat /\ requests \in Nat /\ expireAt \in Nat
           /\ \A t \in Calls : now[t] \in Nat /\ id[t] \in Nat
           /\ \A m \in Member : m.ts \in Nat /\ m.id \in Nat
           /\ zset \subseteq Member
BY DEF RedisInv, TypeOK, Member

LEMMA RequestFields ==
    \A t \in Calls : Request(t).ts = now[t] /\ Request(t).id = id[t]
BY DEF Request, Entry

LEMMA RequestIsMember ==
    ASSUME RedisInv, NEW t \in Calls, Live(t)
    PROVE  Request(t) \in Member
<1>1. now[t] \in 0..MaxClock /\ id[t] \in 1..requests /\ requests \in 0..MaxRequests
  BY DEF RedisInv, TypeOK, CallsApart
<1>2. id[t] \in 1..MaxRequests
  BY <1>1
<1> QED
  BY <1>1, <1>2 DEF Request, Entry, Member

LEMMA WinnersFinite ==
    ASSUME RedisInv PROVE Winners \in SUBSET Member /\ IsFiniteSet(Winners)
<1>1. \A t \in Winning : Request(t) \in Member
  BY RequestIsMember DEF Winning, Live
<1>2. Winners \in SUBSET Member
  BY <1>1 DEF Winners, RedisInv, TypeOK
<1> QED
  BY <1>2, MembersFinite, FS_Subset

\* Ids tell the members apart, so there are no more than requests.
LEMMA CountInRange ==
    ASSUME RedisInv
    PROVE  IsFiniteSet(zset) /\ Cardinality(zset) \in 0..MaxRequests
<1> DEFINE T == 1..MaxRequests
           f == [m \in zset |-> m.id]
<1>1. IsFiniteSet(T) /\ Cardinality(T) = MaxRequests
  <2>1. /\ IsFiniteSet(1..MaxRequests)
        /\ Cardinality(1..MaxRequests) = IF 1 > MaxRequests THEN 0 ELSE MaxRequests - 1 + 1
    BY FS_Interval
  <2> QED
    BY <2>1
<1>2. f \in [zset -> T]
  BY DEF RedisInv, TypeOK, Member
<1>3. \A a, b \in zset : f[a] = f[b] => a = b
  BY DEF RedisInv, MembersApart
<1> HIDE DEF T, f
<1>4. f \in Injection(zset, T)
  BY <1>2, <1>3 DEF Injection, IsInjective
<1>5. IsFiniteSet(zset) /\ Cardinality(zset) <= Cardinality(T)
  BY <1>1, <1>4, FS_Injection
<1>6. Cardinality(zset) \in Nat
  BY <1>5, FS_CardinalityType
<1> QED
  BY <1>1, <1>5, <1>6

\* A member of a call under way is no older than the call may be.
LEMMA PendingIsYoung ==
    ASSUME RedisInv, NEW m \in zset, Pending(m)
    PROVE  m.ts \in Nat /\ clock <= m.ts + MaxDelay
<1>1. PICK t \in Calls : Live(t) /\ id[t] = m.id
  BY DEF Pending
<1>2. m = Request(t) /\ clock <= now[t] + MaxDelay
  BY <1>1 DEF RedisInv, MembersApart, CallsApart
<1> QED
  BY <1>2, RequestFields, Values

\* A step that only moves a call on leaves it the same call.
LEMMA SameCalls ==
    ASSUME UNCHANGED <<now, id>>, \A t \in Calls : Live(t)' <=> Live(t)
    PROVE  /\ \A m : Pending(m)' <=> Pending(m)
           /\ \A t \in Calls : Request(t)' = Request(t)
BY DEF Pending, Request

\* While no call counts, nobody joins the winners.
LEMMA NoNewWinner ==
    ASSUME granted' \subseteq Winners,
           \A t \in Calls : pc'[t] = "expire" =>
               /\ pc[t] = "expire" /\ count'[t] = count[t]
               /\ now'[t] = now[t] /\ id'[t] = id[t]
    PROVE  Winners' \subseteq Winners
<1> SUFFICES ASSUME NEW m \in Winners' PROVE m \in Winners
  OBVIOUS
<1>1. CASE m \in granted'
  BY <1>1
<1>2. CASE m \notin granted'
  <2>1. PICK t \in Winning' : m = Request(t)'
    BY <1>2 DEF Winners
  <2>2. t \in Winning /\ m = Request(t)
    BY <2>1 DEF Winning, Request
  <2> QED
    BY <2>2 DEF Winners
<1> QED
  BY <1>1, <1>2

-----------------------------------------------------------------------------
(* The steps. *)

\* A new call has an id that no member has.
LEMMA ArriveKeeps ==
    ASSUME RedisInv, NEW t \in Calls, Arrive(t)
    PROVE  RedisInv'
<1>1. /\ TypeOK /\ CallsApart /\ MembersApart /\ Pruned
      /\ ~Live(t) /\ requests < MaxRequests /\ requests' = requests + 1
      /\ UNCHANGED <<clock, zset, expireAt, count, granted, torn>>
  BY DEF RedisInv, Arrive, Live
<1>2. /\ pc'[t] = "prune" /\ now'[t] = clock /\ id'[t] = requests + 1
      /\ \A u \in Calls \ {t} : pc'[u] = pc[u] /\ now'[u] = now[u] /\ id'[u] = id[u]
  BY DEF Arrive, Goto, RedisInv, TypeOK
<1>3. /\ clock \in Nat /\ requests \in Nat
      /\ \A u \in Calls : now[u] \in Nat /\ id[u] \in Nat
      /\ \A m \in zset : m.ts \in Nat /\ m.id \in Nat
  BY Values
<1>4. /\ Live(t)'
      /\ \A u \in Calls \ {t} : /\ Live(u)' <=> Live(u)
                                /\ Request(u)' = Request(u)
  BY <1>2 DEF Live, Request
<1>5. \A m \in zset : Pending(m)' <=> Pending(m)
  BY <1>1, <1>2, <1>3, <1>4 DEF Pending, MembersApart
<1>6. TypeOK'
  <2>1. requests + 1 \in 0..MaxRequests
    BY <1>1, <1>3
  <2> QED
    BY <2>1 DEF Arrive, Goto, RedisInv, TypeOK
<1>7. CallsApart'
  <2>1. ASSUME NEW u \in Calls, Live(u)'
        PROVE  /\ now'[u] <= clock /\ clock <= now'[u] + MaxDelay
               /\ id'[u] \in 1..requests'
    <3>1. CASE u = t
      BY <1>1, <1>2, <1>3, <3>1
    <3>2. CASE u # t
      <4>1. /\ now[u] <= clock /\ clock <= now[u] + MaxDelay /\ id[u] \in 1..requests
        BY <1>1, <1>4, <2>1, <3>2 DEF CallsApart
      <4> QED
        BY <1>1, <1>2, <1>3, <3>2, <4>1
    <3> QED
      BY <3>1, <3>2
  <2>2. ASSUME NEW u \in Calls, NEW v \in Calls, Live(u)', Live(v)', u # v
        PROVE  id'[u] # id'[v]
    <3>1. \A w \in Calls \ {t} : Live(w) => id[w] <= requests
      BY <1>1, <1>3 DEF CallsApart
    <3>2. CASE u = t \/ v = t
      BY <1>2, <1>3, <1>4, <2>2, <3>1, <3>2
    <3>3. CASE u # t /\ v # t
      BY <1>1, <1>2, <1>4, <2>2, <3>3 DEF CallsApart
    <3> QED
      BY <3>2, <3>3
  <2> QED
    BY <1>1, <2>1, <2>2 DEF CallsApart
<1>8. MembersApart'
  <2>1. \A m \in zset : m.id <= requests /\ m.ts <= clock
    BY <1>1 DEF MembersApart
  <2>2. \A m \in zset : m.id <= requests' /\ m.ts <= clock
    BY <1>1, <1>3, <2>1
  <2>3. ASSUME NEW m \in zset, NEW u \in Calls, Live(u)', id'[u] = m.id
        PROVE  m = Request(u)'
    <3>1. u # t
      BY <1>2, <1>3, <2>1, <2>3
    <3> QED
      BY <1>1, <1>2, <1>4, <2>3, <3>1 DEF MembersApart
  <2> QED
    BY <1>1, <2>2, <2>3 DEF MembersApart
<1>9. Pruned'
  BY <1>1, <1>2 DEF Pruned
<1>10. ASSUME ~torn PROVE WindowKept'
  <2>1. WindowKept
    BY <1>10 DEF RedisInv
  <2>2. Renewed' /\ Guarded'
    BY <1>1, <1>5, <2>1 DEF WindowKept, Renewed, Guarded
  <2>3. Added'
    BY <1>1, <1>2, <1>4, <2>1 DEF WindowKept, Added
  <2>4. Winners' \subseteq Winners
    <3>1. granted' \subseteq Winners
      BY <1>1 DEF Winners
    <3> QED
      BY <1>1, <1>2, <3>1, NoNewWinner
  <2>5. Remembered'
    BY <1>1, <2>1, <2>4 DEF WindowKept, Remembered
  <2>6. AtMostLimitIn(Winners', Span)
    BY <2>1, <2>4, WinnersFinite, FewerKeep DEF WindowKept
  <2> QED
    BY <2>2, <2>3, <2>5, <2>6 DEF WindowKept, Span
<1> QED
  BY <1>1, <1>6, <1>7, <1>8, <1>9, <1>10 DEF RedisInv

\* Pruning removes neither the member of a call under way nor a recent one.
LEMMA PruneKeeps ==
    ASSUME RedisInv, NEW t \in Calls, Prune(t)
    PROVE  RedisInv'
<1>1. /\ TypeOK /\ CallsApart /\ MembersApart /\ Pruned /\ Live(t) /\ pc[t] = "prune"
      /\ zset' = {m \in zset : RedisKeeps(m.ts, now[t])}
      /\ expireAt' = IF zset' = {} THEN 0 ELSE expireAt
      /\ UNCHANGED <<clock, now, id, count, granted, requests, torn>>
  BY DEF RedisInv, Prune, Live
<1>2. /\ pc'[t] = "add" /\ \A u \in Calls \ {t} : pc'[u] = pc[u]
      /\ pc' \in [Calls -> {"idle", "prune", "add", "count", "expire"}]
  BY <1>1 DEF Prune, Goto, TypeOK
<1>3. /\ clock \in Nat /\ requests \in Nat /\ now[t] \in Nat
      /\ \A m \in zset : m.ts \in Nat /\ m.id \in Nat
      /\ now[t] <= clock
  BY <1>1, Values DEF CallsApart
<1>4. /\ \A u \in Calls : Live(u)' <=> Live(u)
      /\ \A m : Pending(m)' <=> Pending(m)
      /\ \A u \in Calls : Request(u)' = Request(u)
  <2>1. \A u \in Calls : Live(u)' <=> Live(u)
    BY <1>1, <1>2 DEF Live
  <2> QED
    BY <1>1, <2>1, SameCalls
<1>5. \A m \in zset : m.ts > clock - Window => m \in zset'
  BY <1>1, <1>3 DEF RedisKeeps
<1>6. \A m \in zset : Pending(m) => m \in zset'
  <2> SUFFICES ASSUME NEW m \in zset, Pending(m) PROVE m.ts > clock - Window
    BY <1>5
  <2>1. m.ts \in Nat /\ clock <= m.ts + MaxDelay
    BY PendingIsYoung
  <2> QED
    BY <1>3, <2>1
<1>7. TypeOK'
  <2>1. zset' \in SUBSET Member /\ expireAt' \in Nat
    BY <1>1 DEF TypeOK
  <2> QED
    BY <1>1, <1>2, <2>1 DEF TypeOK
<1>8. CallsApart'
  BY <1>1, <1>4 DEF CallsApart
<1>9. MembersApart'
  BY <1>1, <1>4 DEF MembersApart
<1>10. zset' = {} => expireAt' = 0
  BY <1>1
<1>11. Pruned'
  <2>1. \A m \in zset' : m.ts > now[t] - Window
    BY <1>1 DEF RedisKeeps
  <2> QED
    BY <1>1, <1>2, <2>1 DEF Pruned
<1>12. ASSUME ~torn PROVE WindowKept'
  <2>1. WindowKept
    BY <1>12 DEF RedisInv
  <2>2. Renewed'
    BY <1>1, <1>4, <2>1 DEF WindowKept, Renewed
  <2>3. Guarded'
    BY <1>1, <1>4, <1>6, <2>1 DEF WindowKept, Guarded
  <2>4. Added'
    <3> SUFFICES ASSUME NEW u \in Calls, pc'[u] \in {"count", "expire"}
                 PROVE  Request(u) \in zset'
      BY <1>4 DEF Added
    <3>1. pc[u] \in {"count", "expire"}
      BY <1>2
    <3>2. Request(u) \in zset /\ Live(u)
      BY <2>1, <3>1 DEF WindowKept, Added, Live
    <3>3. Pending(Request(u))
      BY <3>2, RequestFields DEF Pending
    <3> QED
      BY <1>6, <3>2, <3>3
  <2>5. Winners' \subseteq Winners
    <3>1. granted' \subseteq Winners
      BY <1>1 DEF Winners
    <3> QED
      BY <1>1, <1>2, <3>1, NoNewWinner
  <2>6. Remembered'
    BY <1>1, <1>5, <2>1, <2>5 DEF WindowKept, Remembered
  <2>7. AtMostLimitIn(Winners', Span)
    BY <2>1, <2>5, WinnersFinite, FewerKeep DEF WindowKept
  <2> QED
    BY <2>2, <2>3, <2>4, <2>6, <2>7 DEF WindowKept, Span
<1> QED
  BY <1>1, <1>7, <1>8, <1>9, <1>10, <1>11, <1>12 DEF RedisInv

\* A member is added to a set whose TTL reaches beyond the call's time.
LEMMA AddKeeps ==
    ASSUME RedisInv, NEW t \in Calls, Add(t)
    PROVE  RedisInv'
<1>1. /\ TypeOK /\ CallsApart /\ MembersApart /\ Pruned /\ Live(t) /\ pc[t] = "add"
      /\ zset' = zset \cup {Request(t)}
      /\ UNCHANGED <<clock, expireAt, now, id, count, granted, requests, torn>>
  BY DEF RedisInv, Add, Live
<1>2. /\ pc'[t] = "count" /\ \A u \in Calls \ {t} : pc'[u] = pc[u]
      /\ pc' \in [Calls -> {"idle", "prune", "add", "count", "expire"}]
  BY <1>1 DEF Add, Goto, TypeOK
<1>3. /\ clock \in Nat /\ requests \in Nat /\ expireAt \in Nat
      /\ \A u \in Calls : now[u] \in Nat /\ id[u] \in Nat
      /\ \A m \in zset : m.ts \in Nat /\ m.id \in Nat
      /\ now[t] <= clock /\ clock <= now[t] + MaxDelay /\ id[t] \in 1..requests
      /\ Request(t).ts = now[t] /\ Request(t).id = id[t]
  BY <1>1, Values, RequestFields DEF CallsApart
<1>4. /\ \A u \in Calls : Live(u)' <=> Live(u)
      /\ \A m : Pending(m)' <=> Pending(m)
      /\ \A u \in Calls : Request(u)' = Request(u)
  <2>1. \A u \in Calls : Live(u)' <=> Live(u)
    BY <1>1, <1>2 DEF Live
  <2> QED
    BY <1>1, <2>1, SameCalls
<1>5. TypeOK'
  <2>1. zset' \in SUBSET Member
    BY <1>1, RequestIsMember DEF TypeOK
  <2> QED
    BY <1>1, <1>2, <2>1 DEF TypeOK
<1>6. CallsApart'
  BY <1>1, <1>4 DEF CallsApart
<1>7. MembersApart'
  <2>1. \A m \in zset' : m.id <= requests /\ m.ts <= clock
    BY <1>1, <1>3 DEF MembersApart
  <2>2. ASSUME NEW m \in zset', NEW u \in Calls, Live(u), id[u] = m.id
        PROVE  m = Request(u)
    <3>1. CASE m = Request(t)
      BY <1>1, <1>3, <2>2, <3>1 DEF CallsApart
    <3>2. CASE m \in zset
      BY <1>1, <2>2, <3>2 DEF MembersApart
    <3> QED
      BY <1>1, <3>1, <3>2
  <2>3. ASSUME NEW m \in zset', NEW n \in zset', m.id = n.id PROVE m = n
    BY <1>1, <1>3, <2>3 DEF MembersApart
  <2> QED
    BY <1>1, <1>4, <2>1, <2>2, <2>3 DEF MembersApart
<1>8. zset' # {}
  BY <1>1
<1>9. Pruned'
  <2> SUFFICES ASSUME NEW u \in Calls, pc[u] = "add", NEW m \in zset'
               PROVE  m.ts > now[u] - Window
    BY <1>1, <1>2 DEF Pruned
  <2>1. CASE m \in zset
    BY <1>1, <2>1 DEF Pruned
  <2>2. CASE m = Request(t)
    <3>1. now[u] <= clock
      BY <1>1 DEF CallsApart, Live
    <3> QED
      BY <1>3, <2>2, <3>1
  <2> QED
    BY <1>1, <2>1, <2>2
<1>10. ASSUME ~torn PROVE WindowKept'
  <2>1. WindowKept
    BY <1>10 DEF RedisInv
  <2>2. Pending(Request(t))
    BY <1>1, <1>3 DEF Pending
  <2>3. Renewed'
    BY <1>1, <1>4, <2>1, <2>2 DEF WindowKept, Renewed
  <2>4. Guarded'
    <3> SUFFICES ASSUME expireAt # 0
                 PROVE  \E m \in zset' : Pending(m) /\ expireAt > m.ts + Grace
      BY <1>1, <1>4 DEF Guarded
    <3>1. CASE \E m \in zset : Pending(m)
      BY <1>1, <2>1, <3>1 DEF WindowKept, Guarded
    <3>2. CASE \A m \in zset : ~Pending(m)
      <4>1. PICK m \in zset : TRUE
        BY DEF RedisInv
      <4>2. expireAt >= m.ts + Window + Grace /\ m.ts > now[t] - Window
        BY <1>1, <2>1, <3>2 DEF WindowKept, Renewed, Pruned
      <4>3. expireAt > Request(t).ts + Grace
        BY <1>3, <4>1, <4>2
      <4> QED
        BY <1>1, <2>2, <4>3
    <3> QED
      BY <3>1, <3>2
  <2>5. Added'
    BY <1>1, <1>2, <1>4, <2>1 DEF WindowKept, Added
  <2>6. Winners' \subseteq Winners
    <3>1. granted' \subseteq Winners
      BY <1>1 DEF Winners
    <3> QED
      BY <1>1, <1>2, <3>1, NoNewWinner
  <2>7. Remembered'
    BY <1>1, <2>1, <2>6 DEF WindowKept, Remembered
  <2>8. AtMostLimitIn(Winners', Span)
    BY <2>1, <2>6, WinnersFinite, FewerKeep DEF WindowKept
  <2> QED
    BY <2>3, <2>4, <2>5, <2>7, <2>8 DEF WindowKept, Span
<1> QED
  BY <1>1, <1>5, <1>6, <1>7, <1>8, <1>9, <1>10 DEF RedisInv

\* The decisive step.  All winners that share a span with the call are in the
\* set that it counts.
LEMMA CountKeeps ==
    ASSUME RedisInv, NEW t \in Calls, Count(t)
    PROVE  RedisInv'
<1>1. /\ TypeOK /\ CallsApart /\ MembersApart /\ Pruned /\ Live(t) /\ pc[t] = "count"
      /\ count' = [count EXCEPT ![t] = Cardinality(zset)]
      /\ UNCHANGED <<clock, zset, expireAt, now, id, granted, requests, torn>>
  BY DEF RedisInv, Count, Live
<1>2. /\ pc'[t] = "expire" /\ \A u \in Calls \ {t} : pc'[u] = pc[u]
      /\ pc' \in [Calls -> {"idle", "prune", "add", "count", "expire"}]
  BY <1>1 DEF Count, Goto, TypeOK
<1>3. count'[t] = Cardinality(zset) /\ \A u \in Calls \ {t} : count'[u] = count[u]
  BY <1>1 DEF TypeOK
<1>4. /\ \A u \in Calls : Live(u)' <=> Live(u)
      /\ \A m : Pending(m)' <=> Pending(m)
      /\ \A u \in Calls : Request(u)' = Request(u)
  <2>1. \A u \in Calls : Live(u)' <=> Live(u)
    BY <1>1, <1>2 DEF Live
  <2> QED
    BY <1>1, <2>1, SameCalls
<1>5. IsFiniteSet(zset) /\ Cardinality(zset) \in 0..MaxRequests
  BY CountInRange
<1>6. TypeOK'
  BY <1>1, <1>2, <1>5 DEF TypeOK
<1>7. CallsApart' /\ MembersApart'
  BY <1>1, <1>4 DEF CallsApart, MembersApart
<1>8. Pruned'
  BY <1>1, <1>2 DEF Pruned
<1>9. ASSUME ~torn PROVE WindowKept'
  <2>1. WindowKept
    BY <1>9 DEF RedisInv
  <2>2. Renewed' /\ Guarded'
    BY <1>1, <1>4, <2>1 DEF WindowKept, Renewed, Guarded
  <2>3. Added'
    BY <1>1, <1>2, <1>4, <2>1 DEF WindowKept, Added
  <2>4. Request(t) \in zset
    BY <1>1, <2>1 DEF WindowKept, Added
  <2>5. Winners' \subseteq Winners \cup {Request(t)}
    <3> SUFFICES ASSUME NEW m \in Winners', m \notin granted
                 PROVE  m \in Winners \cup {Request(t)}
      BY DEF Winners
    <3>1. PICK u \in Winning' : m = Request(u)
      BY <1>1, <1>4 DEF Winners, Winning
    <3>2. u = t \/ u \in Winning
      BY <1>2, <1>3, <3>1 DEF Winning
    <3> QED
      BY <3>1, <3>2 DEF Winners
  <2>6. Cardinality(zset) > Limit => Winners' \subseteq Winners
    <3> SUFFICES ASSUME Cardinality(zset) > Limit, NEW m \in Winners', m \notin granted
                 PROVE  m \in Winners
      BY DEF Winners
    <3>1. PICK u \in Winning' : m = Request(u)
      BY <1>1, <1>4 DEF Winners, Winning
    <3>2. ~Within(count'[t])
      BY <1>3, <1>5 DEF Within
    <3>3. u \in Winning
      BY <1>2, <1>3, <3>1, <3>2 DEF Winning
    <3> QED
      BY <3>1, <3>3 DEF Winners
  <2>7. Remembered'
    BY <1>1, <2>1, <2>4, <2>5 DEF WindowKept, Remembered
  <2>8. AtMostLimitIn(Winners', Span)
    <3>1. Winners \in SUBSET Member /\ IsFiniteSet(Winners)
      BY WinnersFinite
    <3>2. CASE Cardinality(zset) > Limit
      BY <2>1, <2>6, <3>1, <3>2, FewerKeep DEF WindowKept
    <3>3. CASE Cardinality(zset) <= Limit
      <4> DEFINE S == Winners
                 e == Request(t)
      <4>1. e \in Member /\ Span \in Nat
        BY <1>1, RequestIsMember DEF Span
      <4>2. \A x \in S \cup {e} : x.ts \in Int
        BY <3>1, <4>1, Values
      <4>3. ASSUME NEW x \in S \cup {e}, x.ts >= e.ts - Span PROVE x \in zset
        <5>1. /\ e.ts = now[t] /\ now[t] \in Nat /\ clock \in Nat
              /\ clock <= now[t] + MaxDelay
          BY <1>1, Values, RequestFields DEF CallsApart
        <5>2. x.ts \in Int
          BY <4>2
        <5>3. x.ts > clock - Window
          BY <4>3, <5>1, <5>2 DEF Span
        <5> QED
          BY <2>1, <2>4, <5>3 DEF WindowKept, Remembered
      <4>4. AtMostLimitIn(S, Span)
        BY <2>1 DEF WindowKept
      <4> HIDE DEF S, e
      <4>5. IsFiniteSet(S)
        BY <3>1 DEF S
      <4>6. AtMostLimitIn(S \cup {e}, Span)
        BY <1>5, <3>3, <4>1, <4>2, <4>3, <4>4, <4>5, OneMore
      <4>7. IsFiniteSet(S \cup {e})
        BY <4>5, FS_AddElement
      <4>8. Winners' \in SUBSET (S \cup {e})
        BY <2>5 DEF S, e
      <4> QED
        BY <4>6, <4>7, <4>8, FewerKeep
    <3> QED
      BY <1>5, <3>2, <3>3
  <2> QED
    BY <2>2, <2>3, <2>7, <2>8 DEF WindowKept, Span
<1> QED
  BY <1>1, <1>6, <1>7, <1>8, <1>9 DEF RedisInv

\* A call that returns leaves the others as they are.
LEMMA ReturnEffect ==
    ASSUME RedisInv, NEW t \in Calls, Live(t), Return(t)
    PROVE  /\ ~Live(t)'
           /\ \A u \in Calls \ {t} :
                 /\ pc'[u] = pc[u] /\ now'[u] = now[u] /\ id'[u] = id[u]
                 /\ count'[u] = count[u] /\ Request(u)' = Request(u)
                 /\ Live(u)' <=> Live(u)
           /\ pc' \in [Calls -> {"idle", "prune", "add", "count", "expire"}]
           /\ now' \in [Calls -> 0..MaxClock] /\ id' \in [Calls -> 0..MaxRequests]
           /\ count' \in [Calls -> 0..MaxRequests]
           /\ \A m : Pending(m)' => Pending(m)
           /\ \A m : Pending(m) => Pending(m)' \/ m.id = id[t]
<1>1. TypeOK
  BY DEF RedisInv
<1>2. /\ pc'[t] = "idle" /\ pc' \in [Calls -> {"idle", "prune", "add", "count", "expire"}]
      /\ \A u \in Calls \ {t} : /\ pc'[u] = pc[u] /\ now'[u] = now[u]
                                /\ id'[u] = id[u] /\ count'[u] = count[u]
  BY <1>1 DEF Return, Goto, TypeOK
<1>3. /\ now' \in [Calls -> 0..MaxClock] /\ id' \in [Calls -> 0..MaxRequests]
      /\ count' \in [Calls -> 0..MaxRequests]
  BY <1>1 DEF Return, TypeOK
<1>4. ~Live(t)' /\ \A u \in Calls \ {t} : (Live(u)' <=> Live(u)) /\ Request(u)' = Request(u)
  BY <1>2 DEF Live, Request
<1>5. \A m : Pending(m)' => Pending(m)
  BY <1>2, <1>4 DEF Pending
<1>6. \A m : Pending(m) => Pending(m)' \/ m.id = id[t]
  BY <1>2, <1>4 DEF Pending
<1> QED
  BY <1>2, <1>3, <1>4, <1>5, <1>6

LEMMA ReturnKeepsApart ==
    ASSUME RedisInv, NEW t \in Calls, Live(t), Return(t),
           UNCHANGED <<clock, zset, requests>>
    PROVE  CallsApart' /\ MembersApart' /\ Pruned'
<1>1. CallsApart /\ MembersApart /\ Pruned
  BY DEF RedisInv
<1>2. /\ ~Live(t)'
      /\ \A u \in Calls \ {t} :
            /\ pc'[u] = pc[u] /\ now'[u] = now[u] /\ id'[u] = id[u]
            /\ Request(u)' = Request(u)
            /\ Live(u)' <=> Live(u)
  BY ReturnEffect
<1>3. CallsApart'
  BY <1>1, <1>2 DEF CallsApart
<1>4. MembersApart'
  BY <1>1, <1>2 DEF MembersApart
<1>5. Pruned'
  <2>1. pc'[t] # "add"
    BY <1>2 DEF Live
  <2> QED
    BY <1>1, <1>2, <2>1 DEF Pruned
<1> QED
  BY <1>3, <1>4, <1>5

\* EXPIRE renews the TTL for every member, its own included.
LEMMA ExpireKeeps ==
    ASSUME RedisInv, NEW t \in Calls, Expire(t)
    PROVE  RedisInv'
<1>1. /\ TypeOK /\ CallsApart /\ MembersApart /\ Pruned /\ Live(t) /\ pc[t] = "expire"
      /\ expireAt' = IF zset = {} THEN 0 ELSE clock + Window + Grace
      /\ granted' = IF Within(count[t]) THEN granted \cup {Request(t)} ELSE granted
      /\ Return(t)
      /\ UNCHANGED <<clock, zset, requests, torn>>
  BY DEF RedisInv, Expire, Live
<1>2. /\ ~Live(t)'
      /\ \A u \in Calls \ {t} :
            /\ pc'[u] = pc[u] /\ now'[u] = now[u] /\ id'[u] = id[u]
            /\ count'[u] = count[u] /\ Request(u)' = Request(u)
            /\ Live(u)' <=> Live(u)
      /\ pc' \in [Calls -> {"idle", "prune", "add", "count", "expire"}]
      /\ now' \in [Calls -> 0..MaxClock] /\ id' \in [Calls -> 0..MaxRequests]
      /\ count' \in [Calls -> 0..MaxRequests]
      /\ \A m : Pending(m)' => Pending(m)
  BY <1>1, ReturnEffect
<1>3. /\ clock \in Nat /\ \A m \in zset : m.ts \in Nat /\ m.ts <= clock
  BY <1>1, Values DEF MembersApart
<1>4. granted' \subseteq Winners
  BY <1>1 DEF Winners, Winning
<1>5. TypeOK'
  <2>1. granted' \in SUBSET Member
    BY <1>4, WinnersFinite
  <2>2. expireAt' \in Nat
    BY <1>1, <1>3
  <2> QED
    BY <1>1, <1>2, <2>1, <2>2 DEF TypeOK
<1>6. CallsApart' /\ MembersApart' /\ Pruned'
  BY <1>1, ReturnKeepsApart
<1>7. ASSUME ~torn PROVE WindowKept'
  <2>1. WindowKept
    BY <1>7 DEF RedisInv
  <2>2. \A m \in zset : expireAt' >= m.ts + Window + Grace /\ expireAt' > m.ts + Grace
    <3> SUFFICES ASSUME NEW m \in zset
                 PROVE  expireAt' >= m.ts + Window + Grace /\ expireAt' > m.ts + Grace
      OBVIOUS
    <3>1. expireAt' = clock + Window + Grace
      BY <1>1
    <3> QED
      BY <1>3, <3>1
  <2>3. Renewed' /\ Guarded'
    BY <1>1, <2>2 DEF Renewed, Guarded
  <2>4. Added'
    <3>1. pc'[t] \notin {"count", "expire"}
      BY <1>2 DEF Live
    <3> QED
      BY <1>1, <1>2, <2>1, <3>1 DEF WindowKept, Added
  <2>5. Winners' \subseteq Winners
    <3>1. pc'[t] # "expire"
      BY <1>2 DEF Live
    <3> QED
      BY <1>2, <1>4, <3>1, NoNewWinner
  <2>6. Remembered'
    BY <1>1, <2>1, <2>5 DEF WindowKept, Remembered
  <2>7. AtMostLimitIn(Winners', Span)
    BY <2>1, <2>5, WinnersFinite, FewerKeep DEF WindowKept
  <2> QED
    BY <2>3, <2>4, <2>6, <2>7 DEF WindowKept, Span
<1> QED
  BY <1>1, <1>5, <1>6, <1>7 DEF RedisInv

\* A pipeline that breaks off starts again as the same call, or is given up:
\* torn, when its member is there.
LEMMA BreakKeeps ==
    ASSUME RedisInv, NEW t \in Calls, Break(t)
    PROVE  RedisInv'
<1>1. /\ TypeOK /\ CallsApart /\ MembersApart /\ Pruned /\ Live(t)
      /\ UNCHANGED <<clock, zset, expireAt, granted, requests>>
  BY DEF RedisInv, Break, Live
<1>2. granted' \subseteq Winners
  BY <1>1 DEF Winners
<1>3. CASE Goto(t, "prune") /\ UNCHANGED <<now, id, count, torn>>
  <2>1. /\ pc'[t] = "prune" /\ \A u \in Calls \ {t} : pc'[u] = pc[u]
        /\ pc' \in [Calls -> {"idle", "prune", "add", "count", "expire"}]
    BY <1>1, <1>3 DEF Goto, TypeOK
  <2>2. /\ \A u \in Calls : Live(u)' <=> Live(u)
        /\ \A m : Pending(m)' <=> Pending(m)
        /\ \A u \in Calls : Request(u)' = Request(u)
    <3>1. \A u \in Calls : Live(u)' <=> Live(u)
      BY <1>1, <2>1 DEF Live
    <3> QED
      BY <1>3, <3>1, SameCalls
  <2>3. TypeOK'
    BY <1>1, <1>3, <2>1 DEF TypeOK
  <2>4. CallsApart' /\ MembersApart'
    BY <1>1, <1>3, <2>2 DEF CallsApart, MembersApart
  <2>5. Pruned'
    BY <1>1, <1>3, <2>1 DEF Pruned
  <2>6. ASSUME ~torn PROVE WindowKept'
    <3>1. WindowKept
      BY <2>6 DEF RedisInv
    <3>2. Renewed' /\ Guarded'
      BY <1>1, <2>2, <3>1 DEF WindowKept, Renewed, Guarded
    <3>3. Added'
      BY <1>1, <2>1, <2>2, <3>1 DEF WindowKept, Added
    <3>4. Winners' \subseteq Winners
      BY <1>2, <1>3, <2>1, NoNewWinner
    <3>5. Remembered'
      BY <1>1, <3>1, <3>4 DEF WindowKept, Remembered
    <3>6. AtMostLimitIn(Winners', Span)
      BY <3>1, <3>4, WinnersFinite, FewerKeep DEF WindowKept
    <3> QED
      BY <3>2, <3>3, <3>5, <3>6 DEF WindowKept, Span
  <2> QED
    BY <1>1, <1>3, <2>3, <2>4, <2>5, <2>6 DEF RedisInv
<1>4. CASE Return(t) /\ torn' = (torn \/ Owes(t))
  <2>1. /\ ~Live(t)'
        /\ \A u \in Calls \ {t} :
              /\ pc'[u] = pc[u] /\ now'[u] = now[u] /\ id'[u] = id[u]
              /\ count'[u] = count[u] /\ Request(u)' = Request(u)
              /\ Live(u)' <=> Live(u)
        /\ pc' \in [Calls -> {"idle", "prune", "add", "count", "expire"}]
        /\ now' \in [Calls -> 0..MaxClock] /\ id' \in [Calls -> 0..MaxRequests]
        /\ count' \in [Calls -> 0..MaxRequests]
        /\ \A m : Pending(m)' => Pending(m)
        /\ \A m : Pending(m) => Pending(m)' \/ m.id = id[t]
    BY <1>1, <1>4, ReturnEffect
  <2>2. TypeOK'
    <3>1. torn' \in BOOLEAN
      BY <1>1, <1>4 DEF TypeOK
    <3> QED
      BY <1>1, <2>1, <3>1 DEF TypeOK
  <2>3. CallsApart' /\ MembersApart' /\ Pruned'
    BY <1>1, <1>4, ReturnKeepsApart
  <2>4. ASSUME ~torn' PROVE WindowKept'
    <3>1. ~torn /\ \A m \in zset : m.id # id[t]
      BY <1>1, <1>4, <2>4 DEF TypeOK, Owes
    <3>2. WindowKept
      BY <3>1 DEF RedisInv
    <3>3. \A m \in zset : Pending(m)' <=> Pending(m)
      BY <2>1, <3>1
    <3>4. Renewed' /\ Guarded'
      BY <1>1, <3>2, <3>3 DEF WindowKept, Renewed, Guarded
    <3>5. pc'[t] = "idle"
      BY <2>1 DEF Live
    <3>6. Added'
      BY <1>1, <2>1, <3>2, <3>5 DEF WindowKept, Added
    <3>7. Winners' \subseteq Winners
      BY <1>2, <2>1, <3>5, NoNewWinner
    <3>8. Remembered'
      BY <1>1, <3>2, <3>7 DEF WindowKept, Remembered
    <3>9. AtMostLimitIn(Winners', Span)
      BY <3>2, <3>7, WinnersFinite, FewerKeep DEF WindowKept
    <3> QED
      BY <3>4, <3>6, <3>8, <3>9 DEF WindowKept, Span
  <2> QED
    BY <1>1, <2>2, <2>3, <2>4 DEF RedisInv
<1> QED
  BY <1>3, <1>4 DEF Break

\* The key expires only when all its members are older than the window, unless
\* a call is slower than the grace, which makes the window torn.
LEMMA TickKeeps ==
    ASSUME RedisInv, Tick
    PROVE  RedisInv'
<1>1. /\ TypeOK /\ CallsApart /\ MembersApart /\ Pruned
      /\ clock < MaxClock /\ clock' = clock + 1
      /\ \A t \in Calls : pc[t] # "idle" => clock - now[t] < MaxDelay
      /\ torn' = (torn \/ \E t \in Calls : Owes(t) /\ clock + 1 - now[t] > Grace)
      /\ UNCHANGED <<pc, now, id, count, granted, requests>>
  BY DEF RedisInv, Tick
<1>2. \/ /\ expireAt # 0 /\ expireAt <= clock + 1
         /\ zset' = {} /\ expireAt' = 0
      \/ UNCHANGED <<zset, expireAt>>
  BY DEF Tick
<1>3. /\ clock \in Nat /\ requests \in Nat /\ expireAt \in Nat
      /\ \A t \in Calls : now[t] \in Nat /\ id[t] \in Nat
      /\ \A m \in zset : m.ts \in Nat /\ m.id \in Nat
  BY Values
<1>4. /\ \A u \in Calls : Live(u)' <=> Live(u)
      /\ \A m : Pending(m)' <=> Pending(m)
      /\ \A u \in Calls : Request(u)' = Request(u)
  <2>1. \A u \in Calls : Live(u)' <=> Live(u)
    BY <1>1 DEF Live
  <2> QED
    BY <1>1, <2>1, SameCalls
<1>5. zset' \subseteq zset
  BY <1>2
<1>6. TypeOK'
  <2>1. clock' \in 0..MaxClock /\ expireAt' \in Nat
    BY <1>1, <1>2, <1>3
  <2>2. zset' \in SUBSET Member
    BY <1>1, <1>5 DEF TypeOK
  <2>3. torn' \in BOOLEAN
    BY <1>1 DEF TypeOK
  <2> QED
    BY <1>1, <2>1, <2>2, <2>3 DEF TypeOK
<1>7. CallsApart'
  <2>1. ASSUME NEW t \in Calls, Live(t)
        PROVE  /\ now[t] <= clock' /\ clock' <= now[t] + MaxDelay
               /\ id[t] \in 1..requests
    <3>1. now[t] <= clock /\ id[t] \in 1..requests /\ clock - now[t] < MaxDelay
      BY <1>1, <2>1 DEF CallsApart, Live
    <3> QED
      BY <1>1, <1>3, <3>1
  <2> QED
    BY <1>1, <1>4, <2>1 DEF CallsApart
<1>8. MembersApart'
  <2>1. ASSUME NEW m \in zset' PROVE m.id <= requests /\ m.ts <= clock'
    <3>1. m \in zset /\ m.id <= requests /\ m.ts <= clock
      BY <1>1, <1>5 DEF MembersApart
    <3> QED
      BY <1>1, <1>3, <3>1
  <2> QED
    BY <1>1, <1>4, <1>5, <2>1 DEF MembersApart
<1>9. zset' = {} => expireAt' = 0
  BY <1>2 DEF RedisInv
<1>10. Pruned'
  BY <1>1, <1>5 DEF Pruned
<1>11. ASSUME ~torn' PROVE WindowKept'
  <2>1. /\ WindowKept
        /\ \A t \in Calls : Owes(t) => ~(clock + 1 - now[t] > Grace)
    BY <1>1, <1>11 DEF RedisInv
  \* No call is under way that has a member in a key that expires.
  <2>2. ASSUME expireAt # 0, expireAt <= clock + 1, NEW n \in zset PROVE ~Pending(n)
    <3> SUFFICES ASSUME Pending(n) PROVE FALSE
      OBVIOUS
    <3>1. PICK m \in zset : Pending(m) /\ expireAt > m.ts + Grace
      BY <2>1, <2>2 DEF WindowKept, Guarded
    <3>2. PICK t \in Calls : Live(t) /\ id[t] = m.id
      BY <3>1 DEF Pending
    <3>3. m.ts = now[t]
      BY <1>1, <3>1, <3>2, RequestFields DEF MembersApart, Live
    <3>4. ~(clock + 1 - now[t] > Grace)
      BY <2>1, <3>1, <3>2 DEF Owes
    <3> QED
      BY <1>3, <2>2, <3>1, <3>3, <3>4
  <2>3. Renewed'
    BY <1>2, <1>4, <2>1 DEF WindowKept, Renewed
  <2>4. Guarded'
    BY <1>2, <1>4, <2>1 DEF WindowKept, Guarded
  <2>5. Added'
    <3> SUFFICES ASSUME NEW t \in Calls, pc[t] \in {"count", "expire"}
                 PROVE  Request(t) \in zset'
      BY <1>1, <1>4 DEF Added
    <3>1. Request(t) \in zset /\ Live(t)
      BY <2>1 DEF WindowKept, Added, Live
    <3>2. Pending(Request(t))
      BY <3>1, RequestFields DEF Pending
    <3> QED
      BY <1>2, <2>2, <3>1, <3>2
  <2>6. Winners' \subseteq Winners
    <3>1. granted' \subseteq Winners
      BY <1>1 DEF Winners
    <3> QED
      BY <1>1, <3>1, NoNewWinner
  <2>7. Remembered'
    <3> SUFFICES ASSUME NEW m \in Winners', m.ts > clock' - Window PROVE m \in zset'
      BY DEF Remembered
    <3>1. m \in Winners /\ m.ts \in Nat
      BY <2>6, WinnersFinite, Values
    <3>2. m.ts > clock - Window
      BY <1>1, <1>3, <3>1
    <3>3. m \in zset
      BY <2>1, <3>1, <3>2 DEF WindowKept, Remembered
    <3>4. ASSUME expireAt # 0, expireAt <= clock + 1 PROVE FALSE
      <4>1. expireAt >= m.ts + Window + Grace
        BY <2>1, <2>2, <3>3, <3>4 DEF WindowKept, Renewed
      <4> QED
        BY <1>1, <1>3, <3>1, <3>4, <4>1
    <3> QED
      BY <1>2, <3>3, <3>4
  <2>8. AtMostLimitIn(Winners', Span)
    BY <2>1, <2>6, WinnersFinite, FewerKeep DEF WindowKept
  <2> QED
    BY <2>3, <2>4, <2>5, <2>7, <2>8 DEF WindowKept, Span
<1> QED
  BY <1>1, <1>6, <1>7, <1>8, <1>9, <1>10, <1>11 DEF RedisInv

\* The invariant holds throughout.
LEMMA RedisInvariant == Spec => []RedisInv
<1>1. Init => RedisInv
  <2> SUFFICES ASSUME Init PROVE RedisInv
    OBVIOUS
  <2>1. TypeOK
    <3>1. 0 \in 0..MaxClock /\ 0 \in 0..MaxRequests /\ 0 \in Nat
      OBVIOUS
    <3> QED
      BY <3>1, Zenon DEF Init, TypeOK
  <2>2. \A t \in Calls : ~Live(t)
    BY DEF Init, Live
  <2>3. Winners = {}
    BY DEF Init, Winners, Winning
  <2>4. WindowKept
    BY <2>3 DEF Init, WindowKept, Renewed, Guarded, Added, Remembered, AtMostLimitIn
  <2>5. CallsApart /\ MembersApart /\ Pruned
    BY <2>2 DEF Init, CallsApart, MembersApart, Pruned
  <2> QED
    BY <2>1, <2>4, <2>5 DEF Init, RedisInv
<1>2. RedisInv /\ [Next]_vars => RedisInv'
  <2> SUFFICES ASSUME RedisInv, [Next]_vars PROVE RedisInv'
    OBVIOUS
  <2>1. CASE \E t \in Calls : \/ Arrive(t) \/ Prune(t) \/ Add(t)
                              \/ Count(t) \/ Expire(t) \/ Break(t)
    BY <2>1, ArriveKeeps, PruneKeeps, AddKeeps, CountKeeps, ExpireKeeps, BreakKeeps
  <2>2. CASE Tick
    BY <2>2, TickKeeps
  <2>3. CASE UNCHANGED vars
    <3>1. TypeOK'
      BY <2>3 DEF RedisInv, vars, TypeOK
    <3>2. /\ \A t \in Calls : Live(t)' <=> Live(t)
          /\ \A m : Pending(m)' <=> Pending(m)
          /\ \A t \in Calls : Request(t)' = Request(t)
      <4>1. \A t \in Calls : Live(t)' <=> Live(t)
        BY <2>3 DEF vars, Live
      <4> QED
        BY <2>3, <4>1, SameCalls DEF vars
    <3>3. CallsApart' /\ MembersApart' /\ Pruned'
      BY <2>3, <3>2 DEF RedisInv, vars, CallsApart, MembersApart, Pruned
    <3>4. Winners' = Winners
      BY <2>3, <3>2 DEF vars, Winners, Winning, Request
    <3>5. WindowKept => WindowKept'
      BY <2>3, <3>2, <3>4
         DEF vars, WindowKept, Renewed, Guarded, Added, Remembered, Span
    <3> QED
      BY <2>3, <3>1, <3>3, <3>5 DEF RedisInv, vars
  <2> QED
    BY <2>1, <2>2, <2>3 DEF Next, Finished
<1> QED
  BY <1>1, <1>2, PTL DEF Spec

-----------------------------------------------------------------------------
(* The theorems. *)

\* Type correctness: the members of the sorted set are requests with ids of
\* their own, so that ZCARD counts no more of them than there were.
THEOREM TypeCorrect == Spec => []TypeOK
<1>1. RedisInv => TypeOK
  BY DEF RedisInv
<1> QED
  BY <1>1, RedisInvariant, PTL

\* However the four commands of redisAllow's pipelines interleave, in one
\* replica or in many, and whichever are sent again: unless a call was given up
\* between its ZADD and its EXPIRE, or took longer over them than the second
\* that EXPIRE adds, at most limit requests are allowed in any span of the
\* window, less one tick and the age of a call's timestamp.
THEOREM SharedWindowKeepsLimit == Spec => []RateBound
<1>1. RedisInv => RateBound
  <2> SUFFICES ASSUME RedisInv, ~torn
               PROVE  AtMostLimitIn(granted, Window - 1 - MaxDelay)
    BY DEF RateBound
  <2>1. AtMostLimitIn(Winners, Span) /\ granted \in SUBSET Winners
    BY DEF RedisInv, WindowKept, Winners
  <2>2. AtMostLimitIn(granted, Span)
    BY <2>1, WinnersFinite, FewerKeep
  <2> QED
    BY <2>2 DEF Span
<1> QED
  BY <1>1, RedisInvariant, PTL
=============================================================================
