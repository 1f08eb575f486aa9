---------------------------- MODULE RedisWindow ----------------------------
(***************************************************************************)
(* The window of one rate-limit key in Redis (redisAllow of                *)
(* internal/ratelimit/limiter.go): a sorted set of request timestamps,     *)
(* pruned, extended and counted by a pipeline.  A pipeline is not a        *)
(* transaction, so the commands of concurrent calls, in one replica or in  *)
(* several, interleave.  A call reads its replica's clock first; its       *)
(* timestamp is at most MaxDelay old when its last command runs.  The      *)
(* client's timeouts (cmd/swayrider-api/main.go: 2 s to dial, 1 s to write *)
(* and 1 s to read, and one retry) make that several times the second of   *)
(* Grace, so MaxDelay may exceed Grace.                                    *)
(***************************************************************************)
EXTENDS SlidingWindow

CONSTANTS
    Calls,        \* concurrent calls, of all the replicas
    Grace,        \* the second that EXPIRE adds to the window, in ticks
    MaxDelay,     \* bound on the age of a call's timestamp
    MaxClock,     \* bound on the clock
    MaxRequests   \* bound on the requests

ASSUME RedisWindowAssumption ==
    /\ MaxDelay \in 0..(Window - 1)
    /\ Grace \in Nat
    /\ MaxClock \in Nat /\ MaxRequests \in Nat

VARIABLES
    clock,
    zset,      \* the members, with ts for their scores
    expireAt,  \* when the key expires; 0 while it has no TTL or is not there
    pc, now, id,  \* the calls: what is next, and their locals
    count,     \* what ZCARD returned to them
    granted,   \* the requests allowed
    requests,  \* the number of requests so far
    torn       \* was a call, between its ZADD and its EXPIRE, given up or
               \* slower than Grace?

vars == <<clock, zset, expireAt, pc, now, id, count, granted, requests,
          torn>>

Member == [ts : 0..MaxClock, id : 1..MaxRequests]

TypeOK ==
    /\ clock \in 0..MaxClock
    /\ zset \in SUBSET Member
    /\ expireAt \in Nat
    /\ pc \in [Calls -> {"idle", "prune", "add", "count", "expire"}]
    /\ now \in [Calls -> 0..MaxClock]
    /\ id \in [Calls -> 0..MaxRequests]
    /\ count \in [Calls -> 0..MaxRequests]
    /\ granted \in SUBSET Member
    /\ requests \in 0..MaxRequests
    /\ torn \in BOOLEAN

Init ==
    /\ clock = 0
    /\ zset = {}
    /\ expireAt = 0
    /\ pc = [t \in Calls |-> "idle"]
    /\ now = [t \in Calls |-> 0]
    /\ id = [t \in Calls |-> 0]
    /\ count = [t \in Calls |-> 0]
    /\ granted = {}
    /\ requests = 0
    /\ torn = FALSE

Goto(t, label) == pc' = [pc EXCEPT ![t] = label]

\* The call is over, and its locals are gone.
Return(t) ==
    /\ Goto(t, "idle")
    /\ now' = [now EXCEPT ![t] = 0]
    /\ id' = [id EXCEPT ![t] = 0]
    /\ count' = [count EXCEPT ![t] = 0]

\* redisAllow reads the clock and draws a request id.
Arrive(t) ==
    /\ pc[t] = "idle"
    /\ requests < MaxRequests
    /\ requests' = requests + 1
    /\ now' = [now EXCEPT ![t] = clock]
    /\ id' = [id EXCEPT ![t] = requests + 1]
    /\ Goto(t, "prune")
    /\ UNCHANGED <<clock, zset, expireAt, count, granted, torn>>

\* ZREMRANGEBYSCORE.  A set that becomes empty is gone, with its TTL.
Prune(t) ==
    /\ pc[t] = "prune"
    /\ zset' = {m \in zset : RedisKeeps(m.ts, now[t])}
    /\ expireAt' = IF zset' = {} THEN 0 ELSE expireAt
    /\ Goto(t, "add")
    /\ UNCHANGED <<clock, now, id, count, granted, requests, torn>>

\* The member that a call adds.
Request(t) == Entry(now[t], id[t])

AddWithoutId(t) ==
    /\ pc[t] = "add"
    /\ zset' = zset \cup {Entry(now[t], 0)}
    /\ Goto(t, "count")
    /\ UNCHANGED <<clock, expireAt, now, id, count, granted, requests, torn>>

AddUnderOneId(t) ==
    /\ pc[t] = "add"
    /\ zset' = zset \cup {Entry(now[t], 1)}
    /\ Goto(t, "count")
    /\ UNCHANGED <<clock, expireAt, now, id, count, granted, requests, torn>>

\* ZADD, of a member that no other request has.
Add(t) ==
    /\ pc[t] = "add"
    /\ zset' = zset \cup {Request(t)}
    /\ Goto(t, "count")
    /\ UNCHANGED <<clock, expireAt, now, id, count, granted, requests, torn>>

\* ZCARD.
Count(t) ==
    /\ pc[t] = "count"
    /\ count' = [count EXCEPT ![t] = Cardinality(zset)]
    /\ Goto(t, "expire")
    /\ UNCHANGED <<clock, zset, expireAt, now, id, granted, requests, torn>>

\* EXPIRE, which does nothing to a key that is not there, and the decision on
\* the count.
Expire(t) ==
    /\ pc[t] = "expire"
    /\ expireAt' = IF zset = {} THEN 0 ELSE clock + Window + Grace
    /\ granted' = IF Within(count[t]) THEN granted \cup {Request(t)} ELSE granted
    /\ Return(t)
    /\ UNCHANGED <<clock, zset, requests, torn>>

\* The call has its member in the set, and EXPIRE still to run.
Owes(t) == \E m \in zset : m.id = id[t]

\* The pipeline breaks off: what was executed stays.  The client library sends
\* it again, the same commands with the same id, or gives up, and then the
\* request is not decided here (see RateLimiter).
Break(t) ==
    /\ pc[t] # "idle"
    /\ \/ Goto(t, "prune") /\ UNCHANGED <<now, id, count, torn>>
       \/ Return(t) /\ torn' = (torn \/ Owes(t))
    /\ UNCHANGED <<clock, zset, expireAt, granted, requests>>

\* Time passes, and the key with it when its TTL is over.
Tick ==
    /\ clock < MaxClock
    /\ \A t \in Calls : pc[t] # "idle" => clock - now[t] < MaxDelay
    /\ clock' = clock + 1
    /\ IF expireAt # 0 /\ expireAt <= clock + 1
       THEN zset' = {} /\ expireAt' = 0
       ELSE UNCHANGED <<zset, expireAt>>
    /\ torn' = (torn \/ \E t \in Calls : Owes(t) /\ clock + 1 - now[t] > Grace)
    /\ UNCHANGED <<pc, now, id, count, granted, requests>>

\* The bounds are reached and every call has returned.
Finished ==
    /\ clock = MaxClock /\ requests = MaxRequests
    /\ \A t \in Calls : pc[t] = "idle"
    /\ UNCHANGED vars

Next ==
    \/ \E t \in Calls :
          \/ Arrive(t) \/ Prune(t) \/ Add(t) \/ Count(t) \/ Expire(t)
          \/ Break(t)
    \/ Tick
    \/ Finished

Spec == Init /\ [][Next]_vars

-----------------------------------------------------------------------------

\* However the commands of the calls interleave, in one replica or in several,
\* at most Limit requests are allowed in a window: Redis keeps the last
\* Window - 1 ticks, and a call's timestamp may be MaxDelay old.  The second
\* that EXPIRE adds keeps the key from expiring under a call that has added to
\* it and not yet renewed its TTL.  (A call that is given up at that point, or
\* takes longer than that second, leaves its request to the TTL of an older
\* one, and the window may be forgotten early.)
RateBound == ~torn => AtMostLimitIn(granted, Window - 1 - MaxDelay)
=============================================================================
