--------------------------- MODULE MemoryLimiter ---------------------------
(***************************************************************************)
(* memoryLimiter of internal/ratelimit/memory.go: the in-process window    *)
(* that limits requests while Redis is away.  A call reads the clock, then *)
(* waits for the mutex, for MaxDelay at most; the section under the mutex  *)
(* is one step.  A window is the set of its requests; in the code it is a  *)
(* slice of timestamps, of which only the length and the values count.     *)
(***************************************************************************)
EXTENDS SlidingWindow

CONSTANTS
    Keys,         \* rate-limit keys
    Calls,        \* concurrent calls of Allow
    MaxKeys,      \* hard cap on the keys tracked
    MaxDelay,     \* bound on the time between time.Now() and the mutex
    MaxClock,     \* bound on the clock
    MaxRequests   \* bound on the requests

ASSUME MemoryLimiterAssumption ==
    /\ Keys # {} /\ MaxKeys \in Nat \ {0}
    /\ MaxDelay \in 0..Window
    /\ MaxClock \in Nat /\ MaxRequests \in Nat

VARIABLES
    clock,
    keys,      \* the map from the tracked keys to their memoryWindow
    pc, key, now, id,  \* the calls: what is next, their locals, and the
               \* number of the request
    granted,   \* granted[k]: the requests allowed since k is tracked
    requests   \* the number of requests so far

vars == <<clock, keys, pc, key, now, id, granted, requests>>

Entries == [ts : 0..MaxClock, id : 1..MaxRequests]

MemoryWindow == [times : SUBSET Entries, lastTouch : 0..MaxClock]

TypeOK ==
    /\ clock \in 0..MaxClock
    /\ DOMAIN keys \subseteq Keys
    /\ \A k \in DOMAIN keys : keys[k] \in MemoryWindow /\ keys[k].times # {}
    /\ pc \in [Calls -> {"idle", "lock"}]
    /\ key \in [Calls -> Keys]
    /\ now \in [Calls -> 0..MaxClock]
    /\ id \in [Calls -> 0..MaxRequests]
    /\ granted \in [Keys -> SUBSET Entries]
    /\ requests \in 0..MaxRequests

Init ==
    /\ clock = 0
    /\ keys = << >>
    /\ pc = [t \in Calls |-> "idle"]
    /\ key = [t \in Calls |-> CHOOSE k \in Keys : TRUE]
    /\ now = [t \in Calls |-> 0]
    /\ id = [t \in Calls |-> 0]
    /\ granted = [k \in Keys |-> {}]
    /\ requests = 0

\* Allow reads the clock before it locks.
Arrive(t, k) ==
    /\ pc[t] = "idle"
    /\ requests < MaxRequests
    /\ requests' = requests + 1
    /\ pc' = [pc EXCEPT ![t] = "lock"]
    /\ key' = [key EXCEPT ![t] = k]
    /\ now' = [now EXCEPT ![t] = clock]
    /\ id' = [id EXCEPT ![t] = requests + 1]
    /\ UNCHANGED <<clock, keys, granted>>

\* evictOldest: a key that was touched least recently (the order of the map
\* decides between equals).
Oldest ==
    {k \in DOMAIN keys :
        \A l \in DOMAIN keys : keys[k].lastTouch <= keys[l].lastTouch}

NeedsRoomTooLate(k) ==
    k \notin DOMAIN keys /\ Cardinality(DOMAIN keys) > MaxKeys

NeedsRoom(k) == k \notin DOMAIN keys /\ Cardinality(DOMAIN keys) >= MaxKeys

\* The requests that survive the pruning.
Kept(k, at) ==
    IF k \in DOMAIN keys THEN {e \in keys[k].times : MemoryKeeps(e.ts, at)}
    ELSE {}

TouchedUnrecorded(k, e, victims) ==
    [l \in (DOMAIN keys \ victims) \cup {k} |->
        IF l = k THEN [times |-> Kept(k, e.ts), lastTouch |-> e.ts] ELSE keys[l]]

\* The windows once the victims are evicted and k has been touched.
Touched(k, e, victims) ==
    [l \in (DOMAIN keys \ victims) \cup {k} |->
        IF l = k THEN [times |-> Kept(k, e.ts) \cup {e}, lastTouch |-> e.ts]
                 ELSE keys[l]]

\* The section under the mutex.
Decide(t) ==
    LET k == key[t]
        e == Entry(now[t], id[t])
    IN  /\ pc[t] = "lock"
        /\ \E victims \in IF NeedsRoom(k) THEN {{v} : v \in Oldest} ELSE {{}} :
             /\ keys' = Touched(k, e, victims)
             /\ granted' = [l \in Keys |->
                    IF l = k /\ Within(Cardinality(keys'[k].times))
                    THEN granted[k] \cup {e}
                    ELSE IF l \in victims THEN {} ELSE granted[l]]
        /\ pc' = [pc EXCEPT ![t] = "idle"]
        /\ UNCHANGED <<clock, key, now, id, requests>>

\* Time passes; no call waits longer than MaxDelay.
Tick ==
    /\ clock < MaxClock
    /\ \A t \in Calls : pc[t] = "lock" => clock - now[t] < MaxDelay
    /\ clock' = clock + 1
    /\ UNCHANGED <<keys, pc, key, now, id, granted, requests>>

\* The bounds are reached and every call has returned.
Finished ==
    /\ clock = MaxClock /\ requests = MaxRequests
    /\ \A t \in Calls : pc[t] = "idle"
    /\ UNCHANGED vars

Next ==
    \/ \E t \in Calls : Decide(t) \/ \E k \in Keys : Arrive(t, k)
    \/ Tick
    \/ Finished

Spec == Init /\ [][Next]_vars

-----------------------------------------------------------------------------

\* The map never outgrows its cap, whatever keys the requests bring.
KeyCap == Cardinality(DOMAIN keys) <= MaxKeys

\* A key that stays tracked gets at most Limit requests in a window, less the
\* time a call may wait for the mutex with the clock already read.
RateBound == \A k \in Keys : AtMostLimitIn(granted[k], Window - MaxDelay)
=============================================================================
