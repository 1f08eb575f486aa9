--------------------------- MODULE SlidingWindow ---------------------------
(***************************************************************************)
(* What the two backends of the rate limiter have in common: a window of   *)
(* request timestamps, pruned before the new request is counted.  Every    *)
(* request is recorded, the rejected ones too.                             *)
(***************************************************************************)
EXTENDS Integers, FiniteSets

CONSTANTS
    Limit,   \* requests per window
    Window   \* its length, in ticks of the clock

ASSUME SlidingWindowAssumption ==
    /\ Limit \in Nat
    /\ Window \in Nat \ {0}

\* A request in a window: its timestamp, and an id that tells it from another
\* with the same timestamp.
Entry(ts, id) == [ts |-> ts, id |-> id]

\* memoryLimiter.Allow keeps ts >= windowStart.
MemoryKeeps(ts, now) == ts >= now - Window

\* ZREMRANGEBYSCORE 0 windowStart removes ts <= windowStart.
RedisKeeps(ts, now) == ts > now - Window

WithinOneMore(n) == n <= Limit + 1

\* The decision, on the count that includes the request.
Within(n) == n <= Limit

\* The entries whose timestamps lie between from and from + span.
EntriesIn(entries, from, span) ==
    {e \in entries : e.ts \in from..(from + span)}

\* No span of that length, wherever it starts, holds more than Limit of them.
\* (It is enough to start it at one of the timestamps.)
AtMostLimitIn(entries, span) ==
    \A e \in entries : Cardinality(EntriesIn(entries, e.ts, span)) <= Limit
=============================================================================
