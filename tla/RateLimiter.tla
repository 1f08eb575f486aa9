---------------------------- MODULE RateLimiter ----------------------------
(***************************************************************************)
(* Limiter of internal/ratelimit/limiter.go: a limiter backed by Redis     *)
(* that counts failures, degrades to an in-process window (or to denying   *)
(* everything) and probes Redis for recovery.  A call is one goroutine     *)
(* inside Allow; the sections under the mutex are single steps, and calls  *)
(* interleave between them.  The window that Redis or the fallback applies *)
(* is abstracted to the fact that it was the one to decide.                *)
(*                                                                         *)
(* Pipeline and PING run in the context of the request (RateLimit passes   *)
(* r.Context()), so they also fail when the client has left, whether Redis *)
(* is well or not, and the limiter cannot tell the two apart.              *)
(***************************************************************************)
EXTENDS Integers, FiniteSets

CONSTANTS
    Calls,             \* concurrent calls of Allow
    DegradeMode,       \* Options.DegradeMode
    DegradeThreshold,  \* Options.DegradeThreshold
    ProbeInterval      \* Options.ProbeInterval, in ticks

ASSUME RateLimiterAssumption ==
    /\ IsFiniteSet(Calls) /\ Calls # {}
    /\ DegradeThreshold \in Int
    /\ ProbeInterval \in Int

\* newLimiter: the defaults for options that are not set.
mode      == IF DegradeMode = "deny" THEN "deny" ELSE "memory"
threshold == IF DegradeThreshold <= 0 THEN 3 ELSE DegradeThreshold
interval  == IF ProbeInterval <= 0 THEN 15 ELSE ProbeInterval

VARIABLES
    consecutiveFailures, degraded,  \* as in the source, under the mutex
    sinceProbe,  \* time since lastProbe, up to the interval
    pc,          \* what a call does next
    ret,         \* what decided the call's last request
    pipeUp,      \* does Redis execute the pipeline?
    pingUp,      \* does Redis answer PING?
    gone,        \* the calls whose client has left: their context is done
    opens        \* requests let through undecided since the last recovery

limiterVars == <<consecutiveFailures, degraded, sinceProbe>>
redisState  == <<pipeUp, pingUp>>
vars == <<limiterVars, pc, ret, redisState, gone, opens>>

CallPCs   == {"idle", "redis", "error", "probe", "ping", "recover", "local"}
Decisions == {"none", "redis", "open", "memory", "denied"}

\* The types; a counter below the threshold (it is reset when it reaches it),
\* and no context but that of a call.
TypeOK ==
    /\ consecutiveFailures \in 0..(threshold - 1)
    /\ degraded \in BOOLEAN
    /\ sinceProbe \in 0..interval
    /\ pc \in [Calls -> CallPCs]
    /\ ret \in [Calls -> Decisions]
    /\ pipeUp \in BOOLEAN
    /\ pingUp \in BOOLEAN
    /\ gone \subseteq {t \in Calls : pc[t] # "idle"}
    /\ opens \in Nat

\* A new limiter: lastProbe is the zero time, so the first probe is due.
Init ==
    /\ consecutiveFailures = 0
    /\ degraded = FALSE
    /\ sinceProbe = interval
    /\ pc = [t \in Calls |-> "idle"]
    /\ ret = [t \in Calls |-> "none"]
    /\ pipeUp \in BOOLEAN
    /\ pingUp \in BOOLEAN
    /\ gone = {}
    /\ opens = 0

Goto(t, label) == pc' = [pc EXCEPT ![t] = label]

Return(t, decision) ==
    /\ pc' = [pc EXCEPT ![t] = "idle"]
    /\ ret' = [ret EXCEPT ![t] = decision]
    /\ gone' = gone \ {t}

\* Allow reads degraded under the mutex and acts on it afterwards.
Allow(t) ==
    /\ pc[t] = "idle"
    /\ ret' = [ret EXCEPT ![t] = "none"]
    /\ Goto(t, IF degraded THEN "probe" ELSE "redis")
    /\ UNCHANGED <<limiterVars, redisState, gone, opens>>

\* redisAllow: the pipeline succeeds and its count decides.  The failure
\* counter is left as it is.
RedisAllows(t) ==
    /\ pc[t] = "redis"
    /\ pipeUp /\ t \notin gone
    /\ Return(t, "redis")
    /\ UNCHANGED <<limiterVars, redisState, opens>>

\* Exec fails, because of Redis or because of the client.
RedisFails(t) ==
    /\ pc[t] = "redis"
    /\ ~pipeUp \/ t \in gone
    /\ Goto(t, "error")
    /\ UNCHANGED <<limiterVars, ret, redisState, gone, opens>>

ReachesThreshold(n) == n >= threshold

OnRedisErrorKeepingCount(t) ==
    LET n == consecutiveFailures + 1 IN
    /\ pc[t] = "error"
    /\ consecutiveFailures' = n
    /\ IF ReachesThreshold(n)
       THEN degraded' = TRUE /\ Goto(t, "probe") /\ UNCHANGED <<ret, gone, opens>>
       ELSE Return(t, "open") /\ opens' = opens + 1 /\ UNCHANGED degraded
    /\ UNCHANGED <<sinceProbe, redisState>>

OnRedisErrorNotDegrading(t) ==
    LET n == consecutiveFailures + 1 IN
    /\ pc[t] = "error"
    /\ IF ReachesThreshold(n)
       THEN /\ consecutiveFailures' = 0
            /\ Goto(t, "probe")
            /\ UNCHANGED <<ret, gone, opens>>
       ELSE consecutiveFailures' = n /\ Return(t, "open") /\ opens' = opens + 1
    /\ UNCHANGED <<degraded, sinceProbe, redisState>>

\* onRedisError: one more failure; below the threshold the request is let
\* through, at the threshold the limiter degrades.
OnRedisError(t) ==
    LET n == consecutiveFailures + 1 IN
    /\ pc[t] = "error"
    /\ IF ReachesThreshold(n)
       THEN /\ degraded' = TRUE
            /\ consecutiveFailures' = 0
            /\ Goto(t, "probe")
            /\ UNCHANGED <<ret, gone, opens>>
       ELSE /\ consecutiveFailures' = n
            /\ Return(t, "open")
            /\ opens' = opens + 1
            /\ UNCHANGED degraded
    /\ UNCHANGED <<sinceProbe, redisState>>

TryProbeRestarting(t) ==
    /\ pc[t] = "probe"
    /\ sinceProbe' = 0
    /\ Goto(t, IF sinceProbe < interval THEN "local" ELSE "ping")
    /\ UNCHANGED <<consecutiveFailures, degraded, ret, redisState, gone, opens>>

\* tryProbe, first section: at most one probe per interval.
TryProbe(t) ==
    /\ pc[t] = "probe"
    /\ IF sinceProbe < interval
       THEN Goto(t, "local") /\ UNCHANGED sinceProbe
       ELSE Goto(t, "ping") /\ sinceProbe' = 0
    /\ UNCHANGED <<consecutiveFailures, degraded, ret, redisState, gone, opens>>

PingErrorIgnored(t) ==
    /\ pc[t] = "ping"
    /\ Goto(t, "recover")
    /\ UNCHANGED <<limiterVars, ret, redisState, gone, opens>>

\* The PING runs outside the mutex.  One that fails is spent, whether it was
\* Redis or the client that was not there.
Ping(t) ==
    /\ pc[t] = "ping"
    /\ Goto(t, IF pingUp /\ t \notin gone THEN "recover" ELSE "local")
    /\ UNCHANGED <<limiterVars, ret, redisState, gone, opens>>

\* tryProbe, second section; the request is then decided by Redis after all.
Recover(t) ==
    /\ pc[t] = "recover"
    /\ degraded' = FALSE
    /\ consecutiveFailures' = 0
    /\ opens' = 0
    /\ Goto(t, "redis")
    /\ UNCHANGED <<sinceProbe, ret, redisState, gone>>

\* degradedAllow without a recovery: deny, or the in-process window.
Degraded(t) ==
    /\ pc[t] = "local"
    /\ Return(t, IF mode = "deny" THEN "denied" ELSE "memory")
    /\ UNCHANGED <<limiterVars, redisState, opens>>

Tick ==
    /\ sinceProbe < interval
    /\ sinceProbe' = sinceProbe + 1
    /\ UNCHANGED <<consecutiveFailures, degraded, pc, ret, redisState, gone,
                   opens>>

\* Redis goes away, comes back, or answers PING but refuses to write.
RedisChanges ==
    /\ pipeUp' \in BOOLEAN
    /\ pingUp' \in BOOLEAN
    /\ redisState' # redisState
    /\ UNCHANGED <<limiterVars, pc, ret, gone, opens>>

\* A client closes its connection, and net/http cancels the request's context.
Leave(t) ==
    /\ pc[t] # "idle"
    /\ gone' = gone \cup {t}
    /\ UNCHANGED <<limiterVars, pc, ret, redisState, opens>>

CallStep(t) ==
    \/ Allow(t) \/ RedisAllows(t) \/ RedisFails(t) \/ OnRedisError(t)
    \/ TryProbe(t) \/ Ping(t) \/ Recover(t) \/ Degraded(t)

Next ==
    \/ \E t \in Calls : CallStep(t) \/ Leave(t)
    \/ Tick
    \/ RedisChanges

Spec == Init /\ [][Next]_vars

\* Requests keep coming, every call runs on, and time passes; nothing is
\* assumed of Redis or of the clients.
LiveSpec ==
    /\ Spec
    /\ \A t \in Calls : WF_vars(CallStep(t))
    /\ WF_vars(Tick)

-----------------------------------------------------------------------------

\* Calls that may still fail although the limiter has degraded meanwhile.
InFlight == {t \in Calls : pc[t] \in {"redis", "error"}}

\* "It never fails open indefinitely": between two recoveries the requests let
\* through undecided are fewer than the threshold, plus one for each other
\* call that was on its way to Redis when the limiter degraded.
FailOpenBound == opens <= threshold + Cardinality(Calls) - 2

\* Once Redis stays away, there is a last request that is let through
\* undecided.
OutageCloses ==
    <>[](~pipeUp /\ ~pingUp) =>
        <>[][\A t \in Calls : ret'[t] = "open" => ret[t] = "open"]_vars

\* Once Redis stays reachable and clients wait for their answers, the limiter
\* leaves the degraded mode for good: no probe is starved, and no call that
\* was on its way shuts it again.  (Clients that leave spend probes and count
\* as failures of Redis, and no success resets the count: while they keep
\* leaving, the limiter degrades again and again although Redis is well.)
Recovers == <>[](pipeUp /\ pingUp /\ gone = {}) => <>[](~degraded)
=============================================================================
