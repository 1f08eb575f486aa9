# A TLA+ model of the SwayRider API gateway

This directory holds TLA+ modules that model the gateway's concurrent and
failure-prone parts, TLC configurations that check them on small instances,
and TLAPS proofs of the invariants, of the action properties and of the
refinement for every value of the constants. Paths such as `internal/queue/worker.go` are relative to `src/`.

    tlc -workers 2 -config job_faults.cfg MCJobQueue
    tlapm JobQueueProofs.tla

## 1. The system

The gateway is a Go process, run in one or more replicas behind a proxy. It
authenticates callers, limits their rate, and forwards work to backend services:
synchronously over gRPC (auth, region, autocomplete) or HTTP (tiles, web,
extension routes), and asynchronously for routes, reroutes and searches.

| Component | State | Operations | Interacts with |
|---|---|---|---|
| producer (`queue/stream.go`) | Redis streams and their consumer groups | `Bootstrap`, `Enqueue` | handlers, workers, through Redis |
| worker pools (`queue/worker.go`) | group cursor, pending list, results in Redis | `runWorker`, `processMessage` | streams, backends, `sw:result:*`, `sw:done:*` |
| SSE hub (`sse/hub.go`) | one subscription per request | `WaitForResult` | workers, through Redis |
| route, reroute, search handlers | one request each | `Route`, `Reroute`, `Search`, `Reverse` | producer, hub |
| limiter (`ratelimit/limiter.go`) | failure count, `degraded`, `lastProbe`; sorted sets in Redis | `Allow` | rate-limit middleware, Redis, fallback |
| fallback limiter (`ratelimit/memory.go`) | windows per key, capped | `Allow` | limiter |
| service token (`servicetoken/manager.go`) | token, expiry, stale flag | `Start`, refresh loop, `Token` | auth service; every downstream call |
| circuit breakers (`circuitbreaker/registry.go`) | one breaker per service | `Execute` | workers, autocomplete, extensions |
| middleware (`middleware/*.go`) | none of its own | `Auth`, `RateLimit`, `BodyLimitWith`, `Logging` | limiter, key cache |
| extension routes (`extension/extension.go`) | validated route set | `Validate`, `Match`, proxy handler | router, breakers, rate-limit classes |
| auth, admin, region handlers; proxies | cookies at the client | one forwarded call each | backends |
| server, main, config | process life cycle | `Run`, shutdown, start order | everything |

What is hard about it, and what makes each part correct:

- **Job path.** Three processes (handler, worker, Redis) with two channels for
  the same result (a key and a publication), commands that fail one by one,
  retries below the code, replicas that die at any point. Correct means: a
  handler gets its own job's result and no other; a job runs once; a crash
  cannot make a job take down replica after replica; every request is answered;
  every accepted job finishes; one pool never blocks another; depth is bounded.
- **Rate limiter.** Failure counting races with requests in flight; recovery is
  probed by the requests themselves, under the contexts of clients that may
  leave. Correct means: failing open is bounded, a lasting outage ends it, a
  lasting recovery ends degradation, and nothing but an outage brings it about.
- **Sliding windows.** Timestamps are taken before the lock or the pipeline; a
  pipeline is not a transaction; keys are evicted and expire. Correct means: no
  window holds more than the limit, as far as the clocks allow.
- **Service token.** Fetches time out and answer late, panic, fail for long.
  Correct means: the token is fresh unless an outage outlasts the margin, never
  goes back, a stall is reported, and a recovery is not missed.
- **Middleware, router, extensions.** Who calls, what is called and under which
  limits is found out in several places by different means: headers that clients
  and proxies both write, two ways to bring a token, a class table next to the
  route table, two matching algorithms. Correct means: they agree, and every
  request is charged to its true caller under the limits of the route serving it.
- **Breakers.** Shared by workers and handlers; results come back after the
  breaker has changed its state. Correct means: one probe at a time, a breaker
  opens on enough failures of its own service, and an outage that ends is
  noticed.
- **Sessions.** Refresh tokens are single-use, tabs refresh together, answers
  overtake each other and are lost. Correct means: the browser's two cookies
  belong together, a session survives a lost race, a logout ends it.

## 2. Modules

| Module | Models | Checked by | Proved in |
|---|---|---|---|
| `JobQueue` | producer, workers, hub, async handlers, replicas | `MCJobQueue` | `JobQueueProofs` |
| `JobService` | what the job path promises, without Redis | (refined by `JobQueue`) | |
| `JobRefinement` | the mapping from `JobQueue` to `JobService` | `MCJobQueue` | `JobQueueProofs` |
| `RateLimiter` | `Limiter`: degradation and recovery | `MCRateLimiter` | `RateLimiterProofs` |
| `SlidingWindow` | what both windows share: pruning, the decision | (used below) | |
| `MemoryLimiter` | `memoryLimiter` with eviction | `MCMemoryLimiter` | `MemoryLimiterProofs` |
| `RedisWindow` | the pipeline of `redisAllow`, command by command | `MCRedisWindow` | `RedisWindowProofs` |
| `ServiceToken` | `servicetoken.Manager` | itself | `ServiceTokenProofs` |
| `Gateway` | auth, rate-limit and body-limit middleware, router, extension routes | `MCGateway` | `GatewayProofs` |
| `CircuitBreaker` | the breaker registry and the calls through it | `MCCircuitBreaker` | `CircuitBreakerProofs` |
| `AuthSession` | the auth handlers, with a browser and the auth service | `MCAuthSession` | `AuthSessionProofs` |

Definitions named `...OffByOne`, `...Never`, `...Forgotten` and the like stand
before the definition they distort: each is a plausible slip in that code, and
putting it in place of the original makes a property fail. They are not part of
any specification. `PROJECT.json` pairs them with the properties, and maps
every definition to the source lines it stands for.

### JobQueue

Redis: `entries[s]` is a stream, to which XADD appends and from which nothing
is ever removed; `group[s]`, `cursor[s]` and `pel[s]` are its consumer group,
last delivered entry and pending list; `result[j]` is the key `sw:result:j`.
A handler goes through `check` (XLEN), `add` (XADD), `subscribe`, `get` and
`wait`, a worker through `read`, `process`, `store`, `publish` and `ack`; each
step is one Redis command, so everything interleaves between them. A client is
one handler slot and one user; users submit again and again.

Failures are actions: a command fails (`CheckDepthFails`, `AddJobFaulty`,
`GetResultFails`, `StoreResultFails`, `PublishFails`, `AckFails`), a reply is
lost (`ReadReplyLost`; `AddJobFaulty` also covers the retry that adds an entry
twice), creating a group fails (`Start`), a result expires early (`Expire`), a
replica is killed (`Crash`) or a ProcessFn panics (`Panic`: the deferred XACK
runs, then the process dies). `MaxFaults` bounds how many happen in a
behaviour. Client disconnects are not counted.

The client library sends SUBSCRIBE on a connection of its own and does not wait
for the confirmation, so `Subscribe` and `SubscribeArrives` are two steps and the
GET may come between them. `missed` is a history variable: the handlers whose
job was published while their SUBSCRIBE was under way. `OneWakeupGap` says that
this is the protocol's only gap; `NoLostWakeup`, that there is none, fails
(`bad_wakeup`).

Abstracted: payloads, event texts, gRPC codes (success or failure only), the
queue position in the `queued` event, consumer names. A job id is a number in
place of a UUID, and never repeats.

### JobService and JobRefinement

`JobService` is the abstract specification: one first-in, first-out backlog for
each stream, workers that begin a job at most once, clients that get a result
computed for their own job or the reason why there is none, and failures that
may drop, double or forget. It has no cursor, pending list, result key, inbox or
subscription. `JobRefinement` maps the backlog to the part of a stream behind the
group's cursor, a running job to the entry a worker has read and not
acknowledged, and the known results to those in a worker's hands, in Redis or in
an inbox. `RefinesJobService` is then a property of `job_faults`: every step of
handlers, workers, Redis and failures is a step of the service or changes
nothing in it. A request that was turned away at the depth check has left no job
behind; a client that was told of an error may have (`Accept`).

### RateLimiter

The sections of `Allow` under the mutex are single steps; `pc` tells where a
call is between them. `sinceProbe` is the age of `lastProbe`, up to the
interval. Redis may change at any time whether it executes pipelines
(`pipeUp`) and whether it answers PING (`pingUp`), independently: a read-only
or full Redis answers PING. Pipeline and PING run under the request's context:
`gone` are the calls whose clients have left (`Leave`), and for those both may
fail whatever Redis does, the pipeline counted as a failure and the probe spent.
`opens` is a history variable for a property. What a window decides is left to
the next modules.

`Recovers` asks that clients stay as well as Redis: a success resets nothing, so
clients that keep leaving degrade the limiter again and again while Redis is
well. A property that only an outage degrades it does not hold of the code.

### SlidingWindow, MemoryLimiter, RedisWindow

Time is a clock of ticks. A call takes its timestamp first and acts on it up to
`MaxDelay` ticks later. In `RedisWindow` the commands of a pipeline are
separate steps; a sorted set that becomes empty vanishes with its TTL, EXPIRE
on a missing key does nothing, and a pipeline may break off and be sent again.
The client's timeouts (`cmd/swayrider-api/main.go`: 2 s to dial, 1 s to write, 1 s
to read, one retry) let a call take several times the second (`Grace`) that EXPIRE
adds to the window, so nothing relates `MaxDelay` to `Grace`. Where that second is
not enough, `torn` becomes true: a call with its member in the set was given up,
or grew older than `Grace`, before its EXPIRE ran.
A window is a set of requests, each with its timestamp and an id: in Redis the
members of the sorted set; in `memory.go` a slice of timestamps, of which only
the length and the values matter. `granted` records the requests allowed.

### ServiceToken

The expiry and the timers are kept relative to the present, so that no clock
grows and liveness can be checked without a bound on time. `late` holds the
calls that were abandoned and may still answer. Timers are taken to fire when
they are due.

### Gateway

One request after another, each with the proxies it passes on its way: `Send`
is the client, `Forward` a proxy that appends the peer it sees to
`X-Forwarded-For`, `Serve` the whole chain auth, rateLimit, bodyLimit, mux,
guard. A request shares nothing with others but the limiter's count, which one
atomic `Allow` reads and raises, so requests need no interleaving here; the
limiter is a bag of keys within one window (its own modules say how far that is
true). `Start` loads one of several route files and refuses to start on an
invalid one. The router (`Dispatch`) is `net/http`'s and external.

`Account` says who asks for what without the gateway's means: by the address the
request really came from, the user of the verified token, and the class that
`API.md` gives the endpoint that its decoded path names (`Asked`). `BudgetIsOwn` compares the limiter's
decisions with a count kept by these names, and so checks `ClientIP`, `Token`,
`EndpointClass` and `Match` together.

A path is the sequence of its decoded segments, and `escaped` holds the segments
that are set off by an escaped slash. `Match` and the class table compare decoded
paths and do not see it; the router splits at the slashes that are written as such,
so an escaped slash keeps it from every pattern that spells out that segment
(`Handles`). So the two may choose different routes, and do for an escaped slash
in the path of a route nested in another, and for HEAD, which the router serves with
GET patterns. `LimitsOfTheRoute` says which limits apply, and how far an escaped
slash can lead: from a route to a tree around it. It excepts HEAD. A body limit of zero or less is no limit
(`BodyLimit`, `Outcome`).

Abstracted: unclean paths, which the router redirects; the route table has one
endpoint of each kind, and a rate-limit key is a record in place of a formatted
string. The refresh cookie
is in `AuthSession`, the breaker around an upstream in `CircuitBreaker`; what
handlers and upstreams answer is left out.

### CircuitBreaker

`cb[b]` is the breaker of a name, with the counts of its present generation.
`Execute` takes the library's mutex before and after the call, so a call is two
steps, `Begin` (or `TurnAway`) and `End`, and calls of many callers overlap. The
library ignores the result of a call from an earlier generation; only equality
of generations matters, so a call in flight is `current` or `stale` and nothing
grows. The library looks at its clock only when a call begins or ends
(`Current`); `Elapse` lets the interval or the timeout run out. `Outcomes` tells
apart what the code treats differently: for gRPC every error counts, a client
that left or a request that was rejected included; for an extension a status of
502 or more. A worker's panic restarts the process with new breakers. The
breaker's state machine is external (`sony/gobreaker`); `ReadyToTrip`,
`MaxRequests`, `Fails` and the callers are this repository's.

The model is not composed with `JobQueue`: there, `Process` may fail or succeed
at any time, which is what a breaker adds to a call.

### AuthSession

One account, one browser, several tabs. `Send` takes the cookies that the jar
holds for the path, a handler with its call to the auth service is one step
(`Login`, `MfaVerify`, `Refresh`, `Logout`, ...), and the answer takes effect
when it arrives (`Arrive`) or never (`Lose`). `jar` is indexed by cookie name and
path, as browsers do, so that setting and clearing under different paths would
show. Pairs of tokens are numbered; `family` says which login a pair descends
from. The auth service is external: a refresh token can be used once, a logout
revokes it, a new password may revoke all. `ended` is a history variable: the
sessions that were revoked, or whose newest pair was lost on its way.

Abstracted: request bodies but for the refresh token, `remember_me`, status
codes, cookie attributes other than name and path. Operations that pass one call
on and touch no cookie are one action (`Forward`).

## 3. Runs that pass

| Run | Instance | What it shows |
|---|---|---|
| `job_faults` | 2 handlers in one replica, 2 workers of one stream in another, symmetric; depth 1, 3 jobs, 1 failure | `TypeOK`, `DepthBound`, `ExclusiveEntry`, `OwnResult`, `PoisonJobOnce`, `RefinesJobService` |
| `job_live` | 1 handler, 2 streams with one worker each; 3 jobs, 1 failure | `OneWakeupGap`, `StreamsKeptApart`, `HandlersReturn` |
| `limiter` | 3 calls whose clients may leave, default threshold, memory mode | `TypeOK`, `FailOpenBound`, `OutageCloses`, `Recovers` |
| `memory_window` | 2 keys, cap 1, 2 calls, 5 requests | `TypeOK`, `KeyCap`, `RateBound` |
| `redis_window` | 2 calls, limit 1, 4 requests, symmetric; timestamps up to 2 ticks old, `Grace` 1 | `TypeOK`, `RateBound` |
| `token` | margin for two attempts, one panic | `TypeOK`, `FreshUnlessOutage`, `StallIsVisible`, `ExpiryMonotone`, `TokenRecovers` |
| `gateway` | 2 clients, 2 proxies, 4 tokens, 8 route files, 136 requests, 3 of them in a row | `TypeOK`, `BuiltInsStay`, `LimitsOfTheRoute`, `BudgetIsOwn` |
| `breaker` | a worker and an autocomplete handler share a breaker, an extension has its own; trips after 2 in a row or half of 3; 4 calls in an interval | `TypeOK`, `ProbeAlone`, `OpensOnPattern`, `Recovers` |
| `session` | 2 tabs, symmetric; 4 pairs of tokens | `TypeOK`, `CookiesPaired`, `SessionKept`, `LogoutClears` |

Why the bounds are enough: with depth 1 and three job ids both handlers can be
between check and add at once, overshoot, be refused, and submit again, and two
workers can race for entries of one stream, and either replica can die while
the other goes on; one failure reaches every failure action, and the proofs
cover any number. In `job_live` a worker that hangs stands for every further
failure a handler could meet, and there are as many job ids as entries and one
failed XADD can use up, so that the bound never stops a handler. Three calls in `limiter` put two calls
in flight while the third degrades the limiter. In the window models the clock
runs past two windows and there are more requests than a window allows. In
`gateway` every budget is one or two, so three requests use one up by two
different ways and then ask once more. In `breaker` the four calls of an interval
meet both conditions of `ReadyToTrip`, singly and together, with calls from
before the last change of state still in flight; the two callers of one breaker
are of the two kinds that see errors differently. In `session` four pairs are two
logins and two refreshes, or a login and three refreshes, of two tabs that race.

In `redis_window` a call can be older than the second that EXPIRE adds. The
exception that `RateBound` makes of such calls (`torn`) is needed: without it TLC
finds the key expiring between the ZADD and the ZCARD of two calls, both of which
are then allowed.

## 4. Runs that show a disagreement

Each checks what a document or comment says of the code and finds a behaviour
of the code that refutes it; `PROJECT.json` quotes the lines.

| Run | Said | Found |
|---|---|---|
| `bad_full` | the limit is on pending messages | XLEN counts every job ever added: after `maxDepth` jobs the stream is full for ever |
| `bad_wakeup` | subscribing before the GET closes the gap | the subscription is not confirmed: a result in between is lost |
| `bad_logout` | logout invalidates the refresh token of the cookie, no body needed | the cookie's path is the refresh endpoint's, so the logout gets no token and invalidates none |

Met while modelling, and stated by no run: any error while creating a consumer
group is ignored, and jobs are then accepted and never read until a restart; a
success does not reset the limiter's count of "consecutive" failures
(`limiter.go:141`, `README.md:137`); pipeline and probe run under the request's
context, so clients that leave count as failures of Redis, and in deny mode others
are then denied although Redis answers (`limiter.go:22,138,190`); the depth limit is applied to each stream and not to all of them combined; a failed job arrives as the event
`result` with `success: false`, where `API.md` reserves `result` for success; in
deny mode a call that was in flight while the limiter degraded is let through
(`FailOpenBound` counts it); the fallback keeps an entry exactly one window old
that the Redis pipeline removes; and a call that waited for the fallback's mutex
prunes with an old clock, which is why `RateBound` speaks of `Window - MaxDelay`.

Of extension routes: `Match` is said to return "the route that serves r"
(`extension.go:232`), but a HEAD request is served by the route's GET pattern and
counted and limited as a general request, since `hasMethod` compares exactly; and
with nested routes, as in the model's `/api/v1/fuel/` and
`/api/v1/fuel/prices/today`, a path whose inner slash is escaped passes under the
limits of the inner route and is served by the outer (`Account` and
`LimitsOfTheRoute` speak of both).

Of the breakers: they also open on a ratio of failures, where `README.md` names
five consecutive ones only; an autocomplete that its client cancels, and any gRPC
error such as a missing result, counts against the service, and so does a client
that leaves an extension's request, which is answered 502 (`README.md:188` speaks of
upstream failures); an extension named like a built-in service shares its breaker
(`README.md:17`: "one per downstream service"); and a worker's probe has no deadline in this code, so that a probe that hangs
leaves the breaker half-open. Of sessions: the answer of a refresh that was
served before a logout and arrives after it brings the cookies back.

## 5. Fairness

- `JobQueue!LiveSpec`: weak fairness of each handler's own steps (goroutines
  run, the 30 s timer fires) and of `Start` (the container runtime restarts the
  process). Nothing is assumed of workers: `StreamsKeptApart` says of each stream
  "if its own workers keep running" itself, so that all others may hang. Not of
  submissions, failures, crashes or disconnects either.
- `RateLimiter!LiveSpec`: calls proceed, requests keep coming, time passes.
  Nothing is assumed of Redis or of clients; the properties say "if it stays away",
  "if it stays reachable" and "if clients wait for their answers" themselves.
- `ServiceToken!LiveSpec`: timers fire (weak), and an auth service that is asked
  again and again answers in time at last (strong fairness of `FetchOk`).
- `CircuitBreaker!LiveSpec`: time passes (`Elapse`), callers call again (`Begin`)
  and calls return (`End`, with any outcome). An extension's call has a deadline
  and an autocomplete's ends with its client; of a worker's it is an assumption
  on the service. That calls succeed is not assumed: `Recovers` says "once all
  calls succeed".

`CHECK_DEADLOCK` is never switched off: bounded models that come to an end do so
in an explicit step.

## 6. Proofs

Every invariant and action property of the passing runs is proved for all values
of the constants. The assumptions are the named `ASSUME`s of the
modules, which TLC evaluates on every run; a hypothesis beyond them is part of
the theorem. The inductive invariants were checked with TLC on the instances of
section 3 before they were proved.

**JobQueue** (`JobQueueProofs`; any streams, workers and replicas, any finite set
of handlers, any depth limit and number of jobs and failures).

- `TypeCorrect`. `TypeOK` is not inductive: `GetResult` reads `result[job[c]]`,
  and a worker reads the fields of the entry it holds. `TypeInv` adds that a
  handler past `AddJob` has a job id (`HandlerHasJob`) and that a busy worker
  holds a delivered entry (`HoldsDelivered`).
- `DepthIsBounded`. `DepthBound` counts the handlers between check and add
  (`Adding`) together with the entries and is inductive over `TypeInv`: the
  check passes only below the limit, an add trades a member of `Adding` for an
  entry, and an entry doubled by a retry is paid for by a failure.
- `EntriesAreExclusive`. `EntryInv` adds to `ExclusiveEntry` that pending
  entries have been delivered (`PelDelivered`), so that the next entry is new.
- `PoisonJobsRunOnce`, an action property, from the same invariant.
- `ResultsAreOwn`. `OwnInv` follows the pair of job and submitter from the XADD
  through the entry (`EntriesOwned`), the stored result (`ResultsOwned`) and the
  inbox (`InboxesOwned`) to the answer. `HandlerStages` says what a handler has at
  each step, in particular that no subscription or message outlives its request.
- `WakeupsArrive`, for `OneWakeupGap`. `WakeInv`: while nothing has failed, Redis
  has the result of a stored job until its submitter has made its GET, and from
  then on that of a published one is in the inbox, or the publication met a
  SUBSCRIBE still under way.

**The refinement** (`JobQueueProofs`, last part). `JobPathImplementsService`: the initial
states map to initial states, and each action of a handler, a worker, Redis or
the environment to a step of `JobService` or a stutter. It needs `RefInv`: the
types, `OwnInv` (a result delivered is a result known) and that the workers of a
replica that is down are down (`WorkersDown`: a restart forgets nothing that is
running). Most of the lemmas say how `Backlog`, `Running` and `Known` change with
the variables they are made of.

**RateLimiter** (`RateLimiterProofs`; any finite non-empty set of calls, any
options). `TypeCorrect`, and `FailOpenIsBounded` through `OpensInv`: before the
limiter degrades, the open requests equal the failures counted; afterwards each
call still in flight can add one.

**MemoryLimiter** (`MemoryLimiterProofs`). `TypeCorrect`, `KeysAreCapped`,
`FallbackKeepsLimit`, from `MemoryInv`. `Remembered` is its heart: a grant of the
last `Window` ticks is still in its key's window, since every pruning so far used
a clock no later than the present one. A call whose timestamp is `MaxDelay` old
therefore counts everything granted within `Window - MaxDelay` before it.

**RedisWindow** (`RedisWindowProofs`). `TypeCorrect` and `SharedWindowKeepsLimit`,
from `RedisInv`. A request granted while another has counted and not yet decided
is the difficulty: the invariant therefore speaks of `Winners`, the requests
granted and those that have counted few enough, and the limit is shown when a
call counts (`CountKeeps`). `Remembered` says that recent winners are in the set.
That the key does not expire under them takes three more parts: the set a call
adds to was pruned (`Pruned`), the TTL outlives all members whose EXPIRE has run
(`Renewed`), and the time limit of one of the calls whose EXPIRE has not
(`Guarded`; not of each of them: a call may prune the member whose TTL it lives
on while an older call is still to renew it). The last three fail once a call is
given up, or slower than `Grace`, between ZADD and EXPIRE, which is why `RateBound`
excepts it (`torn`). Nothing is assumed of `Grace` and `MaxDelay` together.

**ServiceToken** (`ServiceTokenProofs`). `TokenInv` bounds what is left of the token
when the timer is due, in each state of the loop: by the margin less what
failures and panics have taken (`MarginKept`, for `MarginCoversOutage`), and,
while nothing was reported, by the silence allowed (`SilenceKept`, for
`StallsAreReported`). `AttemptsTimely` says that the token an attempt may replace
is no younger than the attempt, from which `ExpiryNeverMovesBack` follows.
`TypeCorrect` and `ReportsStayApart` (the reports of one stale episode are an hour
apart) come with it.

**CircuitBreaker** (`CircuitBreakerProofs`). `GenerationInv`: the calls in flight of
the present generation and the failures already counted are no more than the
requests of that generation (`Counted`), of which a half-open breaker admits
`MaxRequests` and an open one none (`Guarded`). `TypeCorrect` and `ProbesAreAlone`
follow. `OpensForCause` adds that failures counted are
failures since the breaker closed (`StrikesInv`), and the arithmetic of the ratio.

**AuthSession** (`AuthSessionProofs`; any number of tabs and tokens). `SessionInv`:
the token the browser remembers is the one in its jar under both names
(`HeldInJar`), answers and requests carry issued tokens (`AnswersHonest`,
`RequestsKnown`), and a pair on its way to the browser is on its way once, seen by
nobody, and usable unless its session has ended (`OnTheWay`), so that a race for
the old token cannot consume the new one. `TypeCorrect`, `PairsStayTogether`,
`RefreshRaceKeepsSession`, and the action property `LogoutLeavesNothing`.

**Gateway** (`GatewayProofs`; any clients, proxies, tokens, route files, paths and
limits, any header, any number of proxies on the way). The assumptions are that
no client has the address of a trusted proxy, that the proxies on the way are
trusted (one that is not trusted is itself the client), that a user's id is no
address, and that `None` is none of the values it stands beside. `GatewayInv` has
four parts.

- `StartInv`: a gateway that serves has a file that passed `Validate`, and has
  counted nothing before. All facts about patterns need it.
- `WayInv`: the peer is the client itself, or it is a trusted proxy, and what
  follows the client's address in the header are trusted proxies (`Traced`). It holds
  again after each proxy (`ForwardTraced`), whatever the client wrote, and gives
  `ClientIP(m) = m.from` at the gateway (`TrueAddress`).
- `CountInv`: `AccountOf` maps the limiter's keys onto the accounts asked for,
  count for count. It is what makes a decision on a key one on an account.
- `LastInv`: the report of the last request is what the chain made of it.

Of two patterns for one path and method the wider is unique (`WidthDecides`), so
the `CHOOSE`s of `Dispatch` and `Match` have one answer each, and one exists
(`WidestExists`, since widths that match are bounded by the path). A path that
`ValidPath` lets through, and so every path under it, begins with `/api/v1/` and a
word that no built-in path has there (`ValidPathIsFree`, `ExtensionMatchesFree`,
`BuiltInMatch`); hence no request matches both kinds (`DispatchStays`), and
`Clashes` finds nothing in a validated file (`ValidFilesRegister`). For what
is left, `Match` finds the route that the router would run if no slash were escaped
(`MatchServes`, on `Asked`), and the key of a request is that of its account (`Charged`, by extension or by class). From these follow
`GatewayTypes`, `BuiltInsAreSafe`, `LimitsAreTheRoutes` and the action property
`BudgetsAreOwn`. For `LimitsAreTheRoutes`, `EscapesLeadOut` compares the route that
the router runs with the one it would run without escapes: both are of the
request's method and match its decoded path, so they are the same or the first is
narrower, and then it is a tree.

The route table in these theorems is the model's, with one endpoint of each kind,
and `RouteLike` stands for the words that begin with `route`.

**Only model-checked.**

- Liveness: `StreamsKeptApart`, `HandlersReturn`, `OutageCloses`, both `Recovers`,
  `TokenRecovers`. Reasoning about fairness needs ENABLED, which the prover does
  not have.

## 7. Plan

The model is complete as far as section 8 allows, and every safety property of
the passing runs is proved. A change of the code is followed in the module first, then
by its run, and then by its proof module; the lemmas named in section 6 are the
places where a change of the protocol shows. What would be worth adding: the
complete route table in `Gateway`, from `routes.go`, once the kinds of its
endpoints no longer stand for all of them.

## 8. Not modelled

- Admin and region handlers: each forwards one gRPC call and keeps no state.
- Tiles and web proxies: they rewrite headers and keep no state. Health and
  OpenAPI: constant answers.
- The validation of a reroute: bounds on coordinates and a haversine distance, in
  floating point; it decides between 400 and a job, and `Submit` has both.
- In the asynchronous handlers, the second XLEN, which only gives the `queued` event
  its position and whose error is ignored, and the exit "streaming not supported":
  every `ResponseWriter` of this chain can flush.
- Conversions between protobuf and JSON, logging, environment variables.
- The Secure flag and other cookie attributes, JWT verification and the key cache:
  in a library outside the repository.
- A loss of Redis' data: it would lose every job, and the gateway has nothing
  against it.

`PROJECT.json` lists every component with its status.
