------------------------------ MODULE JobQueue ------------------------------
(***************************************************************************)
(* The asynchronous job path of the gateway: an HTTP handler enqueues a    *)
(* job on a Redis stream (internal/queue/stream.go), a worker of that      *)
(* stream's pool runs it and stores and publishes the result               *)
(* (internal/queue/worker.go), and the handler waits for the result and    *)
(* answers as Server-Sent Events (internal/sse/hub.go).                    *)
(*                                                                         *)
(* A client is one handler slot: it serves one request after another for   *)
(* one authenticated user, so the client also stands for the user.  The    *)
(* handlers and the workers run in gateway replicas; a replica that        *)
(* crashes takes its handlers and its workers with it.  Redis is external  *)
(* and survives.  MaxFaults bounds, over a whole behaviour, how often      *)
(* Redis fails a command, a result expires early, or a replica dies.       *)
(***************************************************************************)
EXTENDS Naturals, Sequences, FiniteSets

CONSTANTS
    Streams,          \* sw:jobs:routing, sw:jobs:search, sw:jobs:rerouting
    Clients,          \* concurrent request handlers, one user each
    Workers,          \* worker goroutines
    Replicas,         \* gateway processes
    PoolOf,           \* the stream a worker drains
    HostOf,           \* the replica a handler or a worker runs in
    MaxDepth,         \* the producer's depth limit for each stream
    MaxJobs,          \* bound on the job ids handed out
    MaxFaults,        \* bound on the failures of the environment
    None

ASSUME JobQueueAssumption ==
    /\ Streams # {}
    /\ PoolOf \in [Workers -> Streams]
    /\ HostOf \in [Clients \cup Workers -> Replicas]
    /\ MaxDepth \in [Streams -> Nat \ {0}]
    /\ IsFiniteSet(Clients)
    /\ MaxJobs \in Nat
    /\ MaxFaults \in Nat

JobIDs == 1..MaxJobs

\* A stream entry carries the job's id and its submitter (queue.Job).
Entry == [job : JobIDs, user : Clients]

\* queue.StoredResult: the owner, and the outcome of the job it was made for.
StoredResult == [job : JobIDs, user : Clients, success : BOOLEAN]

ASSUME NoneAssumption == None \notin StoredResult \cup Entry

VARIABLES
    (* Redis *)
    entries,   \* entries[s]: everything ever added to the stream s
    group,     \* group[s]: does the consumer group "workers" exist on s?
    cursor,    \* cursor[s]: the group's last delivered entry
    pel,       \* pel[s]: entries delivered and not yet acknowledged
    result,    \* result[j]: the key sw:result:j, None when it does not exist
    (* handlers *)
    pc,        \* what a handler does next
    stream,    \* the stream its request goes to
    job,       \* the job id it was given, 0 before that
    sub,       \* its subscription to sw:done:job, as Redis sees it
    inbox,     \* the first message its subscription has received
    missed,    \* history: its job was published while SUBSCRIBE was under way
    answer,    \* how its last request ended
    (* workers *)
    wpc,       \* what a worker does next
    holds,     \* the entry a worker has read, an index into its stream
    success,   \* did the job it holds succeed?
    (* the environment *)
    up,        \* the replicas that run
    issued,    \* the number of job ids handed out
    faults     \* failures so far

redisVars   == <<entries, group, cursor, pel, result>>
handlerVars == <<pc, stream, job, sub, inbox, missed, answer>>
workerVars  == <<wpc, holds, success>>
envVars     == <<up, issued, faults>>
vars        == <<redisVars, handlerVars, workerVars, envVars>>

HandlerPCs == {"idle", "check", "add", "subscribe", "get", "wait"}
WorkerPCs  == {"down", "read", "process", "store", "publish", "ack"}
Outcomes   == {"none", "refused", "full", "error",
               "result", "notfound", "timeout", "gone"}
Answers    == [event : Outcomes, payload : StoredResult \cup {None}]

\* The state a handler, a worker or Redis may be in; Redis never points past
\* the end of a stream.
TypeOK ==
    /\ entries \in [Streams -> Seq(Entry)]
    /\ group \in [Streams -> BOOLEAN]
    /\ cursor \in [Streams -> Nat]
    /\ \A s \in Streams : cursor[s] <= Len(entries[s])
    /\ pel \in [Streams -> SUBSET Nat]
    /\ result \in [JobIDs -> StoredResult \cup {None}]
    /\ pc \in [Clients -> HandlerPCs]
    /\ stream \in [Clients -> Streams]
    /\ job \in [Clients -> JobIDs \cup {0}]
    /\ sub \in [Clients -> {"off", "sent", "active"}]
    /\ inbox \in [Clients -> StoredResult \cup {None}]
    /\ missed \subseteq Clients
    /\ answer \in [Clients -> Answers]
    /\ wpc \in [Workers -> WorkerPCs]
    /\ holds \in [Workers -> Nat]
    /\ success \in [Workers -> BOOLEAN]
    /\ up \in [Replicas -> BOOLEAN]
    /\ issued \in 0..MaxJobs
    /\ faults \in 0..MaxFaults

Init ==
    /\ entries = [s \in Streams |-> << >>]
    /\ group = [s \in Streams |-> FALSE]
    /\ cursor = [s \in Streams |-> 0]
    /\ pel = [s \in Streams |-> {}]
    /\ result = [j \in JobIDs |-> None]
    /\ pc = [c \in Clients |-> "idle"]
    /\ stream = [c \in Clients |-> CHOOSE s \in Streams : TRUE]
    /\ job = [c \in Clients |-> 0]
    /\ sub = [c \in Clients |-> "off"]
    /\ inbox = [c \in Clients |-> None]
    /\ missed = {}
    /\ answer = [c \in Clients |-> [event |-> "none", payload |-> None]]
    /\ wpc = [w \in Workers |-> "down"]
    /\ holds = [w \in Workers |-> 0]
    /\ success = [w \in Workers |-> FALSE]
    /\ up = [p \in Replicas |-> FALSE]
    /\ issued = 0
    /\ faults = 0

\* One more failure of the environment, within the bound.
Fault ==
    /\ faults < MaxFaults
    /\ faults' = faults + 1

(***************************************************************************)
(* The process: main bootstraps the consumer groups, then starts the       *)
(* pools.                                                                  *)
(***************************************************************************)

\* Bootstrap creates the group of every stream that has none (BUSYGROUP leaves
\* an existing one alone); for the streams in failed the command failed, which
\* the code ignores.
Bootstrap(failed) ==
    group' = [s \in Streams |-> group[s] \/ s \notin failed]

Start(p) ==
    /\ ~up[p]
    /\ up' = [up EXCEPT ![p] = TRUE]
    /\ wpc' = [w \in Workers |-> IF HostOf[w] = p THEN "read" ELSE wpc[w]]
    /\ \/ /\ Bootstrap({})
          /\ UNCHANGED faults
       \/ /\ Fault
          /\ \E failed \in SUBSET Streams \ {{}} : Bootstrap(failed)
    /\ UNCHANGED <<entries, cursor, pel, result, handlerVars,
                   holds, success, issued>>

\* The end of a request: the handler returns, its deferred Close drops the
\* subscription, and the client has seen the event.
Close(c, event, payload) ==
    /\ pc' = [pc EXCEPT ![c] = "idle"]
    /\ sub' = [sub EXCEPT ![c] = "off"]
    /\ inbox' = [inbox EXCEPT ![c] = None]
    /\ missed' = missed \ {c}
    /\ answer' = [answer EXCEPT ![c] = [event |-> event, payload |-> payload]]

\* A replica's process ends, with all its handlers and workers; the clients
\* that it was serving see their connections close.
Die(p) ==
    LET cut == {c \in Clients : HostOf[c] = p /\ pc[c] # "idle"} IN
    /\ up[p]
    /\ Fault
    /\ up' = [up EXCEPT ![p] = FALSE]
    /\ wpc' = [w \in Workers |-> IF HostOf[w] = p THEN "down" ELSE wpc[w]]
    /\ holds' = [w \in Workers |-> IF HostOf[w] = p THEN 0 ELSE holds[w]]
    /\ success' = [w \in Workers |-> HostOf[w] # p /\ success[w]]
    /\ pc' = [c \in Clients |-> IF c \in cut THEN "idle" ELSE pc[c]]
    /\ sub' = [c \in Clients |-> IF c \in cut THEN "off" ELSE sub[c]]
    /\ inbox' = [c \in Clients |-> IF c \in cut THEN None ELSE inbox[c]]
    /\ missed' = missed \ cut
    /\ answer' = [c \in Clients |->
                    IF c \in cut THEN [event |-> "gone", payload |-> None]
                                 ELSE answer[c]]
    /\ UNCHANGED <<stream, job, issued>>

\* It is killed, or it exits after Shutdown, which never waits for the workers.
Crash(p) == Die(p) /\ UNCHANGED redisVars

(***************************************************************************)
(* The handler: streamJob and enqueueAndStream, with Producer.Enqueue.     *)
(***************************************************************************)

Goto(c, label) == pc' = [pc EXCEPT ![c] = label]

\* A request for the stream s arrives with claims and a well-formed body.
Submit(c, s) ==
    /\ up[HostOf[c]]
    /\ pc[c] = "idle"
    /\ Goto(c, "check")
    /\ stream' = [stream EXCEPT ![c] = s]
    /\ job' = [job EXCEPT ![c] = 0]
    /\ answer' = [answer EXCEPT ![c] = [event |-> "none", payload |-> None]]
    /\ UNCHANGED <<redisVars, sub, inbox, missed, workerVars, envVars>>

\* No claims, an unreadable body or an invalid request: 401, 400 or 413.
Refuse(c) ==
    /\ up[HostOf[c]]
    /\ pc[c] = "idle"
    /\ Close(c, "refused", None)
    /\ UNCHANGED <<redisVars, stream, job, workerVars, envVars>>

FullOffByOne(s) == Len(entries[s]) > MaxDepth[s]

\* XLEN counts every entry the stream holds, acknowledged or not.
Full(s) == Len(entries[s]) >= MaxDepth[s]

CheckDepth(c) ==
    /\ pc[c] = "check"
    /\ IF Full(stream[c])
       THEN Close(c, "full", None)
       ELSE Goto(c, "add") /\ UNCHANGED <<sub, inbox, missed, answer>>
    /\ UNCHANGED <<redisVars, stream, job, workerVars, envVars>>

CheckDepthFails(c) ==
    /\ pc[c] = "check"
    /\ Fault
    /\ Close(c, "error", None)
    /\ UNCHANGED <<redisVars, stream, job, workerVars, up, issued>>

\* The entries that n XADDs of the client's next job append.
JobEntries(c, n) == [i \in 1..n |-> [job |-> issued + 1, user |-> c]]

AddJobRecheckingDepth(c) ==
    /\ pc[c] = "add"
    /\ issued < MaxJobs
    /\ issued' = issued + 1
    /\ job' = [job EXCEPT ![c] = issued + 1]
    /\ entries' = [entries EXCEPT ![stream[c]] = @ \o JobEntries(c, 1)]
    /\ IF Full(stream[c])
       THEN Close(c, "full", None)
       ELSE Goto(c, "subscribe") /\ UNCHANGED <<sub, inbox, missed, answer>>
    /\ UNCHANGED <<group, cursor, pel, result, stream, workerVars, up, faults>>

\* uuid.NewString and XADD, then the headers and the queued event.
AddJob(c) ==
    /\ pc[c] = "add"
    /\ issued < MaxJobs
    /\ issued' = issued + 1
    /\ job' = [job EXCEPT ![c] = issued + 1]
    /\ entries' = [entries EXCEPT ![stream[c]] = @ \o JobEntries(c, 1)]
    /\ Goto(c, "subscribe")
    /\ UNCHANGED <<group, cursor, pel, result, stream, sub, inbox, missed,
                   answer, workerVars, up, faults>>

\* XADD with a network failure.  The client library retries once, and an
\* attempt whose reply is lost has still been applied: the entry may be there
\* never, once or twice, and the retry may have been answered or not.
AddJobFaulty(c) ==
    /\ pc[c] = "add"
    /\ issued < MaxJobs
    /\ Fault
    /\ issued' = issued + 1
    /\ job' = [job EXCEPT ![c] = issued + 1]
    /\ \E copies \in 0..2 :
         /\ entries' =
              [entries EXCEPT ![stream[c]] = @ \o JobEntries(c, copies)]
         /\ \/ Close(c, "error", None)
            \/ /\ copies = 2
               /\ Goto(c, "subscribe")
               /\ UNCHANGED <<sub, inbox, missed, answer>>
    /\ UNCHANGED <<group, cursor, pel, result, stream, workerVars, up>>

(***************************************************************************)
(* The handler: Hub.WaitForResult.                                         *)
(***************************************************************************)

\* Subscribe writes the command to a connection of its own and does not wait
\* for the confirmation.
Subscribe(c) ==
    /\ pc[c] = "subscribe"
    /\ sub' = [sub EXCEPT ![c] = "sent"]
    /\ Goto(c, "get")
    /\ UNCHANGED <<redisVars, stream, job, inbox, missed, answer, workerVars,
                   envVars>>

\* Redis processes the SUBSCRIBE.
SubscribeArrives(c) ==
    /\ sub[c] = "sent"
    /\ sub' = [sub EXCEPT ![c] = "active"]
    /\ UNCHANGED <<redisVars, pc, stream, job, inbox, missed, answer,
                   workerVars, envVars>>

\* resultForUser: only the submitter gets the result.
OwnedBy(stored, user) == stored.user = user

\* The result event, or the not-found event for somebody else's result.
Deliver(c, stored) ==
    IF OwnedBy(stored, c) THEN Close(c, "result", stored)
                          ELSE Close(c, "notfound", None)

GetResult(c) ==
    /\ pc[c] = "get"
    /\ IF result[job[c]] # None
       THEN Deliver(c, result[job[c]])
       ELSE Goto(c, "wait") /\ UNCHANGED <<sub, inbox, missed, answer>>
    /\ UNCHANGED <<redisVars, stream, job, workerVars, envVars>>

\* An error of GET is taken for a result that is not there yet.
GetResultFails(c) ==
    /\ pc[c] = "get"
    /\ Fault
    /\ Goto(c, "wait")
    /\ UNCHANGED <<redisVars, stream, job, sub, inbox, missed, answer,
                   workerVars, up, issued>>

Receive(c) ==
    /\ pc[c] = "wait"
    /\ inbox[c] # None
    /\ Deliver(c, inbox[c])
    /\ UNCHANGED <<redisVars, stream, job, workerVars, envVars>>

TimeoutIfAnswered(c) ==
    /\ pc[c] = "wait"
    /\ inbox[c] # None
    /\ Close(c, "timeout", None)
    /\ UNCHANGED <<redisVars, stream, job, workerVars, envVars>>

\* The 30 s timer; when a message is ready as well, select takes either.
Timeout(c) ==
    /\ pc[c] = "wait"
    /\ Close(c, "timeout", None)
    /\ UNCHANGED <<redisVars, stream, job, workerVars, envVars>>

\* The client goes away: its context ends every call and the select.
Disconnect(c) ==
    /\ pc[c] # "idle"
    /\ Close(c, "gone", None)
    /\ UNCHANGED <<redisVars, stream, job, workerVars, envVars>>

(***************************************************************************)
(* The workers: WorkerPool.runWorker and processMessage.                   *)
(***************************************************************************)

\* processMessage returns: its locals are gone.
EndJob(w) ==
    /\ wpc' = [wpc EXCEPT ![w] = "read"]
    /\ holds' = [holds EXCEPT ![w] = 0]
    /\ success' = [success EXCEPT ![w] = FALSE]

GotoW(w, label) == wpc' = [wpc EXCEPT ![w] = label]

OneStreamForAll(w) == CHOOSE s \in Streams : TRUE

\* The stream of the pool that main starts the worker in (WorkerConfig.Stream).
StreamOf(w) == PoolOf[w]

UnreadOffByOne(s) == group[s] /\ cursor[s] <= Len(entries[s])

\* XREADGROUP ">" hands out an entry that the group has not delivered yet; it
\* fails with NOGROUP where the group does not exist.
Unread(s) == group[s] /\ cursor[s] < Len(entries[s])

TakeNextNoAck(s) ==
    /\ cursor' = [cursor EXCEPT ![s] = @ + 1]
    /\ UNCHANGED pel

\* The group's cursor passes the entry, which becomes pending.
TakeNext(s) ==
    /\ pel' = [pel EXCEPT ![s] = @ \cup {cursor[s] + 1}]
    /\ cursor' = [cursor EXCEPT ![s] = @ + 1]

ReadJobOrClaim(w) ==
    LET s == StreamOf(w)
        abandoned == pel[s] \ {holds[v] : v \in Workers} IN
    /\ wpc[w] = "read"
    /\ GotoW(w, "process")
    /\ \/ /\ Unread(s)
          /\ TakeNext(s)
          /\ holds' = [holds EXCEPT ![w] = cursor[s] + 1]
       \/ /\ \E i \in abandoned : holds' = [holds EXCEPT ![w] = i]
          /\ UNCHANGED <<cursor, pel>>
    /\ UNCHANGED <<entries, group, result, handlerVars, success, envVars>>

ReadJob(w) ==
    LET s == StreamOf(w) IN
    /\ wpc[w] = "read"
    /\ Unread(s)
    /\ TakeNext(s)
    /\ holds' = [holds EXCEPT ![w] = cursor[s] + 1]
    /\ GotoW(w, "process")
    /\ UNCHANGED <<entries, group, result, handlerVars, success, envVars>>

\* The reply of XREADGROUP is lost: the entry is pending for a worker that
\* never saw it and goes on to read the next one.
ReadReplyLost(w) ==
    LET s == StreamOf(w) IN
    /\ wpc[w] = "read"
    /\ Unread(s)
    /\ Fault
    /\ TakeNext(s)
    /\ UNCHANGED <<entries, group, result, handlerVars, workerVars,
                   up, issued>>

\* The ProcessFn returns data or an error (for a panic see Panic).
Process(w) ==
    /\ wpc[w] = "process"
    /\ \E ok \in BOOLEAN : success' = [success EXCEPT ![w] = ok]
    /\ GotoW(w, "store")
    /\ UNCHANGED <<redisVars, handlerVars, holds, envVars>>

\* The ProcessFn panics (a trip without a summary, say) and nothing recovers:
\* the deferred XACK still runs, then the process dies.
Panic(w) ==
    /\ wpc[w] = "process"
    /\ pel' = [pel EXCEPT ![StreamOf(w)] = @ \ {holds[w]}]
    /\ Die(HostOf[w])
    /\ UNCHANGED <<entries, group, cursor, result>>

\* parseJob: the entry a worker works on.
HeldEntry(w) == entries[StreamOf(w)][holds[w]]

\* The StoredResult envelope that it makes of the outcome.
Envelope(w) ==
    [job |-> HeldEntry(w).job, user |-> HeldEntry(w).user,
     success |-> success[w]]

StoreResultNever(w) ==
    /\ wpc[w] = "store"
    /\ GotoW(w, "publish")
    /\ UNCHANGED <<redisVars, handlerVars, holds, success, envVars>>

StoreResult(w) ==
    /\ wpc[w] = "store"
    /\ result' = [result EXCEPT ![HeldEntry(w).job] = Envelope(w)]
    /\ GotoW(w, "publish")
    /\ UNCHANGED <<entries, group, cursor, pel, handlerVars, holds, success,
                   envVars>>

\* The error of SET is ignored.
StoreResultFails(w) ==
    /\ wpc[w] = "store"
    /\ Fault
    /\ GotoW(w, "publish")
    /\ UNCHANGED <<redisVars, handlerVars, holds, success, up, issued>>

AnySubscriber(j) == {c \in Clients : sub[c] = "active"}

\* Redis forwards a message on sw:done:j to the subscriptions it knows of.
Subscribers(j) == {c \in Clients : sub[c] = "active" /\ job[c] = j}

\* Handlers whose SUBSCRIBE to sw:done:j Redis has still to process.
Subscribing(j) == {c \in Clients : sub[c] = "sent" /\ job[c] = j}

Publish(w) ==
    /\ wpc[w] = "publish"
    /\ inbox' = [c \in Clients |->
                   IF c \in Subscribers(HeldEntry(w).job) /\ inbox[c] = None
                   THEN Envelope(w) ELSE inbox[c]]
    /\ missed' = missed \cup Subscribing(HeldEntry(w).job)
    /\ GotoW(w, "ack")
    /\ UNCHANGED <<redisVars, pc, stream, job, sub, answer, holds, success,
                   envVars>>

\* The error of PUBLISH is ignored.
PublishFails(w) ==
    /\ wpc[w] = "publish"
    /\ Fault
    /\ GotoW(w, "ack")
    /\ UNCHANGED <<redisVars, handlerVars, holds, success, up, issued>>

AckForgotten(w) ==
    /\ wpc[w] = "ack"
    /\ EndJob(w)
    /\ UNCHANGED <<redisVars, handlerVars, envVars>>

\* The deferred XACK takes the entry off the pending list, not off the stream.
Ack(w) ==
    /\ wpc[w] = "ack"
    /\ pel' = [pel EXCEPT ![StreamOf(w)] = @ \ {holds[w]}]
    /\ EndJob(w)
    /\ UNCHANGED <<entries, group, cursor, result, handlerVars, envVars>>

\* The error of XACK is ignored.
AckFails(w) ==
    /\ wpc[w] = "ack"
    /\ Fault
    /\ EndJob(w)
    /\ UNCHANGED <<redisVars, handlerVars, up, issued>>

\* The TTL of sw:result:j runs out.  Before the submitter's GET that is a
\* fault: the handler gets there in far less than the TTL.
Expire(j) ==
    /\ result[j] # None
    /\ result' = [result EXCEPT ![j] = None]
    /\ IF \E c \in Clients : job[c] = j /\ pc[c] \in {"subscribe", "get"}
       THEN Fault
       ELSE UNCHANGED faults
    /\ UNCHANGED <<entries, group, cursor, pel, handlerVars, workerVars,
                   up, issued>>

-----------------------------------------------------------------------------

\* The steps a handler takes by itself, once it serves a request.
HandlerStep(c) ==
    \/ CheckDepth(c) \/ AddJob(c) \/ Subscribe(c) \/ SubscribeArrives(c)
    \/ GetResult(c) \/ Receive(c) \/ Timeout(c)

\* The steps of a worker that is not disturbed.
WorkerStep(w) ==
    ReadJob(w) \/ Process(w) \/ StoreResult(w) \/ Publish(w) \/ Ack(w)

HandlerFault(c) ==
    CheckDepthFails(c) \/ AddJobFaulty(c) \/ GetResultFails(c) \/ Disconnect(c)

WorkerFault(w) ==
    ReadReplyLost(w) \/ StoreResultFails(w) \/ PublishFails(w) \/ AckFails(w)

Next ==
    \/ \E p \in Replicas : Start(p) \/ Crash(p)
    \/ \E c \in Clients : \/ \E s \in Streams : Submit(c, s)
                          \/ Refuse(c)
                          \/ HandlerStep(c)
                          \/ HandlerFault(c)
    \/ \E w \in Workers : WorkerStep(w) \/ WorkerFault(w) \/ Panic(w)
    \/ \E j \in JobIDs : Expire(j)

Spec == Init /\ [][Next]_vars

\* Goroutines that can run do run: a handler that serves a request, its 30 s
\* timer included, and a process that the container runtime restarts.  Of the
\* workers nothing is assumed: their downstream calls have no deadline.
Fairness ==
    /\ \A p \in Replicas : WF_vars(Start(p))
    /\ \A c \in Clients : WF_vars(HandlerStep(c))

LiveSpec == Spec /\ Fairness

-----------------------------------------------------------------------------
(***************************************************************************)
(* Properties.                                                             *)
(***************************************************************************)

Busy(w) == wpc[w] \in {"process", "store", "publish", "ack"}

\* Handlers between Enqueue's depth check and its XADD.
Adding(s) == {c \in Clients : pc[c] = "add" /\ stream[c] = s}

\* Enqueue reads the depth and adds in two commands, so handlers that checked
\* at the same time overshoot the limit.  They never overshoot by more than
\* the handlers that can be at it together, less one, plus the entries that a
\* retried XADD doubled.
DepthBound ==
    \A s \in Streams :
        Len(entries[s]) + Cardinality(Adding(s))
            < MaxDepth[s] + Cardinality(Clients) + faults

\* An entry is worked on by one worker at most, in whatever replica, and stays
\* on the group's pending list while it is: XREADGROUP hands it out once, and
\* a crash leaves a trace of the job it interrupted.
ExclusiveEntry ==
    \A w \in Workers : Busy(w) =>
        /\ holds[w] \in pel[StreamOf(w)]
        /\ \A v \in Workers :
              Busy(v) /\ StreamOf(v) = StreamOf(w) /\ holds[v] = holds[w]
                  => v = w

\* The job's entry has been read and acknowledged.
Done(s, i) == i <= cursor[s] /\ i \notin pel[s]

\* A job that was started is never handed out again, whether it finished, its
\* worker was killed, or it panicked: it can take one process down, and not the
\* next one after a restart or in another replica.
PoisonJobOnce ==
    [][\A w \in Workers :
          wpc[w] = "read" /\ Busy(w)' =>
              /\ holds'[w] \notin pel[StreamOf(w)]
              /\ ~Done(StreamOf(w), holds'[w])]_vars

\* WaitForResult gives a handler the result of the job it enqueued and no
\* other, whichever worker of whichever replica computed it; so its ownership
\* check never has to refuse what arrives.
OwnResult ==
    \A c \in Clients :
        /\ answer[c].event = "result" =>
              answer[c].payload.job = job[c] /\ answer[c].payload.user = c
        /\ answer[c].event # "notfound"

Finished(j) ==
    \E s \in Streams : \E i \in 1..Len(entries[s]) :
        entries[s][i].job = j /\ Done(s, i)

\* Subscribing before the GET, against a worker that stores before it
\* publishes, leaves one gap only: while Redis answers, a handler that waits
\* for a finished job has its result on the way, unless the publication
\* reached Redis before the handler's unconfirmed SUBSCRIBE did.
OneWakeupGap ==
    \A c \in Clients :
        pc[c] = "wait" /\ faults = 0 /\ Finished(job[c])
            => inbox[c] # None \/ c \in missed

\* hub.go takes it that there is no gap at all ("Check if the worker already
\* finished before we subscribed"): while Redis answers, a handler that waits
\* for a finished job has its result on the way and will not time out.
NoLostWakeup ==
    \A c \in Clients :
        pc[c] = "wait" /\ faults = 0 /\ Finished(job[c]) => inbox[c] # None

\* Every request is answered: by a result, an error, the timeout, or because
\* the client or the replica is gone.  No failure of Redis leaves a handler
\* waiting for ever.
HandlersReturn == \A c \in Clients : pc[c] # "idle" ~> pc[c] = "idle"

\* Every entry of the stream is processed and acknowledged in the end, unless
\* something fails.
JobsFinishOn(s) ==
    \A i \in 1..MaxJobs : i <= Len(entries[s]) ~> Done(s, i) \/ faults > 0

\* The streams are "kept apart so they never wait behind route planning"
\* (stream.go): when the workers of one pool keep running, every job that its
\* stream accepted is run to its end, although all other workers may hang in
\* a downstream call for ever and whether or not the submitter is still there.
StreamsKeptApart ==
    \A s \in Streams :
        (\A w \in Workers : PoolOf[w] = s => WF_vars(WorkerStep(w)))
            => JobsFinishOn(s)

\* Entries that no worker has acknowledged: still to be read, or being run.
Pending(s) == Len(entries[s]) - cursor[s] + Cardinality(pel[s])

\* README: the limit is on "pending messages"; a request is turned away with
\* "queue full" only while that many are pending.
FullMeansPending ==
    [][\A c \in Clients :
          pc[c] = "check" /\ answer'[c].event = "full"
              => Pending(stream[c]) >= MaxDepth[stream[c]]]_vars
=============================================================================
