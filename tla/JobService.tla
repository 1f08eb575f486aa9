----------------------------- MODULE JobService -----------------------------
(***************************************************************************)
(* What the asynchronous job path promises to its clients, without Redis,  *)
(* consumer groups or subscriptions: jobs are taken first come, first      *)
(* served from one backlog for each stream, each is begun at most once,    *)
(* and a request is answered with a result that was computed for it, or    *)
(* with the reason why there is none.  A request that is turned away has   *)
(* left nothing in a backlog.  Results do not last: at any moment the      *)
(* service may have forgotten some.                                        *)
(***************************************************************************)
EXTENDS Naturals, Sequences

CONSTANTS
    Streams, Clients, Workers,
    Replicas,
    PoolOf,    \* the stream a worker drains
    HostOf,    \* the replica a client is connected to or a worker runs in
    MaxJobs,   \* bound on the job ids
    None

Entry        == [job : 1..MaxJobs, user : Clients]
StoredResult == [job : 1..MaxJobs, user : Clients, success : BOOLEAN]

VARIABLES
    target,    \* the stream of c's request
    job,       \* the id of c's job, 0 before it has one
    answer,    \* how c's last request ended, "none" while it has not
    backlog,   \* backlog[s]: the accepted jobs that nobody has begun
    running,   \* running[w]: the entry the worker w is at
    computed,  \* results that are still known
    issued     \* the number of job ids handed out

vars == <<target, job, answer, backlog, running, computed, issued>>

Init ==
    /\ target \in [Clients -> Streams]
    /\ job = [c \in Clients |-> 0]
    /\ answer = [c \in Clients |-> [event |-> "none", payload |-> None]]
    /\ backlog = [s \in Streams |-> << >>]
    /\ running = [w \in Workers |-> None]
    /\ computed = {}
    /\ issued = 0

Waiting(c)  == answer[c].event = "none"
Accepted(c) == Waiting(c) /\ job[c] # 0

\* Results may be forgotten, and none is added.
Forget == computed' \subseteq computed

\* The requests of the clients in set end alike.
End(set, event, payload) ==
    answer' = [c \in Clients |->
                 IF c \in set THEN [event |-> event, payload |-> payload]
                              ELSE answer[c]]

Ask(c, s) ==
    /\ ~Accepted(c)
    /\ target' = [target EXCEPT ![c] = s]
    /\ job' = [job EXCEPT ![c] = 0]
    /\ End({c}, "none", None)
    /\ UNCHANGED <<backlog, running, computed, issued>>

\* The request is malformed, the queue is full or the service fails: nothing
\* is accepted.
TurnAway(c) ==
    /\ ~Accepted(c)
    /\ \E reason \in {"refused", "full", "error"} : End({c}, reason, None)
    /\ UNCHANGED <<target, job, backlog, running, computed, issued>>

\* The job is accepted under a new id and the client waits for its result.  In
\* a failure it may be doubled, or the client is told of the failure although
\* the job is there.
Accept(c, copies) ==
    /\ Waiting(c) /\ ~Accepted(c)
    /\ issued < MaxJobs
    /\ issued' = issued + 1
    /\ job' = [job EXCEPT ![c] = issued + 1]
    /\ backlog' = [backlog EXCEPT ![target[c]] =
                     @ \o [i \in 1..copies |-> [job |-> issued + 1, user |-> c]]]
    /\ \/ copies > 0 /\ UNCHANGED answer
       \/ End({c}, "error", None)
    /\ UNCHANGED <<target, running, computed>>

\* A worker begins the oldest job of its stream.
Begin(w) ==
    LET s == PoolOf[w] IN
    /\ running[w] = None
    /\ backlog[s] # << >>
    /\ running' = [running EXCEPT ![w] = Head(backlog[s])]
    /\ backlog' = [backlog EXCEPT ![s] = Tail(@)]
    /\ UNCHANGED <<target, job, answer, computed, issued>>

\* The oldest job of a stream is lost in a failure.
Drop(s) ==
    /\ backlog[s] # << >>
    /\ backlog' = [backlog EXCEPT ![s] = Tail(@)]
    /\ UNCHANGED <<target, job, answer, running, computed, issued>>

\* The worker computes its result.
Compute(w) ==
    /\ running[w] # None
    /\ \E ok \in BOOLEAN :
         computed' = computed \cup
           {[job |-> running[w].job, user |-> running[w].user, success |-> ok]}
    /\ UNCHANGED <<target, job, answer, backlog, running, issued>>

\* The worker is done with its job.
Finish(w) ==
    /\ running[w] # None
    /\ running' = [running EXCEPT ![w] = None]
    /\ Forget
    /\ UNCHANGED <<target, job, answer, backlog, issued>>

\* The client gets a result of its own job.
Reply(c) ==
    /\ Accepted(c)
    /\ \E r \in computed : /\ r.job = job[c] /\ r.user = c
                           /\ End({c}, "result", r)
    /\ Forget
    /\ UNCHANGED <<target, job, backlog, running, issued>>

\* It has waited too long, or it has left.
GiveUp(c) ==
    /\ \/ Accepted(c) /\ End({c}, "timeout", None)
       \/ Waiting(c) /\ End({c}, "gone", None)
    /\ Forget
    /\ UNCHANGED <<target, job, backlog, running, issued>>

\* Results are forgotten.
Lapse ==
    /\ Forget
    /\ UNCHANGED <<target, job, answer, backlog, running, issued>>

\* A replica dies, with the requests it was serving; a job that was begun
\* there is not put back.
Crash(p) ==
    /\ \E cut \in SUBSET {c \in Clients : HostOf[c] = p /\ Waiting(c)} :
          End(cut, "gone", None)
    /\ running' = [w \in Workers |-> IF HostOf[w] = p THEN None ELSE running[w]]
    /\ Forget
    /\ UNCHANGED <<target, job, backlog, issued>>

Next ==
    \/ Lapse
    \/ \E c \in Clients :
          \/ \E s \in Streams : Ask(c, s)
          \/ \E copies \in 0..2 : Accept(c, copies)
          \/ TurnAway(c) \/ Reply(c) \/ GiveUp(c)
    \/ \E w \in Workers : Begin(w) \/ Compute(w) \/ Finish(w)
    \/ \E s \in Streams : Drop(s)
    \/ \E p \in Replicas : Crash(p)

Spec == Init /\ [][Next]_vars
=============================================================================
