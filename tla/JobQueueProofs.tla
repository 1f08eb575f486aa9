--------------------------- MODULE JobQueueProofs ---------------------------
(***************************************************************************)
(* Theorems about JobQueue, for every set of streams, handlers, workers    *)
(* and replicas and every bound: first its invariants, then that it        *)
(* implements JobService.                                                  *)
(***************************************************************************)
EXTENDS JobRefinement, FiniteSetTheorems, SequenceTheorems, TLAPS

\* A handler past AddJob has the id of its job.
HandlerHasJob ==
    \A c \in Clients :
        pc[c] \in {"subscribe", "get", "wait"} => job[c] \in JobIDs

\* A busy worker holds an entry that the group has delivered.
HoldsDelivered ==
    \A w \in Workers : Busy(w) => holds[w] \in 1..cursor[StreamOf(w)]

\* TypeOK is not inductive by itself: GET is made for the handler's job and a
\* worker reads the fields of the entry it holds.
TypeInv == TypeOK /\ HandlerHasJob /\ HoldsDelivered

\* What Close does to the handler's variables keeps their types.
LEMMA CloseType ==
    ASSUME TypeOK, NEW c \in Clients, NEW event \in Outcomes,
           NEW payload \in StoredResult \cup {None}, Close(c, event, payload)
    PROVE  /\ pc' \in [Clients -> HandlerPCs]
           /\ sub' \in [Clients -> {"off", "sent", "active"}]
           /\ inbox' \in [Clients -> StoredResult \cup {None}]
           /\ missed' \subseteq Clients
           /\ answer' \in [Clients -> Answers]
           /\ pc'[c] = "idle"
           /\ \A d \in Clients \ {c} : pc'[d] = pc[d]
BY DEF TypeOK, Close, HandlerPCs, Answers

\* A failure stays within the bound.
LEMMA FaultType ==
    ASSUME TypeOK, Fault
    PROVE  faults' \in 0..MaxFaults
BY JobQueueAssumption DEF TypeOK, Fault

\* The entries that XADD appends are entries.
LEMMA JobEntriesType ==
    ASSUME TypeOK, NEW c \in Clients, issued < MaxJobs, NEW n \in 0..2
    PROVE  JobEntries(c, n) \in Seq(Entry) /\ Len(JobEntries(c, n)) = n
<1>1. issued + 1 \in JobIDs
  BY JobQueueAssumption DEF TypeOK, JobIDs
<1>2. [job |-> issued + 1, user |-> c] \in Entry
  BY <1>1 DEF Entry
<1>3. JobEntries(c, n) \in [1..n -> Entry]
  BY <1>2 DEF JobEntries
<1> QED
  BY <1>3

\* XADD appends: the cursor still points into the stream.
LEMMA AppendType ==
    ASSUME TypeOK, NEW c \in Clients, issued < MaxJobs, NEW n \in 0..2,
           entries' = [entries EXCEPT ![stream[c]] = @ \o JobEntries(c, n)]
    PROVE  /\ entries' \in [Streams -> Seq(Entry)]
           /\ \A s \in Streams : Len(entries'[s]) =
                 Len(entries[s]) + (IF s = stream[c] THEN n ELSE 0)
<1>1. JobEntries(c, n) \in Seq(Entry) /\ Len(JobEntries(c, n)) = n
  BY JobEntriesType
<1>2. entries \in [Streams -> Seq(Entry)] /\ stream[c] \in Streams
  BY DEF TypeOK
<1> DEFINE new == entries[stream[c]] \o JobEntries(c, n)
<1>3. new \in Seq(Entry) /\ Len(new) = Len(entries[stream[c]]) + n
  BY <1>1, <1>2
<1>4. entries' = [entries EXCEPT ![stream[c]] = new]
  OBVIOUS
<1> HIDE DEF new
<1>5. /\ entries' \in [Streams -> Seq(Entry)]
      /\ entries'[stream[c]] = new
      /\ \A s \in Streams : s # stream[c] => entries'[s] = entries[s]
  BY <1>2, <1>3, <1>4
<1>6. \A s \in Streams : Len(entries[s]) \in Nat
  BY <1>2
<1> QED
  BY <1>2, <1>3, <1>5, <1>6

\* XADD moves no cursor.
LEMMA AppendKeepsCursor ==
    ASSUME TypeOK, NEW c \in Clients, issued < MaxJobs, NEW n \in 0..2,
           entries' = [entries EXCEPT ![stream[c]] = @ \o JobEntries(c, n)],
           cursor' = cursor
    PROVE  /\ entries' \in [Streams -> Seq(Entry)]
           /\ \A s \in Streams : cursor'[s] <= Len(entries'[s])
<1>1. /\ entries' \in [Streams -> Seq(Entry)]
      /\ \A s \in Streams : Len(entries'[s]) =
            Len(entries[s]) + (IF s = stream[c] THEN n ELSE 0)
  BY AppendType
<1>2. ASSUME NEW s \in Streams PROVE cursor'[s] <= Len(entries'[s])
  <2>1. Len(entries[s]) \in Nat /\ cursor[s] \in Nat
        /\ cursor[s] <= Len(entries[s])
    BY DEF TypeOK
  <2>2. \/ Len(entries'[s]) = Len(entries[s]) + n
        \/ Len(entries'[s]) = Len(entries[s])
    BY <1>1, <2>1
  <2> QED
    BY <2>1, <2>2
<1> QED
  BY <1>1, <1>2

\* What a busy worker stores and publishes is a StoredResult for its job.
LEMMA EnvelopeType ==
    ASSUME TypeInv, NEW w \in Workers, Busy(w)
    PROVE  Envelope(w) \in StoredResult /\ HeldEntry(w).job \in JobIDs
<1>1. StreamOf(w) \in Streams
  BY JobQueueAssumption DEF StreamOf
<1>2. holds[w] \in 1..Len(entries[StreamOf(w)])
  BY <1>1 DEF TypeInv, TypeOK, HoldsDelivered
<1>3. HeldEntry(w) \in Entry
  BY <1>1, <1>2 DEF TypeInv, TypeOK, HeldEntry
<1> QED
  BY <1>3 DEF Envelope, Entry, StoredResult, TypeInv, TypeOK

\* The steps of a handler keep the types.
LEMMA HandlerTypeStep ==
    ASSUME TypeInv, NEW c \in Clients,
           \/ \E s \in Streams : Submit(c, s)
           \/ Refuse(c) \/ HandlerStep(c) \/ HandlerFault(c)
    PROVE  TypeInv'
<1> USE JobQueueAssumption, NoneAssumption
<1>1. ASSUME NEW s \in Streams, Submit(c, s) PROVE TypeInv'
  BY <1>1 DEF TypeInv, TypeOK, HandlerHasJob, HoldsDelivered, Submit, Goto,
     HandlerPCs, Answers, Outcomes, Busy, StreamOf, redisVars, workerVars,
     envVars
<1>2. ASSUME NEW event \in Outcomes, NEW payload \in StoredResult \cup {None},
             Close(c, event, payload), stream' = stream, job' = job,
             UNCHANGED <<redisVars, workerVars, up, issued>>,
             faults' \in 0..MaxFaults
      PROVE  TypeInv'
  BY <1>2, CloseType
     DEF TypeInv, TypeOK, HandlerHasJob, HoldsDelivered, Busy, StreamOf,
         redisVars, workerVars
<1>3. ASSUME NEW label \in HandlerPCs, Goto(c, label), stream' = stream,
             job' = job, sub' \in [Clients -> {"off", "sent", "active"}],
             label \in {"check", "add"} \/ job[c] \in JobIDs,
             UNCHANGED <<redisVars, inbox, missed, answer, workerVars, up,
                         issued>>,
             faults' \in 0..MaxFaults
      PROVE  TypeInv'
  BY <1>3
     DEF TypeInv, TypeOK, HandlerHasJob, HoldsDelivered, Busy, StreamOf, Goto,
         HandlerPCs, redisVars, workerVars
<1>4. CASE Refuse(c)
  BY <1>4, <1>2 DEF Refuse, envVars, Outcomes, TypeInv, TypeOK
<1>5. CASE CheckDepth(c)
  BY <1>5, <1>2, <1>3 DEF CheckDepth, envVars, Outcomes, TypeInv, TypeOK,
     HandlerPCs
<1>6. CASE CheckDepthFails(c)
  BY <1>6, <1>2, FaultType DEF CheckDepthFails, Outcomes, TypeInv
<1>7. CASE AddJob(c)
  <2>1. issued + 1 \in JobIDs
    BY <1>7 DEF AddJob, TypeInv, TypeOK, JobIDs
  <2>2. /\ entries' \in [Streams -> Seq(Entry)]
        /\ \A s \in Streams : cursor'[s] <= Len(entries'[s])
    <3>1. 1 \in 0..2
      OBVIOUS
    <3> QED
      BY <1>7, <3>1, AppendKeepsCursor DEF AddJob, TypeInv
  <2>3. issued' \in 0..MaxJobs /\ job' \in [Clients -> JobIDs \cup {0}]
        /\ job'[c] \in JobIDs /\ \A d \in Clients : d # c => job'[d] = job[d]
    BY <1>7, <2>1 DEF AddJob, TypeInv, TypeOK, JobIDs
  <2>4. HandlerHasJob'
    BY <1>7, <2>3 DEF AddJob, Goto, HandlerHasJob, TypeInv, TypeOK
  <2>5. HoldsDelivered'
    BY <1>7 DEF AddJob, HoldsDelivered, TypeInv, Busy, StreamOf, workerVars
  <2>6. TypeOK'
    BY <1>7, <2>2, <2>3 DEF AddJob, Goto, TypeInv, TypeOK, HandlerPCs,
       workerVars
  <2> QED
    BY <2>4, <2>5, <2>6 DEF TypeInv
<1>8. CASE AddJobFaulty(c)
  <2>1. issued + 1 \in JobIDs
    BY <1>8 DEF AddJobFaulty, TypeInv, TypeOK, JobIDs
  <2>2. PICK copies \in 0..2 :
          /\ entries' =
               [entries EXCEPT ![stream[c]] = @ \o JobEntries(c, copies)]
          /\ \/ Close(c, "error", None)
             \/ Goto(c, "subscribe") /\ UNCHANGED <<sub, inbox, missed, answer>>
    BY <1>8 DEF AddJobFaulty
  <2>3. /\ entries' \in [Streams -> Seq(Entry)]
        /\ \A s \in Streams : cursor'[s] <= Len(entries'[s])
        /\ faults' \in 0..MaxFaults
    BY <1>8, <2>2, AppendKeepsCursor, FaultType DEF AddJobFaulty, TypeInv
  <2>4. issued' \in 0..MaxJobs /\ job' \in [Clients -> JobIDs \cup {0}]
        /\ job'[c] \in JobIDs /\ \A d \in Clients : d # c => job'[d] = job[d]
    BY <1>8, <2>1 DEF AddJobFaulty, TypeInv, TypeOK, JobIDs
  <2>5. HoldsDelivered'
    BY <1>8 DEF AddJobFaulty, HoldsDelivered, TypeInv, Busy, StreamOf,
       workerVars
  <2>6. /\ pc' \in [Clients -> HandlerPCs]
        /\ sub' \in [Clients -> {"off", "sent", "active"}]
        /\ inbox' \in [Clients -> StoredResult \cup {None}]
        /\ missed' \subseteq Clients
        /\ answer' \in [Clients -> Answers]
        /\ \A d \in Clients \ {c} : pc'[d] = pc[d]
    <3>1. CASE Close(c, "error", None)
      BY <3>1, CloseType DEF TypeInv, Outcomes
    <3>2. CASE Goto(c, "subscribe") /\ UNCHANGED <<sub, inbox, missed, answer>>
      BY <3>2 DEF TypeInv, TypeOK, Goto, HandlerPCs
    <3> QED
      BY <2>2, <3>1, <3>2
  <2>7. HandlerHasJob'
    BY <2>4, <2>6 DEF HandlerHasJob, TypeInv
  <2>8. TypeOK'
    BY <1>8, <2>3, <2>4, <2>6 DEF AddJobFaulty, TypeInv, TypeOK, workerVars
  <2> QED
    BY <2>5, <2>7, <2>8 DEF TypeInv
<1>9. CASE Subscribe(c)
  BY <1>9, <1>3 DEF Subscribe, envVars, TypeInv, TypeOK, HandlerHasJob,
     HandlerPCs
<1>10. CASE SubscribeArrives(c)
  BY <1>10 DEF SubscribeArrives, TypeInv, TypeOK, HandlerHasJob,
     HoldsDelivered, Busy, StreamOf, redisVars, workerVars, envVars
<1>11. ASSUME NEW stored \in StoredResult, Deliver(c, stored),
              stream' = stream, job' = job,
              UNCHANGED <<redisVars, workerVars, envVars>>
       PROVE  TypeInv'
  BY <1>11, <1>2 DEF Deliver, envVars, Outcomes, TypeInv, TypeOK
<1>12. CASE GetResult(c)
  <2>1. job[c] \in JobIDs
    BY <1>12 DEF GetResult, TypeInv, HandlerHasJob
  <2> QED
    BY <1>12, <2>1, <1>11, <1>3 DEF GetResult, envVars, TypeInv, TypeOK,
       HandlerPCs
<1>13. CASE GetResultFails(c)
  BY <1>13, <1>3, FaultType DEF GetResultFails, TypeInv, TypeOK,
     HandlerHasJob, HandlerPCs
<1>14. CASE Receive(c)
  BY <1>14, <1>11 DEF Receive, TypeInv, TypeOK
<1>15. CASE Timeout(c)
  BY <1>15, <1>2 DEF Timeout, envVars, Outcomes, TypeInv, TypeOK
<1>16. CASE Disconnect(c)
  BY <1>16, <1>2 DEF Disconnect, envVars, Outcomes, TypeInv, TypeOK
<1> QED
  BY <1>1, <1>4, <1>5, <1>6, <1>7, <1>8, <1>9, <1>10, <1>12, <1>13, <1>14,
     <1>15, <1>16 DEF HandlerStep, HandlerFault

\* The steps of a worker keep the types.
LEMMA WorkerTypeStep ==
    ASSUME TypeInv, NEW w \in Workers, WorkerStep(w) \/ WorkerFault(w)
    PROVE  TypeInv'
<1> USE JobQueueAssumption
<1> DEFINE s == StreamOf(w)
<1>1. s \in Streams
  BY DEF StreamOf
<1>2. ASSUME Unread(s), TakeNext(s), UNCHANGED entries
      PROVE  /\ cursor' \in [Streams -> Nat] /\ pel' \in [Streams -> SUBSET Nat]
             /\ cursor[s] + 1 \in 1..cursor'[s]
             /\ \A t \in Streams : /\ cursor'[t] <= Len(entries'[t])
                                   /\ cursor[t] <= cursor'[t]
  BY <1>1, <1>2 DEF TypeInv, TypeOK, Unread, TakeNext
<1>3. CASE ReadJob(w)
  <2>1. TypeOK'
    <3>1. /\ cursor' \in [Streams -> Nat] /\ pel' \in [Streams -> SUBSET Nat]
          /\ \A t \in Streams : cursor'[t] <= Len(entries'[t])
      BY <1>2, <1>3 DEF ReadJob
    <3>2. holds' \in [Workers -> Nat] /\ wpc' \in [Workers -> WorkerPCs]
      <4>1. cursor[s] + 1 \in Nat
        BY <1>1 DEF TypeInv, TypeOK
      <4> QED
        BY <4>1, <1>3 DEF ReadJob, GotoW, TypeInv, TypeOK, WorkerPCs
    <3>3. UNCHANGED <<entries, group, result, handlerVars, success, envVars>>
      BY <1>3 DEF ReadJob
    <3> QED
      BY <3>1, <3>2, <3>3 DEF TypeInv, TypeOK, handlerVars, envVars
  <2>2. HandlerHasJob'
    BY <1>3 DEF ReadJob, TypeInv, HandlerHasJob, handlerVars
  <2>3. HoldsDelivered'
    <3> SUFFICES ASSUME NEW v \in Workers, Busy(v)'
                 PROVE  (holds[v] \in 1..cursor[StreamOf(v)])'
      BY DEF HoldsDelivered
    <3>0. StreamOf(v) \in Streams /\ StreamOf(v)' = StreamOf(v)
      BY DEF StreamOf
    <3>1. CASE v = w
      <4>1. holds'[v] = cursor[s] + 1
        BY <1>3, <3>1 DEF ReadJob, TypeInv, TypeOK
      <4> QED
        BY <1>2, <1>3, <3>0, <3>1, <4>1 DEF ReadJob
    <3>2. CASE v # w
      <4>1. Busy(v) /\ holds'[v] = holds[v]
        BY <1>3, <3>2 DEF ReadJob, GotoW, Busy, TypeInv, TypeOK
      <4>2. holds[v] \in 1..cursor[StreamOf(v)]
        BY <4>1 DEF TypeInv, HoldsDelivered
      <4>3. cursor[StreamOf(v)] \in Nat /\ cursor'[StreamOf(v)] \in Nat
            /\ cursor[StreamOf(v)] <= cursor'[StreamOf(v)]
        BY <1>2, <1>3, <3>0 DEF ReadJob, TypeInv, TypeOK
      <4> QED
        BY <3>0, <4>1, <4>2, <4>3
    <3> QED
      BY <3>1, <3>2
  <2> QED
    BY <2>1, <2>2, <2>3 DEF TypeInv
<1>4. CASE ReadReplyLost(w)
  <2>1. TypeOK'
    BY <1>1, <1>2, <1>4, FaultType DEF ReadReplyLost, TypeInv, TypeOK,
       handlerVars, workerVars
  <2>2. HandlerHasJob'
    BY <1>4 DEF ReadReplyLost, TypeInv, HandlerHasJob, handlerVars
  <2>3. HoldsDelivered'
    <3> SUFFICES ASSUME NEW v \in Workers, Busy(v)
                 PROVE  holds[v] \in 1..cursor'[StreamOf(v)]
      BY <1>4 DEF HoldsDelivered, Busy, StreamOf, ReadReplyLost, workerVars
    <3>1. StreamOf(v) \in Streams
      BY DEF StreamOf
    <3>2. holds[v] \in 1..cursor[StreamOf(v)]
      BY DEF TypeInv, HoldsDelivered
    <3>3. cursor[StreamOf(v)] \in Nat /\ cursor'[StreamOf(v)] \in Nat
          /\ cursor[StreamOf(v)] <= cursor'[StreamOf(v)]
      BY <1>2, <1>4, <3>1 DEF ReadReplyLost, TypeInv, TypeOK
    <3> QED
      BY <3>2, <3>3
  <2> QED
    BY <2>1, <2>2, <2>3 DEF TypeInv
<1>5. ASSUME NEW label \in WorkerPCs, GotoW(w, label), Busy(w),
             holds' = holds, success' \in [Workers -> BOOLEAN],
             result' \in [JobIDs -> StoredResult \cup {None}],
             inbox' \in [Clients -> StoredResult \cup {None}],
             missed' \subseteq Clients,
             UNCHANGED <<entries, group, cursor, pel, pc, stream, job, sub,
                         answer, up, issued>>,
             faults' \in 0..MaxFaults
      PROVE  TypeInv'
  BY <1>5 DEF TypeInv, TypeOK, HandlerHasJob, HoldsDelivered, Busy, StreamOf,
     GotoW, WorkerPCs
<1>6. ASSUME EndJob(w), pel' \in [Streams -> SUBSET Nat],
             UNCHANGED <<entries, group, cursor, result, handlerVars,
                         up, issued>>,
             faults' \in 0..MaxFaults
      PROVE  TypeInv'
  BY <1>6 DEF TypeInv, TypeOK, HandlerHasJob, HoldsDelivered, Busy, StreamOf,
     EndJob, WorkerPCs, handlerVars
<1>7. CASE Process(w)
  BY <1>7, <1>5 DEF Process, Busy, TypeInv, TypeOK, WorkerPCs, redisVars,
     handlerVars, envVars
<1>8. CASE StoreResult(w)
  <2>1. Envelope(w) \in StoredResult /\ HeldEntry(w).job \in JobIDs
    BY <1>8, EnvelopeType DEF StoreResult, Busy
  <2>2. result' \in [JobIDs -> StoredResult \cup {None}]
    BY <1>8, <2>1 DEF StoreResult, TypeInv, TypeOK
  <2> QED
    BY <1>8, <2>2, <1>5 DEF StoreResult, Busy, TypeInv, TypeOK, WorkerPCs,
       handlerVars, envVars
<1>9. CASE Publish(w)
  <2>1. Envelope(w) \in StoredResult
    BY <1>9, EnvelopeType DEF Publish, Busy
  <2>2. /\ inbox' \in [Clients -> StoredResult \cup {None}]
        /\ missed' \subseteq Clients
    BY <1>9, <2>1 DEF Publish, Subscribing, TypeInv, TypeOK
  <2> QED
    BY <1>9, <2>2, <1>5 DEF Publish, Busy, TypeInv, TypeOK, WorkerPCs,
       redisVars, envVars
<1>10. CASE Ack(w)
  <2>1. pel' \in [Streams -> SUBSET Nat]
    BY <1>10 DEF Ack, TypeInv, TypeOK
  <2> QED
    BY <1>10, <2>1, <1>6 DEF Ack, TypeInv, TypeOK, envVars
<1>11. CASE StoreResultFails(w)
  BY <1>11, <1>5, FaultType DEF StoreResultFails, Busy, TypeInv, TypeOK,
     WorkerPCs, redisVars, handlerVars
<1>12. CASE PublishFails(w)
  BY <1>12, <1>5, FaultType DEF PublishFails, Busy, TypeInv, TypeOK,
     WorkerPCs, redisVars, handlerVars
<1>13. CASE AckFails(w)
  BY <1>13, <1>6, FaultType DEF AckFails, TypeInv, TypeOK, redisVars
<1> QED
  BY <1>3, <1>4, <1>7, <1>8, <1>9, <1>10, <1>11, <1>12, <1>13
     DEF WorkerStep, WorkerFault

\* Starts, crashes, panics and expiries keep the types.
LEMMA EnvironmentTypeStep ==
    ASSUME TypeInv,
           \/ \E p \in Replicas : Start(p) \/ Crash(p)
           \/ \E w \in Workers : Panic(w)
           \/ \E j \in JobIDs : Expire(j)
    PROVE  TypeInv'
<1> USE JobQueueAssumption
<1>1. ASSUME NEW p \in Replicas, Start(p) PROVE TypeInv'
  <2>1. group' \in [Streams -> BOOLEAN]
    BY <1>1 DEF Start, Bootstrap, TypeInv, TypeOK
  <2>2. faults' \in 0..MaxFaults
    BY <1>1, FaultType DEF Start, TypeInv, TypeOK
  <2>3. wpc' \in [Workers -> WorkerPCs] /\ up' \in [Replicas -> BOOLEAN]
        /\ \A w \in Workers : Busy(w)' => Busy(w)
    BY <1>1 DEF Start, TypeInv, TypeOK, WorkerPCs, Busy
  <2> QED
    BY <1>1, <2>1, <2>2, <2>3 DEF Start, TypeInv, TypeOK, HandlerHasJob,
       HoldsDelivered, StreamOf, handlerVars
<1>2. ASSUME NEW p \in Replicas, Die(p), pel' \in [Streams -> SUBSET Nat],
             UNCHANGED <<entries, group, cursor, result>>
      PROVE  TypeInv'
  <2>1. faults' \in 0..MaxFaults
    BY <1>2, FaultType DEF Die, TypeInv
  <2>2. /\ wpc' \in [Workers -> WorkerPCs] /\ holds' \in [Workers -> Nat]
        /\ success' \in [Workers -> BOOLEAN] /\ up' \in [Replicas -> BOOLEAN]
        /\ \A w \in Workers : Busy(w)' => Busy(w) /\ holds'[w] = holds[w]
    BY <1>2 DEF Die, TypeInv, TypeOK, WorkerPCs, Busy
  <2>3. /\ pc' \in [Clients -> HandlerPCs]
        /\ sub' \in [Clients -> {"off", "sent", "active"}]
        /\ inbox' \in [Clients -> StoredResult \cup {None}]
        /\ \A c \in Clients : pc'[c] = "idle" \/ pc'[c] = pc[c]
    BY <1>2 DEF Die, TypeInv, TypeOK, HandlerPCs
  <2>4. answer' \in [Clients -> Answers]
    BY <1>2 DEF Die, TypeInv, TypeOK, Answers, Outcomes
  <2>5. TypeOK'
    BY <1>2, <2>1, <2>2, <2>3, <2>4 DEF Die, TypeInv, TypeOK
  <2>6. HandlerHasJob'
    BY <1>2, <2>3 DEF Die, TypeInv, HandlerHasJob
  <2>7. HoldsDelivered'
    BY <1>2, <2>2 DEF Die, TypeInv, HoldsDelivered, StreamOf
  <2> QED
    BY <2>5, <2>6, <2>7 DEF TypeInv
<1>3. ASSUME NEW j \in JobIDs, Expire(j) PROVE TypeInv'
  <2>1. faults' \in 0..MaxFaults
    BY <1>3, FaultType DEF Expire, TypeInv, TypeOK
  <2>2. result' \in [JobIDs -> StoredResult \cup {None}]
    BY <1>3 DEF Expire, TypeInv, TypeOK
  <2> QED
    BY <1>3, <2>1, <2>2 DEF Expire, TypeInv, TypeOK, HandlerHasJob,
       HoldsDelivered, Busy, StreamOf, handlerVars, workerVars
<1>4. ASSUME NEW p \in Replicas, Crash(p) PROVE TypeInv'
  BY <1>2, <1>4 DEF Crash, redisVars, TypeInv, TypeOK
<1>5. ASSUME NEW w \in Workers, Panic(w) PROVE TypeInv'
  <2>1. HostOf[w] \in Replicas /\ StreamOf(w) \in Streams
    BY DEF StreamOf
  <2>2. pel' \in [Streams -> SUBSET Nat]
    BY <1>5, <2>1 DEF Panic, TypeInv, TypeOK
  <2> QED
    BY <1>2, <1>5, <2>1, <2>2 DEF Panic
<1> QED
  BY <1>1, <1>3, <1>4, <1>5

\* Every step keeps the strengthened type invariant.
LEMMA TypeInvStep == TypeInv /\ [Next]_vars => TypeInv'
<1> SUFFICES ASSUME TypeInv, [Next]_vars PROVE TypeInv'
  OBVIOUS
<1>1. CASE Next
  BY <1>1, HandlerTypeStep, WorkerTypeStep, EnvironmentTypeStep DEF Next
<1>2. CASE UNCHANGED vars
  BY <1>2 DEF vars, redisVars, handlerVars, workerVars, envVars, TypeInv,
     TypeOK, HandlerHasJob, HoldsDelivered, Busy, StreamOf
<1> QED
  BY <1>1, <1>2

\* The strengthened type invariant holds at first.
LEMMA TypeInvInit == Init => TypeInv
<1> SUFFICES ASSUME Init PROVE TypeInv
  OBVIOUS
<1> USE JobQueueAssumption
<1>1. stream \in [Clients -> Streams]
  BY DEF Init
<1> QED
  BY <1>1 DEF Init, TypeInv, TypeOK, HandlerHasJob, HoldsDelivered, Busy,
     HandlerPCs, WorkerPCs, Answers, Outcomes, JobIDs

\* Whatever fails and whoever runs when, the state keeps its types and the
\* consumer group never points past the end of its stream.
THEOREM TypeCorrect == Spec => []TypeOK
<1>1. TypeInv => TypeOK
  BY DEF TypeInv
<1> QED
  BY <1>1, TypeInvInit, TypeInvStep, PTL DEF Spec

-----------------------------------------------------------------------------
(***************************************************************************)
(* The depth limit.                                                        *)
(***************************************************************************)

\* The handlers between the check and the XADD are finitely many.
LEMMA AddingFinite ==
    ASSUME TypeOK, NEW s \in Streams
    PROVE  /\ IsFiniteSet(Adding(s))
           /\ Cardinality(Adding(s)) \in Nat
           /\ Cardinality(Clients) \in Nat
           /\ Cardinality(Adding(s)) <= Cardinality(Clients)
<1>1. Adding(s) \subseteq Clients
  BY DEF Adding
<1> QED
  BY <1>1, FS_Subset, FS_CardinalityType, JobQueueAssumption

\* The numbers in the bound are natural.
LEMMA CountTypes ==
    ASSUME TypeOK, NEW s \in Streams
    PROVE  Len(entries[s]) \in Nat /\ MaxDepth[s] \in Nat /\ faults \in Nat
BY JobQueueAssumption DEF TypeOK

\* A step that adds nothing to a stream and lets no handler past the check
\* keeps the bound.
LEMMA NoNewAdderKeepsBound ==
    ASSUME TypeOK, TypeOK', DepthBound, entries' = entries, faults' >= faults,
           \A s \in Streams : Adding(s)' \subseteq Adding(s)
    PROVE  DepthBound'
<1> SUFFICES ASSUME NEW s \in Streams
             PROVE  Len(entries'[s]) + Cardinality(Adding(s)')
                      < MaxDepth[s] + Cardinality(Clients) + faults'
  BY DEF DepthBound
<1>1. Cardinality(Adding(s)') <= Cardinality(Adding(s))
      /\ Cardinality(Adding(s)') \in Nat
  BY AddingFinite, FS_Subset, FS_CardinalityType
<1>2. /\ Cardinality(Adding(s)) \in Nat /\ Cardinality(Clients) \in Nat
      /\ Len(entries[s]) \in Nat /\ MaxDepth[s] \in Nat
      /\ faults \in Nat /\ faults' \in Nat
  <2>1. faults' \in Nat
    BY JobQueueAssumption DEF TypeOK
  <2> QED
    BY <2>1, AddingFinite, CountTypes
<1>3. Len(entries[s]) + Cardinality(Adding(s))
        < MaxDepth[s] + Cardinality(Clients) + faults
  BY DEF DepthBound
<1> QED
  BY <1>1, <1>2, <1>3, SMTT(30)

\* A handler that adds its job leaves the adders; n - 1 of the entries are not
\* paid for by that.
LEMMA AddingKeepsBound ==
    ASSUME TypeOK, DepthBound, NEW c \in Clients, NEW n \in 0..2,
           pc[c] = "add", issued < MaxJobs, pc'[c] # "add",
           \A d \in Clients \ {c} : pc'[d] = pc[d], stream' = stream,
           entries' = [entries EXCEPT ![stream[c]] = @ \o JobEntries(c, n)],
           faults' \in Nat, faults' >= faults, n <= 1 \/ faults' = faults + 1
    PROVE  DepthBound'
<1> SUFFICES ASSUME NEW s \in Streams
             PROVE  Len(entries'[s]) + Cardinality(Adding(s)')
                      < MaxDepth[s] + Cardinality(Clients) + faults'
  BY DEF DepthBound
<1>1. /\ Cardinality(Adding(s)) \in Nat /\ Cardinality(Clients) \in Nat
      /\ Len(entries[s]) \in Nat /\ MaxDepth[s] \in Nat
      /\ faults \in Nat /\ IsFiniteSet(Adding(s))
  <2>1. Len(entries[s]) \in Nat /\ MaxDepth[s] \in Nat /\ faults \in Nat
    BY CountTypes
  <2> QED
    BY <2>1, AddingFinite
<1>2. Len(entries[s]) + Cardinality(Adding(s))
        < MaxDepth[s] + Cardinality(Clients) + faults
  BY DEF DepthBound
<1>3. CASE s = stream[c]
  <2>1. c \in Adding(s) /\ Adding(s)' = Adding(s) \ {c}
    BY <1>3 DEF Adding
  <2>2. Cardinality(Adding(s)') = Cardinality(Adding(s)) - 1
    BY <1>1, <2>1, FS_RemoveElement
  <2>3. Len(entries'[s]) = Len(entries[s]) + n
    BY <1>3, AppendType
  <2> QED
    BY <1>1, <1>2, <2>2, <2>3, SMTT(30)
<1>4. CASE s # stream[c]
  <2>1. Adding(s)' = Adding(s)
    BY <1>4 DEF Adding
  <2>2. Len(entries'[s]) = Len(entries[s])
    BY <1>1, <1>4, AppendType
  <2> QED
    BY <1>1, <1>2, <2>1, <2>2
<1> QED
  BY <1>3, <1>4

\* A handler passes the check while the stream is below its limit: all the
\* handlers together may then be adding.
LEMMA CheckingKeepsBound ==
    ASSUME TypeOK, TypeOK', DepthBound, NEW c \in Clients, pc[c] = "check",
           ~Full(stream[c]), Goto(c, "add"), stream' = stream,
           entries' = entries, faults' = faults
    PROVE  DepthBound'
<1> SUFFICES ASSUME NEW s \in Streams
             PROVE  Len(entries'[s]) + Cardinality(Adding(s)')
                      < MaxDepth[s] + Cardinality(Clients) + faults'
  BY DEF DepthBound
<1>1. /\ Cardinality(Clients) \in Nat /\ Len(entries[s]) \in Nat
      /\ MaxDepth[s] \in Nat /\ faults \in Nat
      /\ Cardinality(Adding(s)') \in Nat
      /\ Cardinality(Adding(s)') <= Cardinality(Clients)
  <2>1. Len(entries[s]) \in Nat /\ MaxDepth[s] \in Nat /\ faults \in Nat
    BY CountTypes
  <2>2. Adding(s)' \subseteq Clients
    BY DEF Adding
  <2> QED
    BY <2>1, <2>2, FS_Subset, FS_CardinalityType, JobQueueAssumption
<1>2. CASE s = stream[c]
  <2>1. Len(entries[s]) < MaxDepth[s]
    BY <1>1, <1>2 DEF Full
  <2> QED
    BY <1>1, <2>1
<1>3. CASE s # stream[c]
  <2>1. Adding(s)' = Adding(s)
    BY <1>3 DEF Adding, Goto, TypeOK
  <2> QED
    BY <1>1, <2>1 DEF DepthBound
<1> QED
  BY <1>2, <1>3

\* Every step keeps the bound.
LEMMA DepthBoundStep ==
    ASSUME TypeInv, TypeInv', DepthBound, [Next]_vars
    PROVE  DepthBound'
<1> USE DEF TypeInv
<1>1. ASSUME NEW c \in Clients, AddJob(c) PROVE DepthBound'
  <2>1. pc'[c] # "add" /\ \A d \in Clients \ {c} : pc'[d] = pc[d]
    BY <1>1 DEF AddJob, Goto, TypeOK
  <2>2. faults' \in Nat /\ faults' >= faults /\ 1 \in 0..2 /\ 1 <= 1
    BY <1>1, JobQueueAssumption DEF AddJob, TypeOK
  <2> QED
    BY <1>1, <2>1, <2>2, AddingKeepsBound DEF AddJob
<1>2. ASSUME NEW c \in Clients, AddJobFaulty(c) PROVE DepthBound'
  <2>1. PICK n \in 0..2 :
          /\ entries' = [entries EXCEPT ![stream[c]] = @ \o JobEntries(c, n)]
          /\ Close(c, "error", None) \/ Goto(c, "subscribe")
    BY <1>2 DEF AddJobFaulty
  <2>2. pc'[c] # "add" /\ \A d \in Clients \ {c} : pc'[d] = pc[d]
    <3>1. PICK label \in {"idle", "subscribe"} :
            pc' = [pc EXCEPT ![c] = label]
      BY <2>1 DEF Close, Goto
    <3>2. DOMAIN pc = Clients
      BY DEF TypeOK
    <3> QED
      BY <3>1, <3>2
  <2>3. faults' \in Nat /\ faults' >= faults /\ faults' = faults + 1
    BY <1>2, JobQueueAssumption DEF AddJobFaulty, Fault, TypeOK
  <2> QED
    BY <1>2, <2>1, <2>2, <2>3, AddingKeepsBound DEF AddJobFaulty
<1>3. ASSUME NEW c \in Clients, CheckDepth(c), ~Full(stream[c])
      PROVE  DepthBound'
  BY <1>3, CheckingKeepsBound DEF CheckDepth, redisVars, envVars
<1>4. ASSUME entries' = entries, faults' >= faults,
             \A c \in Clients : pc'[c] = "add" =>
                 pc[c] = "add" /\ stream'[c] = stream[c]
      PROVE  DepthBound'
  <2>1. \A s \in Streams : Adding(s)' \subseteq Adding(s)
    BY <1>4 DEF Adding
  <2> QED
    BY <1>4, <2>1, NoNewAdderKeepsBound
<1>5. faults' = faults \/ Fault => faults' >= faults
  BY JobQueueAssumption DEF Fault, TypeOK
<1>6. ASSUME NEW c \in Clients, NEW event, NEW payload,
             Close(c, event, payload), stream' = stream, entries' = entries,
             faults' = faults \/ Fault
      PROVE  DepthBound'
  BY <1>4, <1>5, <1>6 DEF Close, TypeOK
<1>7. ASSUME NEW c \in Clients, NEW label \in {"get", "wait"}, Goto(c, label),
             stream' = stream, entries' = entries, faults' = faults \/ Fault
      PROVE  DepthBound'
  BY <1>4, <1>5, <1>7 DEF Goto, TypeOK
<1>8. ASSUME pc' = pc, stream' = stream, entries' = entries,
             faults' = faults \/ Fault
      PROVE  DepthBound'
  BY <1>4, <1>5, <1>8
<1>9. ASSUME NEW c \in Clients, NEW s \in Streams, Submit(c, s)
      PROVE  DepthBound'
  BY <1>9, <1>4, <1>5 DEF Submit, Goto, TypeOK, redisVars, envVars
<1>10. ASSUME NEW c \in Clients, Refuse(c) PROVE DepthBound'
  BY <1>10, <1>6 DEF Refuse, redisVars, envVars
<1>11. ASSUME NEW c \in Clients, HandlerStep(c) PROVE DepthBound'
  <2>1. CASE CheckDepth(c)
    BY <2>1, <1>3, <1>6 DEF CheckDepth, redisVars, envVars
  <2>2. CASE Subscribe(c)
    BY <2>2, <1>7 DEF Subscribe, redisVars, envVars
  <2>3. CASE SubscribeArrives(c)
    BY <2>3, <1>8 DEF SubscribeArrives, redisVars, envVars
  <2>4. CASE GetResult(c)
    BY <2>4, <1>6, <1>7 DEF GetResult, Deliver, redisVars, envVars
  <2>5. CASE Receive(c)
    BY <2>5, <1>6 DEF Receive, Deliver, redisVars, envVars
  <2>6. CASE Timeout(c)
    BY <2>6, <1>6 DEF Timeout, redisVars, envVars
  <2> QED
    BY <1>1, <1>11, <2>1, <2>2, <2>3, <2>4, <2>5, <2>6 DEF HandlerStep
<1>12. ASSUME NEW c \in Clients, HandlerFault(c) PROVE DepthBound'
  <2>1. CASE CheckDepthFails(c)
    BY <2>1, <1>6 DEF CheckDepthFails, redisVars
  <2>2. CASE GetResultFails(c)
    BY <2>2, <1>7 DEF GetResultFails, redisVars
  <2>3. CASE Disconnect(c)
    BY <2>3, <1>6 DEF Disconnect, redisVars, envVars
  <2> QED
    BY <1>2, <1>12, <2>1, <2>2, <2>3 DEF HandlerFault
<1>13. ASSUME NEW w \in Workers, WorkerStep(w) \/ WorkerFault(w)
       PROVE  DepthBound'
  BY <1>13, <1>8 DEF WorkerStep, WorkerFault, ReadJob, Process, StoreResult,
     Publish, Ack, ReadReplyLost, StoreResultFails, PublishFails, AckFails,
     redisVars, handlerVars, envVars
<1>14. ASSUME NEW p \in Replicas, Start(p) PROVE DepthBound'
  BY <1>14, <1>8 DEF Start, handlerVars
<1>15. ASSUME NEW p \in Replicas, Crash(p) PROVE DepthBound'
  BY <1>15, <1>4, <1>5 DEF Crash, Die, TypeOK, redisVars
<1>18. ASSUME NEW w \in Workers, Panic(w) PROVE DepthBound'
  BY <1>18, <1>4, <1>5 DEF Panic, Die, TypeOK
<1>16. ASSUME NEW j \in JobIDs, Expire(j) PROVE DepthBound'
  BY <1>16, <1>8 DEF Expire, handlerVars
<1>17. CASE UNCHANGED vars
  BY <1>17, <1>8 DEF vars, redisVars, handlerVars, envVars
<1> QED
  BY <1>9, <1>10, <1>11, <1>12, <1>13, <1>14, <1>15, <1>16, <1>17, <1>18
     DEF Next

\* Enqueue's check and its XADD are not atomic, and a lost reply makes the
\* client library add an entry twice; with n handlers a stream still never
\* grows beyond its limit by n or more, except for the doubled entries.
THEOREM DepthIsBounded == Spec => []DepthBound
<1>1. Init => DepthBound
  <2> SUFFICES ASSUME Init, NEW s \in Streams
               PROVE  Len(entries[s]) + Cardinality(Adding(s))
                        < MaxDepth[s] + Cardinality(Clients) + faults
    BY DEF DepthBound
  <2>1. Adding(s) = {} /\ Len(entries[s]) = 0 /\ faults = 0
    BY DEF Init, Adding
  <2>2. /\ Cardinality(Adding(s)) = 0 /\ Cardinality(Clients) \in Nat
        /\ MaxDepth[s] \in Nat \ {0}
    BY <2>1, FS_EmptySet, FS_CardinalityType, JobQueueAssumption
  <2> QED
    BY <2>1, <2>2
<1> QED
  BY <1>1, TypeInvInit, TypeInvStep, DepthBoundStep, PTL DEF Spec

-----------------------------------------------------------------------------
(***************************************************************************)
(* Who works on an entry.                                                  *)
(***************************************************************************)

\* Only delivered entries are pending.
PelDelivered == \A s \in Streams : pel[s] \subseteq 1..cursor[s]

\* ExclusiveEntry is inductive with the bound on what a worker holds; the
\* pending list's bound is what makes the next entry a fresh one.
EntryInv == ExclusiveEntry /\ PelDelivered

\* A step after which only workers that were busy are busy, with what they
\* held, and what they hold is pending, shares no entry.
LEMMA SameHoldersKeepEntryInv ==
    ASSUME TypeInv, EntryInv, cursor' = cursor,
           \A w \in Workers : Busy(w)' =>
               /\ Busy(w) /\ holds'[w] = holds[w]
               /\ holds[w] \in pel'[StreamOf(w)],
           \A s \in Streams : pel'[s] \subseteq pel[s]
    PROVE  EntryInv'
<1>1. ExclusiveEntry'
  BY DEF EntryInv, ExclusiveEntry, StreamOf
<1>2. PelDelivered'
  BY DEF EntryInv, PelDelivered
<1> QED
  BY <1>1, <1>2 DEF EntryInv

\* An entry handed out now was not handed out before.
LEMMA TakeNextFresh ==
    ASSUME TypeInv, EntryInv, NEW s \in Streams, TakeNext(s)
    PROVE  /\ cursor[s] + 1 \notin pel[s]
           /\ \A w \in Workers :
                 Busy(w) /\ StreamOf(w) = s => holds[w] # cursor[s] + 1
           /\ \A t \in Streams : pel[t] \subseteq pel'[t]
           /\ cursor[s] + 1 \in pel'[s]
           /\ PelDelivered'
<1>1. cursor[s] \in Nat /\ \A t \in Streams : cursor[t] \in Nat
  BY DEF TypeInv, TypeOK
<1>2. cursor[s] + 1 \notin 1..cursor[s]
  BY <1>1
<1>3. pel[s] \subseteq 1..cursor[s]
  BY DEF EntryInv, PelDelivered
<1>4. \A w \in Workers :
         Busy(w) /\ StreamOf(w) = s => holds[w] \in 1..cursor[s]
  BY DEF TypeInv, HoldsDelivered
<1>5. /\ pel' = [pel EXCEPT ![s] = @ \cup {cursor[s] + 1}]
      /\ cursor' = [cursor EXCEPT ![s] = @ + 1]
      /\ pel \in [Streams -> SUBSET Nat] /\ cursor \in [Streams -> Nat]
  BY DEF TakeNext, TypeInv, TypeOK
<1>6. \A t \in Streams : pel'[t] \subseteq 1..cursor'[t]
  <2> SUFFICES ASSUME NEW t \in Streams PROVE pel'[t] \subseteq 1..cursor'[t]
    OBVIOUS
  <2>1. CASE t = s
    <3>1. pel'[t] = pel[s] \cup {cursor[s] + 1} /\ cursor'[t] = cursor[s] + 1
      BY <1>5, <2>1
    <3> QED
      BY <1>1, <1>3, <3>1
  <2>2. CASE t # s
    BY <1>5, <2>2 DEF EntryInv, PelDelivered
  <2> QED
    BY <2>1, <2>2
<1> QED
  BY <1>2, <1>3, <1>4, <1>5, <1>6 DEF PelDelivered

\* The steps of a worker keep the entries apart.
LEMMA WorkerEntryStep ==
    ASSUME TypeInv, EntryInv, NEW w \in Workers, WorkerStep(w) \/ WorkerFault(w)
    PROVE  EntryInv'
<1> USE JobQueueAssumption
<1>0. StreamOf(w) \in Streams
  BY DEF StreamOf
<1>1. CASE ReadJob(w)
  <2>1. TakeNext(StreamOf(w))
    BY <1>1 DEF ReadJob
  <2>2. /\ Busy(w)' /\ ~Busy(w) /\ holds'[w] = cursor[StreamOf(w)] + 1
        /\ \A v \in Workers \ {w} :
              Busy(v)' = Busy(v) /\ holds'[v] = holds[v]
    BY <1>1 DEF ReadJob, GotoW, Busy, TypeInv, TypeOK
  <2>3. ExclusiveEntry'
    <3> SUFFICES
          ASSUME NEW u \in Workers, Busy(u)'
          PROVE  /\ holds'[u] \in pel'[StreamOf(u)]
                 /\ \A v \in Workers :
                       /\ Busy(v)' /\ StreamOf(v) = StreamOf(u)
                       /\ holds'[v] = holds'[u]
                       => v = u
      BY DEF ExclusiveEntry, StreamOf
    <3>0. StreamOf(u) \in Streams
      BY DEF StreamOf
    <3>1. CASE u = w
      BY <1>0, <2>1, <2>2, <3>1, TakeNextFresh
    <3>2. CASE u # w
      <4>1. Busy(u) /\ holds'[u] = holds[u]
        BY <2>2, <3>2
      <4>2. holds[u] \in pel'[StreamOf(u)]
        BY <1>0, <2>1, <3>0, <4>1, TakeNextFresh DEF EntryInv, ExclusiveEntry
      <4>3. ASSUME NEW v \in Workers, Busy(v)', StreamOf(v) = StreamOf(u),
                   holds'[v] = holds'[u]
            PROVE  v = u
        <5>1. v # w
          BY <1>0, <2>1, <2>2, <4>1, <4>3, TakeNextFresh
        <5>2. Busy(v) /\ holds[v] = holds[u]
          BY <2>2, <4>1, <4>3, <5>1
        <5> QED
          BY <4>1, <4>3, <5>2 DEF EntryInv, ExclusiveEntry
      <4> QED
        BY <4>1, <4>2, <4>3
    <3> QED
      BY <3>1, <3>2
  <2> QED
    BY <1>0, <2>1, <2>3, TakeNextFresh DEF EntryInv
<1>2. CASE ReadReplyLost(w)
  <2>1. TakeNext(StreamOf(w)) /\ UNCHANGED <<wpc, holds>>
    BY <1>2 DEF ReadReplyLost, workerVars
  <2>2. \A s \in Streams : pel[s] \subseteq pel'[s]
    BY <1>0, <2>1, TakeNextFresh
  <2>3. ExclusiveEntry'
    BY <2>1, <2>2 DEF EntryInv, ExclusiveEntry, Busy, StreamOf
  <2> QED
    BY <1>0, <2>1, <2>3, TakeNextFresh DEF EntryInv
<1>3. CASE Ack(w)
  <2>1. Busy(w) /\ ~Busy(w)'
        /\ \A v \in Workers \ {w} :
              Busy(v)' = Busy(v) /\ holds'[v] = holds[v]
    BY <1>3 DEF Ack, EndJob, Busy, TypeInv, TypeOK
  <2>2. cursor' = cursor
        /\ pel' = [pel EXCEPT ![StreamOf(w)] = @ \ {holds[w]}]
        /\ pel \in [Streams -> SUBSET Nat]
    BY <1>3 DEF Ack, TypeInv, TypeOK
  <2>3. ASSUME NEW v \in Workers, Busy(v)'
        PROVE  /\ Busy(v) /\ holds'[v] = holds[v]
               /\ holds[v] \in pel'[StreamOf(v)]
    <3>1. v # w /\ Busy(v) /\ holds'[v] = holds[v] /\ StreamOf(v) \in Streams
      BY <2>1, <2>3 DEF StreamOf
    <3>2. holds[v] \in pel[StreamOf(v)]
          /\ (StreamOf(v) = StreamOf(w) => holds[v] # holds[w])
      BY <2>1, <3>1 DEF EntryInv, ExclusiveEntry
    <3> QED
      BY <1>0, <2>2, <3>1, <3>2
  <2>4. \A s \in Streams : pel'[s] \subseteq pel[s]
    BY <1>0, <2>2
  <2> QED
    BY <2>2, <2>3, <2>4, SameHoldersKeepEntryInv
<1>4. ASSUME UNCHANGED <<cursor, pel>>,
             \A v \in Workers : Busy(v)' => Busy(v) /\ holds'[v] = holds[v]
      PROVE  EntryInv'
  <2>1. \A v \in Workers : Busy(v) => holds[v] \in pel'[StreamOf(v)]
    BY <1>4 DEF EntryInv, ExclusiveEntry
  <2> QED
    BY <1>4, <2>1, SameHoldersKeepEntryInv
<1>5. CASE Process(w)
  BY <1>5, <1>4 DEF Process, GotoW, Busy, TypeInv, TypeOK, redisVars
<1>6. CASE StoreResult(w)
  BY <1>6, <1>4 DEF StoreResult, GotoW, Busy, TypeInv, TypeOK
<1>7. CASE Publish(w)
  BY <1>7, <1>4 DEF Publish, GotoW, Busy, TypeInv, TypeOK, redisVars
<1>8. CASE StoreResultFails(w)
  BY <1>8, <1>4 DEF StoreResultFails, GotoW, Busy, TypeInv, TypeOK, redisVars
<1>9. CASE PublishFails(w)
  BY <1>9, <1>4 DEF PublishFails, GotoW, Busy, TypeInv, TypeOK, redisVars
<1>10. CASE AckFails(w)
  BY <1>10, <1>4 DEF AckFails, EndJob, Busy, TypeInv, TypeOK, redisVars
<1> QED
  BY <1>1, <1>2, <1>3, <1>5, <1>6, <1>7, <1>8, <1>9, <1>10
     DEF WorkerStep, WorkerFault

\* Every step keeps the entries apart.
LEMMA EntryInvStep ==
    ASSUME TypeInv, EntryInv, [Next]_vars
    PROVE  EntryInv'
<1>1. ASSUME UNCHANGED <<cursor, pel>>,
             \A v \in Workers : Busy(v)' => Busy(v) /\ holds'[v] = holds[v]
      PROVE  EntryInv'
  <2>1. \A v \in Workers : Busy(v) => holds[v] \in pel'[StreamOf(v)]
    BY <1>1 DEF EntryInv, ExclusiveEntry
  <2> QED
    BY <1>1, <2>1, SameHoldersKeepEntryInv
<1>2. ASSUME UNCHANGED <<cursor, pel, wpc, holds>> PROVE EntryInv'
  BY <1>1, <1>2 DEF Busy
<1>3. ASSUME NEW p \in Replicas, Start(p) PROVE EntryInv'
  BY <1>3, <1>1 DEF Start, Busy, TypeInv, TypeOK
<1>4. ASSUME NEW p \in Replicas, Crash(p) PROVE EntryInv'
  BY <1>4, <1>1 DEF Crash, Die, Busy, TypeInv, TypeOK, redisVars
<1>5. ASSUME NEW c \in Clients,
             \/ \E s \in Streams : Submit(c, s)
             \/ Refuse(c) \/ HandlerStep(c) \/ HandlerFault(c)
      PROVE  EntryInv'
  BY <1>5, <1>2 DEF Submit, Refuse, HandlerStep, HandlerFault, CheckDepth,
     AddJob, Subscribe, SubscribeArrives, GetResult, Receive, Timeout,
     CheckDepthFails, AddJobFaulty, GetResultFails, Disconnect, redisVars,
     workerVars
<1>6. ASSUME NEW j \in JobIDs, Expire(j) PROVE EntryInv'
  BY <1>6, <1>2 DEF Expire, workerVars
<1>7. CASE UNCHANGED vars
  BY <1>7, <1>2 DEF vars, redisVars, workerVars
<1>8. ASSUME NEW w \in Workers, Panic(w) PROVE EntryInv'
  <2>1. Busy(w) /\ StreamOf(w) \in Streams
    BY <1>8, JobQueueAssumption DEF Panic, Busy, StreamOf
  <2>2. cursor' = cursor
        /\ pel' = [pel EXCEPT ![StreamOf(w)] = @ \ {holds[w]}]
        /\ pel \in [Streams -> SUBSET Nat]
    BY <1>8 DEF Panic, TypeInv, TypeOK
  <2>3. ASSUME NEW v \in Workers, Busy(v)'
        PROVE  /\ Busy(v) /\ holds'[v] = holds[v]
               /\ holds[v] \in pel'[StreamOf(v)]
    <3>1. v # w /\ Busy(v) /\ holds'[v] = holds[v]
      BY <1>8, <2>3 DEF Panic, Die, Busy, TypeInv, TypeOK
    <3>2. holds[v] \in pel[StreamOf(v)]
          /\ (StreamOf(v) = StreamOf(w) => holds[v] # holds[w])
      BY <2>1, <3>1 DEF EntryInv, ExclusiveEntry
    <3>3. StreamOf(v) \in Streams
      BY JobQueueAssumption DEF StreamOf
    <3> QED
      BY <2>1, <2>2, <3>1, <3>2, <3>3
  <2>4. \A s \in Streams : pel'[s] \subseteq pel[s]
    BY <2>1, <2>2
  <2> QED
    BY <2>2, <2>3, <2>4, SameHoldersKeepEntryInv
<1> QED
  BY <1>3, <1>4, <1>5, <1>6, <1>7, <1>8, WorkerEntryStep DEF Next

\* No entry is handed out at first.
LEMMA EntryInvInit == Init => EntryInv
BY DEF Init, EntryInv, ExclusiveEntry, PelDelivered, Busy

\* No two workers, of however many replicas, ever run the same stream entry,
\* and an entry that is being run is on the pending list, through every
\* crash, restart and lost reply.
THEOREM EntriesAreExclusive == Spec => []ExclusiveEntry
<1>1. EntryInv => ExclusiveEntry
  BY DEF EntryInv
<1> QED
  BY <1>1, TypeInvInit, TypeInvStep, EntryInvInit, EntryInvStep, PTL DEF Spec

\* A job that was started, and may have killed its worker, is not handed out
\* again.
THEOREM PoisonJobsRunOnce == Spec => PoisonJobOnce
<1> DEFINE Once == \A w \in Workers :
              wpc[w] = "read" /\ Busy(w)' =>
                  /\ holds'[w] \notin pel[StreamOf(w)]
                  /\ ~Done(StreamOf(w), holds'[w])
<1>1. ASSUME TypeInv, EntryInv, [Next]_vars PROVE [Once]_vars
  <2>1. ASSUME NEW w \in Workers, wpc[w] = "read", Busy(w)'
        PROVE  /\ holds'[w] \notin pel[StreamOf(w)]
               /\ ~Done(StreamOf(w), holds'[w])
    <3>1. ReadJob(w)
      <4>1. wpc' # wpc
        BY <2>1 DEF Busy
      <4>2. PICK v \in Workers : WorkerStep(v) \/ WorkerFault(v)
        <5>1. ASSUME NEW p \in Replicas, Start(p) \/ Crash(p) PROVE FALSE
          BY <2>1, <5>1 DEF Start, Crash, Die, Busy
        <5>5. ASSUME NEW v \in Workers, Panic(v) PROVE FALSE
          BY <2>1, <5>5 DEF Panic, Die, Busy
        <5>2. ASSUME NEW c \in Clients,
                     \/ \E s \in Streams : Submit(c, s)
                     \/ Refuse(c) \/ HandlerStep(c) \/ HandlerFault(c)
              PROVE  FALSE
          BY <4>1, <5>2 DEF Submit, Refuse, HandlerStep, HandlerFault,
             CheckDepth, AddJob, Subscribe, SubscribeArrives, GetResult,
             Receive, Timeout, CheckDepthFails, AddJobFaulty, GetResultFails,
             Disconnect, workerVars
        <5>3. ASSUME NEW j \in JobIDs, Expire(j) PROVE FALSE
          BY <4>1, <5>3 DEF Expire, workerVars
        <5>4. Next
          BY <1>1, <4>1 DEF vars, workerVars
        <5> QED
          BY <5>1, <5>2, <5>3, <5>4, <5>5 DEF Next
      <4>3. v = w
        BY <1>1, <2>1, <4>2 DEF WorkerStep, WorkerFault, ReadJob, Process,
           StoreResult, Publish, Ack, ReadReplyLost, StoreResultFails,
           PublishFails, AckFails, GotoW, EndJob, Busy, TypeInv, TypeOK,
           workerVars
      <4> QED
        BY <2>1, <4>1, <4>2, <4>3 DEF WorkerStep, WorkerFault, Process,
           StoreResult, Publish, Ack, ReadReplyLost, StoreResultFails,
           PublishFails, AckFails, workerVars
    <3>2. StreamOf(w) \in Streams
      BY JobQueueAssumption DEF StreamOf
    <3>3. TakeNext(StreamOf(w)) /\ holds'[w] = cursor[StreamOf(w)] + 1
      BY <1>1, <3>1 DEF ReadJob, TypeInv, TypeOK
    <3>4. ~Done(StreamOf(w), holds'[w])
      BY <1>1, <3>2, <3>3 DEF Done, TypeInv, TypeOK
    <3> QED
      BY <1>1, <3>2, <3>3, <3>4, TakeNextFresh
  <2> QED
    BY <2>1
<1> QED
  BY <1>1, TypeInvInit, TypeInvStep, EntryInvInit, EntryInvStep, PTL
     DEF Spec, PoisonJobOnce

-----------------------------------------------------------------------------
(***************************************************************************)
(* Whose result it is.                                                     *)
(***************************************************************************)

\* An entry or a result for a job that was handed out, and that belongs to the
\* handler which has that job.
Owned(e) == /\ e.job \in 1..issued
            /\ \A c \in Clients : job[c] = e.job => e.user = c

\* What a handler has at each step: no answer while it serves a request, no job
\* before the XADD and none left over from the request before, no subscription
\* before SUBSCRIBE, and no message without a subscription.
HandlerStages ==
    \A c \in Clients :
        /\ job[c] \in 0..issued
        /\ pc[c] # "idle" => answer[c].event = "none"
        /\ pc[c] = "idle" /\ answer[c].event = "none" => job[c] = 0
        /\ pc[c] \in {"check", "add"} => job[c] = 0
        /\ pc[c] \notin {"get", "wait"} => sub[c] = "off"
        /\ sub[c] = "off" => inbox[c] = None

EntriesOwned == \A s \in Streams : \A i \in 1..Len(entries[s]) : Owned(entries[s][i])

ResultsOwned ==
    \A j \in JobIDs : result[j] # None => result[j].job = j /\ Owned(result[j])

InboxesOwned ==
    \A c \in Clients : inbox[c] # None => inbox[c].job = job[c] /\ Owned(inbox[c])

\* OwnResult follows the id and the submitter from the XADD through the entry,
\* the stored result and the publication to the answer.
OwnInv == HandlerStages /\ EntriesOwned /\ ResultsOwned /\ InboxesOwned /\ OwnResult

\* An element of two sequences put together is one of theirs.
LEMMA ConcatElements ==
    ASSUME NEW S, NEW a \in Seq(S), NEW b \in Seq(S), NEW i \in 1..Len(a \o b)
    PROVE  \/ i \in 1..Len(a) /\ (a \o b)[i] = a[i]
           \/ /\ i \notin 1..Len(a) /\ i - Len(a) \in 1..Len(b)
              /\ (a \o b)[i] = b[i - Len(a)]
<1>1. Len(a \o b) = Len(a) + Len(b) /\ Len(a) \in Nat /\ Len(b) \in Nat
  OBVIOUS
<1>2. CASE i <= Len(a)
  BY <1>1, <1>2
<1>3. CASE i > Len(a)
  BY <1>1, <1>3
<1> QED
  BY <1>1, <1>2, <1>3

\* What XADD appends is the new job's, behind what was there.
LEMMA AppendElements ==
    ASSUME TypeOK, NEW c \in Clients, issued < MaxJobs, NEW n \in 0..2,
           entries' = [entries EXCEPT ![stream[c]] = @ \o JobEntries(c, n)]
    PROVE  \A s \in Streams : \A i \in 1..Len(entries'[s]) :
             \/ i \in 1..Len(entries[s]) /\ entries'[s][i] = entries[s][i]
             \/ /\ i \notin 1..Len(entries[s]) /\ s = stream[c]
                /\ entries'[s][i] = [job |-> issued + 1, user |-> c]
<1>1. JobEntries(c, n) \in Seq(Entry) /\ Len(JobEntries(c, n)) = n
  BY JobEntriesType
<1>2. entries \in [Streams -> Seq(Entry)] /\ stream[c] \in Streams
  BY DEF TypeOK
<1>3. ASSUME NEW s \in Streams, NEW i \in 1..Len(entries'[s]), s # stream[c]
      PROVE  i \in 1..Len(entries[s]) /\ entries'[s][i] = entries[s][i]
  BY <1>2, <1>3
<1>4. ASSUME NEW s \in Streams, NEW i \in 1..Len(entries'[s]), s = stream[c]
      PROVE  \/ i \in 1..Len(entries[s]) /\ entries'[s][i] = entries[s][i]
             \/ /\ i \notin 1..Len(entries[s])
                /\ entries'[s][i] = [job |-> issued + 1, user |-> c]
  <2> DEFINE add == JobEntries(c, n)
  <2>1. \A k \in 1..n : add[k] = [job |-> issued + 1, user |-> c]
    BY DEF JobEntries
  <2>2. entries'[s] = entries[s] \o add /\ entries[s] \in Seq(Entry)
        /\ add \in Seq(Entry) /\ Len(add) = n
    BY <1>1, <1>2, <1>4
  <2> HIDE DEF add
  <2>3. i \in 1..Len(entries[s] \o add)
    BY <1>4, <2>2
  <2>4. \/ i \in 1..Len(entries[s]) /\ (entries[s] \o add)[i] = entries[s][i]
        \/ /\ i \notin 1..Len(entries[s]) /\ i - Len(entries[s]) \in 1..Len(add)
           /\ (entries[s] \o add)[i] = add[i - Len(entries[s])]
    BY <2>2, <2>3, ConcatElements
  <2> QED
    BY <2>1, <2>2, <2>4
<1> QED
  BY <1>3, <1>4

\* What was owned stays owned while no job changes hands, and results and
\* messages only go away.
LEMMA OwnedKept ==
    ASSUME TypeInv, OwnInv, UNCHANGED <<entries, job, issued>>,
           \A j \in JobIDs : result'[j] \in {result[j], None},
           \A c \in Clients : inbox'[c] \in {inbox[c], None}
    PROVE  EntriesOwned' /\ ResultsOwned' /\ InboxesOwned'
BY DEF OwnInv, EntriesOwned, ResultsOwned, InboxesOwned, Owned

\* A request ends: with its own result, or without one.
LEMMA CloseOwned ==
    ASSUME TypeInv, OwnInv, NEW c \in Clients, NEW event \in Outcomes,
           NEW payload \in StoredResult \cup {None}, Close(c, event, payload),
           event \notin {"none", "notfound"},
           event = "result" => payload.job = job[c] /\ payload.user = c,
           UNCHANGED <<entries, result, job, issued>>
    PROVE  OwnInv'
<1>1. /\ pc'[c] = "idle" /\ sub'[c] = "off" /\ inbox'[c] = None
      /\ answer'[c].event = event /\ answer'[c].payload = payload
      /\ \A d \in Clients \ {c} :
            /\ pc'[d] = pc[d] /\ sub'[d] = sub[d] /\ inbox'[d] = inbox[d]
            /\ answer'[d] = answer[d]
  BY DEF Close, TypeInv, TypeOK
<1>2. EntriesOwned' /\ ResultsOwned' /\ InboxesOwned'
  BY <1>1, OwnedKept
<1>3. HandlerStages'
  BY <1>1 DEF OwnInv, HandlerStages
<1>4. OwnResult'
  BY <1>1 DEF OwnInv, OwnResult
<1> QED
  BY <1>2, <1>3, <1>4 DEF OwnInv

\* A new job is its submitter's, and nobody had its id before.
LEMMA AddOwned ==
    ASSUME TypeInv, OwnInv, NEW c \in Clients, pc[c] = "add", issued < MaxJobs,
           issued' = issued + 1, job' = [job EXCEPT ![c] = issued + 1],
           NEW n \in 0..2, result' = result,
           entries' = [entries EXCEPT ![stream[c]] = @ \o JobEntries(c, n)],
           \A d \in Clients : inbox'[d] \in {inbox[d], None}
    PROVE  /\ EntriesOwned' /\ ResultsOwned' /\ InboxesOwned'
           /\ job'[c] \in 1..issued' /\ \A d \in Clients : job'[d] \in 0..issued'
           /\ \A d \in Clients \ {c} : job'[d] = job[d]
<1>1. issued \in Nat
  BY JobQueueAssumption DEF TypeInv, TypeOK
<1>2. /\ job'[c] = issued + 1 /\ job[c] = 0 /\ inbox[c] = None
      /\ \A d \in Clients \ {c} : job'[d] = job[d]
      /\ \A d \in Clients : job[d] \in 0..issued
  BY DEF TypeInv, TypeOK, OwnInv, HandlerStages
<1>3. ASSUME NEW e, Owned(e)
      PROVE  /\ e.job \in 1..issued'
             /\ \A d \in Clients : job'[d] = e.job => e.user = d
  <2>1. e.job \in 1..issued /\ \A d \in Clients : job[d] = e.job => e.user = d
    BY <1>3 DEF Owned
  <2>2. e.job \in 1..issued' /\ e.job # issued + 1
    BY <1>1, <2>1
  <2> QED
    BY <1>2, <2>1, <2>2
<1>8. \A s \in Streams : \A i \in 1..Len(entries'[s]) :
         \/ i \in 1..Len(entries[s]) /\ entries'[s][i] = entries[s][i]
         \/ /\ i \notin 1..Len(entries[s]) /\ s = stream[c]
            /\ entries'[s][i] = [job |-> issued + 1, user |-> c]
  <2>1. TypeOK
    BY DEF TypeInv
  <2> QED
    BY <2>1, AppendElements
<1>4. EntriesOwned'
  <2> SUFFICES ASSUME NEW s \in Streams, NEW i \in 1..Len(entries'[s])
               PROVE  Owned(entries[s][i])'
    BY DEF EntriesOwned
  <2>1. CASE i \in 1..Len(entries[s]) /\ entries'[s][i] = entries[s][i]
    <3>1. Owned(entries[s][i])
      BY <2>1 DEF OwnInv, EntriesOwned
    <3> QED
      BY <1>3, <2>1, <3>1 DEF Owned
  <2>2. CASE entries'[s][i] = [job |-> issued + 1, user |-> c]
    <3>1. entries'[s][i].job = issued + 1 /\ entries'[s][i].user = c
      BY <2>2
    <3>2. issued + 1 \in 1..issued'
      BY <1>1
    <3>3. \A d \in Clients \ {c} : job'[d] # issued + 1
      BY <1>1, <1>2
    <3> QED
      BY <3>1, <3>2, <3>3 DEF Owned
  <2>3. \/ i \in 1..Len(entries[s]) /\ entries'[s][i] = entries[s][i]
        \/ entries'[s][i] = [job |-> issued + 1, user |-> c]
    BY <1>8
  <2> QED
    BY <2>1, <2>2, <2>3
<1>5. ResultsOwned'
  <2> SUFFICES ASSUME NEW j \in JobIDs, result[j] # None
               PROVE  result[j].job = j /\ Owned(result[j])'
    BY DEF ResultsOwned, Owned
  <2> QED
    BY <1>3 DEF OwnInv, ResultsOwned, Owned
<1>6. InboxesOwned'
  <2> SUFFICES ASSUME NEW d \in Clients, inbox'[d] # None
               PROVE  inbox'[d].job = job'[d] /\ Owned(inbox[d])'
    BY DEF InboxesOwned
  <2>1. d # c /\ inbox'[d] = inbox[d] /\ job'[d] = job[d]
    BY <1>2
  <2>2. inbox[d].job = job[d] /\ Owned(inbox[d])
    BY <2>1 DEF OwnInv, InboxesOwned
  <2> QED
    BY <1>3, <2>1, <2>2 DEF Owned
<1>7. job'[c] \in 1..issued' /\ \A d \in Clients : job'[d] \in 0..issued'
  BY <1>1, <1>2
<1> QED
  BY <1>2, <1>4, <1>5, <1>6, <1>7

\* The steps of a handler hand no result to somebody else.
LEMMA HandlerOwnStep ==
    ASSUME TypeInv, OwnInv, NEW c \in Clients,
           \/ \E s \in Streams : Submit(c, s)
           \/ Refuse(c) \/ HandlerStep(c) \/ HandlerFault(c)
    PROVE  OwnInv'
<1> USE JobQueueAssumption, NoneAssumption
<1>1. ASSUME NEW event \in {"refused", "full", "error", "timeout", "gone"},
             Close(c, event, None), UNCHANGED <<entries, result, job, issued>>
      PROVE  OwnInv'
  BY <1>1, CloseOwned DEF Outcomes
<1>2. ASSUME NEW label \in {"add", "get", "wait"}, Goto(c, label),
             UNCHANGED <<entries, result, job, inbox, answer, issued>>,
             label = "add" => pc[c] = "check" /\ sub' = sub,
             label = "get" => pc[c] = "subscribe" /\ sub' = [sub EXCEPT ![c] = "sent"],
             label = "wait" => pc[c] = "get" /\ sub' = sub
      PROVE  OwnInv'
  <2>1. EntriesOwned' /\ ResultsOwned' /\ InboxesOwned'
    BY <1>2, OwnedKept
  <2>2. /\ pc'[c] = label /\ \A d \in Clients \ {c} : pc'[d] = pc[d]
        /\ \A d \in Clients \ {c} : sub'[d] = sub[d]
        /\ sub'[c] = IF label = "get" THEN "sent" ELSE sub[c]
    BY <1>2 DEF Goto, TypeInv, TypeOK
  <2>3. HandlerStages'
    BY <1>2, <2>2 DEF OwnInv, HandlerStages
  <2>4. OwnResult'
    BY <1>2 DEF OwnInv, OwnResult
  <2> QED
    BY <2>1, <2>3, <2>4 DEF OwnInv
<1>3. ASSUME NEW stored \in StoredResult, Deliver(c, stored),
             stored.job = job[c], Owned(stored),
             UNCHANGED <<entries, result, job, issued>>
      PROVE  OwnInv'
  <2>1. stored.user = c
    BY <1>3 DEF Owned
  <2>2. Close(c, "result", stored)
    BY <1>3, <2>1 DEF Deliver, OwnedBy
  <2> QED
    BY <1>3, <2>1, <2>2, CloseOwned DEF Outcomes
<1>4. ASSUME NEW s \in Streams, Submit(c, s) PROVE OwnInv'
  <2>1. /\ pc[c] = "idle" /\ pc'[c] = "check" /\ job'[c] = 0
        /\ answer'[c].event = "none"
        /\ \A d \in Clients \ {c} : /\ pc'[d] = pc[d] /\ job'[d] = job[d]
                                    /\ answer'[d] = answer[d]
        /\ UNCHANGED <<entries, result, sub, inbox, issued>>
    BY <1>4 DEF Submit, Goto, TypeInv, TypeOK, redisVars, envVars
  <2>2. sub[c] = "off" /\ inbox[c] = None /\ issued \in Nat
    <3>1. sub[c] = "off" /\ inbox[c] = None
      BY <2>1 DEF OwnInv, HandlerStages
    <3> QED
      BY <3>1 DEF TypeInv, TypeOK
  <2>3. ASSUME NEW e, Owned(e)
        PROVE  /\ e.job \in 1..issued'
               /\ \A d \in Clients : job'[d] = e.job => e.user = d
    <3>1. e.job \in 1..issued /\ e.job # 0
          /\ \A d \in Clients : job[d] = e.job => e.user = d
      BY <2>2, <2>3 DEF Owned
    <3> QED
      BY <2>1, <3>1
  <2>4. EntriesOwned' /\ ResultsOwned'
    BY <2>1, <2>3 DEF OwnInv, EntriesOwned, ResultsOwned, Owned
  <2>5. InboxesOwned'
    <3> SUFFICES ASSUME NEW d \in Clients, inbox[d] # None
                 PROVE  inbox[d].job = job'[d] /\ Owned(inbox[d])'
      BY <2>1 DEF InboxesOwned, Owned
    <3>1. d # c /\ inbox[d].job = job[d] /\ Owned(inbox[d])
      BY <2>2 DEF OwnInv, InboxesOwned
    <3> QED
      BY <2>1, <2>3, <3>1 DEF Owned
  <2>6. HandlerStages'
    BY <2>1, <2>2 DEF OwnInv, HandlerStages
  <2>7. OwnResult'
    BY <2>1 DEF OwnInv, OwnResult
  <2> QED
    BY <2>4, <2>5, <2>6, <2>7 DEF OwnInv
<1>5. CASE Refuse(c)
  BY <1>1, <1>5 DEF Refuse, redisVars, envVars
<1>6. CASE CheckDepth(c)
  BY <1>1, <1>2, <1>6 DEF CheckDepth, redisVars, envVars
<1>7. CASE CheckDepthFails(c)
  BY <1>1, <1>7 DEF CheckDepthFails, redisVars
<1>8. ASSUME pc[c] = "add", issued < MaxJobs, issued' = issued + 1,
             job' = [job EXCEPT ![c] = issued + 1], result' = result,
             NEW n \in 0..2,
             entries' = [entries EXCEPT ![stream[c]] = @ \o JobEntries(c, n)],
             \/ Close(c, "error", None)
             \/ Goto(c, "subscribe") /\ UNCHANGED <<sub, inbox, answer>>
      PROVE  OwnInv'
  <2>1. /\ \/ /\ pc'[c] = "idle" /\ answer'[c].event = "error"
              /\ sub'[c] = "off" /\ inbox'[c] = None
           \/ /\ pc'[c] = "subscribe" /\ answer'[c] = answer[c]
              /\ sub'[c] = sub[c] /\ inbox'[c] = inbox[c]
        /\ \A d \in Clients \ {c} :
              /\ pc'[d] = pc[d] /\ sub'[d] = sub[d] /\ inbox'[d] = inbox[d]
              /\ answer'[d] = answer[d]
    BY <1>8 DEF Close, Goto, TypeInv, TypeOK
  <2>2. \A d \in Clients : inbox'[d] \in {inbox[d], None}
    BY <2>1
  <2>3. /\ EntriesOwned' /\ ResultsOwned' /\ InboxesOwned'
        /\ job'[c] \in 1..issued' /\ \A d \in Clients : job'[d] \in 0..issued'
        /\ \A d \in Clients \ {c} : job'[d] = job[d]
    BY <1>8, <2>2, AddOwned
  <2>4. HandlerStages'
    <3>1. answer[c].event = "none" /\ sub[c] = "off" /\ inbox[c] = None
      BY <1>8 DEF OwnInv, HandlerStages
    <3>2. ASSUME NEW d \in Clients
          PROVE  /\ pc'[d] # "idle" => answer'[d].event = "none"
                 /\ pc'[d] = "idle" /\ answer'[d].event = "none" => job'[d] = 0
                 /\ pc'[d] \in {"check", "add"} => job'[d] = 0
                 /\ pc'[d] \notin {"get", "wait"} => sub'[d] = "off"
                 /\ sub'[d] = "off" => inbox'[d] = None
      <4>1. CASE d = c
        BY <2>1, <3>1, <4>1
      <4>2. CASE d # c
        BY <2>1, <2>3, <4>2 DEF OwnInv, HandlerStages
      <4> QED
        BY <4>1, <4>2
    <3> QED
      BY <2>3, <3>2 DEF HandlerStages
  <2>5. OwnResult'
    BY <1>8, <2>1, <2>3 DEF OwnInv, OwnResult, HandlerStages
  <2> QED
    BY <2>3, <2>4, <2>5 DEF OwnInv
<1>9. CASE AddJob(c)
  <2>1. 1 \in 0..2
    OBVIOUS
  <2> QED
    BY <1>8, <1>9, <2>1 DEF AddJob
<1>10. CASE AddJobFaulty(c)
  <2>1. PICK n \in 0..2 :
          /\ entries' = [entries EXCEPT ![stream[c]] = @ \o JobEntries(c, n)]
          /\ \/ Close(c, "error", None)
             \/ Goto(c, "subscribe") /\ UNCHANGED <<sub, inbox, answer>>
    BY <1>10 DEF AddJobFaulty
  <2> QED
    BY <1>8, <1>10, <2>1 DEF AddJobFaulty
<1>11. CASE Subscribe(c)
  BY <1>2, <1>11 DEF Subscribe, redisVars, envVars
<1>12. CASE SubscribeArrives(c)
  <2>1. EntriesOwned' /\ ResultsOwned' /\ InboxesOwned'
    BY <1>12, OwnedKept DEF SubscribeArrives, redisVars, envVars
  <2>2. /\ sub[c] = "sent" /\ sub'[c] = "active"
        /\ \A d \in Clients \ {c} : sub'[d] = sub[d]
        /\ UNCHANGED <<pc, job, inbox, answer, issued>>
    BY <1>12 DEF SubscribeArrives, TypeInv, TypeOK, envVars
  <2>3. HandlerStages' /\ OwnResult'
    BY <2>2 DEF OwnInv, HandlerStages, OwnResult
  <2> QED
    BY <2>1, <2>3 DEF OwnInv
<1>13. CASE GetResult(c)
  <2>1. job[c] \in JobIDs /\ UNCHANGED <<entries, result, job, issued>>
    BY <1>13 DEF GetResult, TypeInv, HandlerHasJob, redisVars, envVars
  <2>2. CASE result[job[c]] # None
    <3>1. /\ result[job[c]] \in StoredResult
          /\ result[job[c]].job = job[c] /\ Owned(result[job[c]])
      BY <2>1, <2>2 DEF TypeInv, TypeOK, OwnInv, ResultsOwned
    <3>2. Deliver(c, result[job[c]])
      BY <1>13, <2>2 DEF GetResult
    <3> QED
      BY <1>3, <2>1, <3>1, <3>2
  <2>3. CASE result[job[c]] = None
    BY <1>2, <1>13, <2>1, <2>3 DEF GetResult
  <2> QED
    BY <2>2, <2>3
<1>14. CASE GetResultFails(c)
  BY <1>2, <1>14 DEF GetResultFails, redisVars
<1>15. CASE Receive(c)
  <2>1. /\ inbox[c] \in StoredResult /\ inbox[c].job = job[c] /\ Owned(inbox[c])
        /\ Deliver(c, inbox[c]) /\ UNCHANGED <<entries, result, job, issued>>
    BY <1>15 DEF Receive, TypeInv, TypeOK, OwnInv, InboxesOwned, redisVars, envVars
  <2> QED
    BY <1>3, <2>1
<1>16. CASE Timeout(c)
  BY <1>1, <1>16 DEF Timeout, redisVars, envVars
<1>17. CASE Disconnect(c)
  BY <1>1, <1>17 DEF Disconnect, redisVars, envVars
<1> QED
  BY <1>4, <1>5, <1>6, <1>7, <1>9, <1>10, <1>11, <1>12, <1>13, <1>14, <1>15,
     <1>16, <1>17 DEF HandlerStep, HandlerFault

\* What a worker stores and publishes is for the job and the submitter of the
\* entry it holds.
LEMMA EnvelopeOwned ==
    ASSUME TypeInv, OwnInv, NEW w \in Workers, Busy(w)
    PROVE  /\ Owned(Envelope(w)) /\ Envelope(w).job = HeldEntry(w).job
           /\ Envelope(w) \in StoredResult /\ HeldEntry(w).job \in JobIDs
<1>1. Envelope(w) \in StoredResult /\ HeldEntry(w).job \in JobIDs
  BY EnvelopeType
<1>2. StreamOf(w) \in Streams /\ holds[w] \in 1..Len(entries[StreamOf(w)])
  BY JobQueueAssumption DEF StreamOf, TypeInv, TypeOK, HoldsDelivered
<1>3. Owned(HeldEntry(w))
  BY <1>2 DEF OwnInv, EntriesOwned, HeldEntry
<1>4. Envelope(w).job = HeldEntry(w).job /\ Envelope(w).user = HeldEntry(w).user
  BY DEF Envelope
<1> QED
  BY <1>1, <1>3, <1>4 DEF Owned

\* Every step keeps the results with their owners.
LEMMA OwnInvStep ==
    ASSUME TypeInv, OwnInv, [Next]_vars
    PROVE  OwnInv'
<1> USE JobQueueAssumption, NoneAssumption
<1>1. ASSUME UNCHANGED <<entries, pc, job, sub, answer, issued>>,
             EntriesOwned' /\ ResultsOwned' /\ InboxesOwned',
             \A c \in Clients : sub[c] = "off" => inbox'[c] = inbox[c]
      PROVE  OwnInv'
  BY <1>1 DEF OwnInv, HandlerStages, OwnResult
<1>2. ASSUME UNCHANGED <<entries, pc, job, sub, inbox, answer, issued>>,
             \A j \in JobIDs : result'[j] \in {result[j], None}
      PROVE  OwnInv'
  BY <1>1, <1>2, OwnedKept
<1>3. ASSUME NEW p \in Replicas, Start(p) PROVE OwnInv'
  BY <1>2, <1>3 DEF Start, handlerVars
<1>4. ASSUME NEW p \in Replicas, Die(p), UNCHANGED <<entries, result>>
      PROVE  OwnInv'
  <2>1. UNCHANGED <<job, issued>>
        /\ \A c \in Clients :
              \/ /\ pc[c] # "idle" /\ pc'[c] = "idle" /\ sub'[c] = "off"
                 /\ inbox'[c] = None /\ answer'[c].event = "gone"
              \/ /\ pc'[c] = pc[c] /\ sub'[c] = sub[c]
                 /\ inbox'[c] = inbox[c] /\ answer'[c] = answer[c]
    BY <1>4 DEF Die
  <2>2. EntriesOwned' /\ ResultsOwned' /\ InboxesOwned'
    BY <1>4, <2>1, OwnedKept
  <2>3. HandlerStages' /\ OwnResult'
    BY <2>1 DEF OwnInv, HandlerStages, OwnResult
  <2> QED
    BY <2>2, <2>3 DEF OwnInv
<1>5. ASSUME NEW p \in Replicas, Crash(p) PROVE OwnInv'
  BY <1>4, <1>5 DEF Crash, redisVars
<1>6. ASSUME NEW w \in Workers, Panic(w) PROVE OwnInv'
  BY <1>4, <1>6 DEF Panic
<1>7. ASSUME NEW j \in JobIDs, Expire(j) PROVE OwnInv'
  BY <1>2, <1>7 DEF Expire, handlerVars, TypeInv, TypeOK
<1>8. CASE UNCHANGED vars
  BY <1>2, <1>8 DEF vars, redisVars, handlerVars, envVars
<1>9. ASSUME NEW w \in Workers, StoreResult(w) PROVE OwnInv'
  <2>1. /\ Owned(Envelope(w)) /\ Envelope(w).job = HeldEntry(w).job
        /\ HeldEntry(w).job \in JobIDs
    BY <1>9, EnvelopeOwned DEF StoreResult, Busy
  <2>2. UNCHANGED <<entries, pc, job, sub, inbox, answer, issued>>
        /\ result' = [result EXCEPT ![HeldEntry(w).job] = Envelope(w)]
    BY <1>9 DEF StoreResult, handlerVars, envVars
  <2>3. ResultsOwned'
    <3> SUFFICES ASSUME NEW j \in JobIDs, result'[j] # None
                 PROVE  result'[j].job = j /\ Owned(result'[j])
      BY <2>2 DEF ResultsOwned, Owned
    <3>1. result'[j] = IF j = HeldEntry(w).job THEN Envelope(w) ELSE result[j]
      BY <2>1, <2>2 DEF TypeInv, TypeOK
    <3> QED
      BY <2>1, <3>1 DEF OwnInv, ResultsOwned
  <2>4. EntriesOwned' /\ InboxesOwned'
    BY <2>2 DEF OwnInv, EntriesOwned, InboxesOwned, Owned
  <2> QED
    BY <1>1, <2>2, <2>3, <2>4
<1>10. ASSUME NEW w \in Workers, Publish(w) PROVE OwnInv'
  <2>1. /\ Owned(Envelope(w)) /\ Envelope(w).job = HeldEntry(w).job
    BY <1>10, EnvelopeOwned DEF Publish, Busy
  <2>2. UNCHANGED <<entries, pc, job, sub, answer, issued, result>>
        /\ \A c \in Clients :
              \/ inbox'[c] = inbox[c]
              \/ /\ inbox'[c] = Envelope(w) /\ sub[c] = "active"
                 /\ job[c] = HeldEntry(w).job
    BY <1>10 DEF Publish, Subscribers, redisVars, envVars
  <2>3. InboxesOwned'
    <3> SUFFICES ASSUME NEW c \in Clients, inbox'[c] # None
                 PROVE  inbox'[c].job = job[c] /\ Owned(inbox'[c])
      BY <2>2 DEF InboxesOwned, Owned
    <3> QED
      BY <2>1, <2>2 DEF OwnInv, InboxesOwned
  <2>4. EntriesOwned' /\ ResultsOwned'
    BY <2>2 DEF OwnInv, EntriesOwned, ResultsOwned, Owned
  <2> QED
    BY <1>1, <2>2, <2>3, <2>4
<1>11. ASSUME NEW w \in Workers, WorkerStep(w) \/ WorkerFault(w)
       PROVE  OwnInv'
  <2>1. \/ StoreResult(w) \/ Publish(w)
        \/ UNCHANGED <<entries, result, pc, job, sub, inbox, answer, issued>>
    BY <1>11 DEF WorkerStep, WorkerFault, ReadJob, Process, Ack, ReadReplyLost,
       StoreResultFails, PublishFails, AckFails, redisVars, handlerVars, envVars
  <2> QED
    BY <1>2, <1>9, <1>10, <2>1
<1> QED
  BY <1>3, <1>5, <1>6, <1>7, <1>8, <1>11, HandlerOwnStep DEF Next

\* Nobody has a job at first.
LEMMA OwnInvInit == Init => OwnInv
BY DEF Init, OwnInv, HandlerStages, EntriesOwned, ResultsOwned, InboxesOwned,
       OwnResult

\* For any number of replicas, handlers and workers and whatever fails: the
\* result that WaitForResult returns is the one of the handler's own job and of
\* its own user, and resultForUser never has to hide one.
THEOREM ResultsAreOwn == Spec => []OwnResult
<1>1. OwnInv => OwnResult
  BY DEF OwnInv
<1> QED
  BY <1>1, TypeInvInit, TypeInvStep, OwnInvInit, OwnInvStep, PTL DEF Spec

-----------------------------------------------------------------------------
(***************************************************************************)
(* The wakeup.                                                             *)
(***************************************************************************)

\* A worker is past storing, or past publishing, the result of the job j.
Stored(j)    == \E w \in Workers :
                   wpc[w] \in {"publish", "ack"} /\ HeldEntry(w).job = j
Published(j) == \E w \in Workers : wpc[w] = "ack" /\ HeldEntry(w).job = j

\* While nothing has failed: Redis has the result of a job that its worker is
\* past storing until the submitter has made its GET.  From then on, for a job
\* that its worker is past publishing, the subscription has the result, or the
\* SUBSCRIBE, which was sent before the GET, came too late.
WakeInv ==
    faults = 0 => \A c \in Clients :
        /\ pc[c] \in {"subscribe", "get"} =>
              (Finished(job[c]) \/ Stored(job[c]) => result[job[c]] # None)
        /\ pc[c] \in {"get", "wait"} => sub[c] # "off"
        /\ pc[c] = "wait" =>
              (Finished(job[c]) \/ Published(job[c]) =>
                  inbox[c] # None \/ c \in missed)

\* A failure is remembered.
LEMMA FaultShows ==
    ASSUME TypeInv, Fault
    PROVE  faults' # 0
BY JobQueueAssumption DEF TypeInv, TypeOK, Fault

\* XREADGROUP finishes no job.
LEMMA TakeNextFinishesNone ==
    ASSUME TypeInv, NEW s \in Streams, TakeNext(s), entries' = entries,
           NEW j, Finished(j)'
    PROVE  Finished(j)
<1>1. PICK t \in Streams : \E i \in 1..Len(entries[t]) :
         entries[t][i].job = j /\ Done(t, i)'
  BY DEF Finished
<1>2. PICK i \in 1..Len(entries[t]) : entries[t][i].job = j /\ Done(t, i)'
  BY <1>1
<1>3. cursor[t] \in Nat /\ i \in Nat
  BY DEF TypeInv, TypeOK
<1>4. Done(t, i)
  <2>1. CASE t = s
    <3>1. i <= cursor[t] + 1 /\ i \notin pel[t] \cup {cursor[t] + 1}
      BY <1>2, <2>1 DEF Done, TakeNext, TypeInv, TypeOK
    <3> QED
      BY <1>3, <3>1 DEF Done
  <2>2. CASE t # s
    BY <1>2, <2>2 DEF Done, TakeNext, TypeInv, TypeOK
  <2> QED
    BY <2>1, <2>2
<1> QED
  BY <1>2, <1>4 DEF Finished

\* XACK finishes the job of the worker.
LEMMA AckFinishesHeld ==
    ASSUME TypeInv, NEW w \in Workers, Ack(w), NEW j, Finished(j)'
    PROVE  Finished(j) \/ Published(j)
<1>1. /\ entries' = entries /\ cursor' = cursor
      /\ pel' = [pel EXCEPT ![StreamOf(w)] = @ \ {holds[w]}]
      /\ StreamOf(w) \in Streams /\ pel \in [Streams -> SUBSET Nat]
  BY JobQueueAssumption DEF Ack, StreamOf, TypeInv, TypeOK
<1>2. PICK t \in Streams : \E i \in 1..Len(entries[t]) :
         entries[t][i].job = j /\ i <= cursor[t] /\ i \notin pel'[t]
  BY <1>1 DEF Finished, Done
<1>3. PICK i \in 1..Len(entries[t]) :
         entries[t][i].job = j /\ i <= cursor[t] /\ i \notin pel'[t]
  BY <1>2
<1>4. CASE i \notin pel[t]
  BY <1>3, <1>4 DEF Finished, Done
<1>5. CASE i \in pel[t]
  <2>1. t = StreamOf(w) /\ i = holds[w]
    BY <1>1, <1>3, <1>5
  <2> QED
    BY <1>3, <2>1 DEF Published, HeldEntry, Ack
<1> QED
  BY <1>4, <1>5

\* A new job is neither finished nor with a worker, and the others are as
\* finished as they were.
LEMMA AddFinishesNone ==
    ASSUME TypeInv, OwnInv, NEW c \in Clients, issued < MaxJobs, NEW n \in 0..2,
           entries' = [entries EXCEPT ![stream[c]] = @ \o JobEntries(c, n)],
           UNCHANGED <<cursor, pel, wpc, holds>>
    PROVE  /\ \A j : Finished(j)' => Finished(j) /\ j # issued + 1
           /\ \A j : Stored(j)' => Stored(j) /\ j # issued + 1
           /\ \A j : Published(j)' => Published(j)
<1>1. \A s \in Streams : \A i \in 1..Len(entries'[s]) :
         \/ i \in 1..Len(entries[s]) /\ entries'[s][i] = entries[s][i]
         \/ /\ i \notin 1..Len(entries[s]) /\ s = stream[c]
            /\ entries'[s][i] = [job |-> issued + 1, user |-> c]
  <2>1. TypeOK
    BY DEF TypeInv
  <2> QED
    BY <2>1, AppendElements
<1>2. /\ entries' \in [Streams -> Seq(Entry)]
      /\ \A s \in Streams : Len(entries'[s]) =
            Len(entries[s]) + (IF s = stream[c] THEN n ELSE 0)
  BY AppendType DEF TypeInv
<1>3. \A s \in Streams : cursor[s] \in Nat /\ Len(entries[s]) \in Nat
                         /\ cursor[s] <= Len(entries[s])
  BY DEF TypeInv, TypeOK
<1>4. issued \in Nat
  BY JobQueueAssumption DEF TypeInv, TypeOK
<1>5. ASSUME NEW s \in Streams, NEW i \in 1..cursor[s]
      PROVE  /\ i \in 1..Len(entries[s]) /\ entries'[s][i] = entries[s][i]
             /\ entries[s][i].job # issued + 1
  <2>1. i \in 1..Len(entries[s]) /\ i \in 1..Len(entries'[s])
    <3>1. Len(entries'[s]) = Len(entries[s]) + n \/ Len(entries'[s]) = Len(entries[s])
      BY <1>2, <1>3
    <3> QED
      BY <1>3, <3>1
  <2>2. entries[s][i].job \in 1..issued
    BY <2>1 DEF OwnInv, EntriesOwned, Owned
  <2> QED
    BY <1>1, <1>4, <2>1, <2>2
<1>6. ASSUME NEW j, Finished(j)'
      PROVE  Finished(j) /\ j # issued + 1
  <2>1. PICK s \in Streams : \E i \in 1..Len(entries'[s]) :
           entries'[s][i].job = j /\ i <= cursor[s] /\ i \notin pel[s]
    BY <1>6 DEF Finished, Done
  <2>2. PICK i \in 1..Len(entries'[s]) :
           entries'[s][i].job = j /\ i <= cursor[s] /\ i \notin pel[s]
    BY <2>1
  <2>3. i \in 1..cursor[s]
    BY <1>3, <2>2
  <2> QED
    BY <1>5, <2>2, <2>3 DEF Finished, Done
<1>7. ASSUME NEW w \in Workers, Busy(w)
      PROVE  HeldEntry(w)' = HeldEntry(w) /\ HeldEntry(w).job # issued + 1
  <2>1. StreamOf(w) \in Streams /\ holds[w] \in 1..cursor[StreamOf(w)]
    BY <1>7, JobQueueAssumption DEF StreamOf, TypeInv, HoldsDelivered
  <2> QED
    BY <1>5, <2>1 DEF HeldEntry, StreamOf
<1>8. \A j : Stored(j)' => Stored(j) /\ j # issued + 1
  BY <1>7 DEF Stored, Busy
<1>9. \A j : Published(j)' => Published(j)
  BY <1>7 DEF Published, Busy
<1> QED
  BY <1>6, <1>8, <1>9

\* Steps that finish, store and publish nothing keep the wakeups; a handler
\* that goes from its GET to the select has a subscription and no result yet.
LEMMA WakeKept ==
    ASSUME WakeInv, faults = 0,
           \A j : Finished(j)' => Finished(j),
           \A j : Stored(j)' => Stored(j),
           \A j : Published(j)' => Published(j),
           \A c \in Clients : pc'[c] \in {"subscribe", "get"} =>
               \/ /\ pc[c] \in {"subscribe", "get"} /\ job'[c] = job[c]
                  /\ result[job[c]] # None => result'[job[c]] # None
               \/ (~Finished(job[c]) /\ ~Stored(job[c]))',
           \A c \in Clients : pc'[c] \in {"get", "wait"} => sub'[c] # "off",
           \A c \in Clients : pc'[c] = "wait" =>
               /\ job'[c] = job[c]
               /\ \/ /\ pc[c] = "wait" /\ inbox'[c] = inbox[c]
                     /\ c \in missed => c \in missed'
                  \/ pc[c] = "get" /\ result[job[c]] = None
    PROVE  WakeInv'
<1> SUFFICES ASSUME NEW c \in Clients
             PROVE  /\ pc'[c] \in {"subscribe", "get"} =>
                          (Finished(job[c])' \/ Stored(job[c])' => result'[job'[c]] # None)
                    /\ pc'[c] = "wait" =>
                          (Finished(job[c])' \/ Published(job[c])' =>
                              inbox'[c] # None \/ c \in missed')
  BY DEF WakeInv
<1>1. \A j : Published(j) => Stored(j)
  BY DEF Published, Stored
<1>2. CASE pc'[c] \in {"subscribe", "get"}
  BY <1>2 DEF WakeInv
<1>3. CASE pc'[c] = "wait"
  BY <1>1, <1>3 DEF WakeInv
<1> QED
  BY <1>2, <1>3

\* The steps of a handler lose no wakeup.
LEMMA HandlerWakeStep ==
    ASSUME TypeInv, OwnInv, WakeInv, NEW c \in Clients,
           \/ \E s \in Streams : Submit(c, s)
           \/ Refuse(c) \/ HandlerStep(c) \/ HandlerFault(c),
           faults' = 0
    PROVE  WakeInv'
<1>0. faults = 0 /\ ~Fault
  <2>1. ~Fault
    BY FaultShows
  <2> QED
    BY <2>1 DEF Submit, Refuse, HandlerStep, HandlerFault, CheckDepth, AddJob,
       Subscribe, SubscribeArrives, GetResult, Receive, Timeout,
       CheckDepthFails, AddJobFaulty, GetResultFails, Disconnect, envVars
<1>1. ASSUME UNCHANGED <<redisVars, workerVars>>,
             \A d \in Clients : pc'[d] \in {"subscribe", "get"} =>
                 pc[d] \in {"subscribe", "get"} /\ job'[d] = job[d],
             \A d \in Clients : pc'[d] \in {"get", "wait"} => sub'[d] # "off",
             \A d \in Clients : pc'[d] = "wait" =>
                 /\ job'[d] = job[d]
                 /\ \/ /\ pc[d] = "wait" /\ inbox'[d] = inbox[d]
                       /\ d \in missed => d \in missed'
                    \/ pc[d] = "get" /\ result[job[d]] = None
      PROVE  WakeInv'
  <2>1. /\ \A j : Finished(j)' => Finished(j)
        /\ \A j : Stored(j)' => Stored(j)
        /\ \A j : Published(j)' => Published(j)
    BY <1>1 DEF Finished, Done, Stored, Published, HeldEntry, StreamOf, redisVars,
       workerVars
  <2>2. result' = result
    BY <1>1 DEF redisVars
  <2> QED
    BY <1>0, <1>1, <2>1, <2>2, WakeKept
<1>2. ASSUME pc'[c] \notin {"subscribe", "get", "wait"},
             UNCHANGED <<redisVars, workerVars>>,
             \A d \in Clients \ {c} : /\ pc'[d] = pc[d] /\ job'[d] = job[d]
                                      /\ sub'[d] = sub[d] /\ inbox'[d] = inbox[d]
                                      /\ d \in missed => d \in missed'
      PROVE  WakeInv'
  BY <1>0, <1>1, <1>2 DEF WakeInv
<1>3. ASSUME NEW event, NEW payload, Close(c, event, payload), job' = job,
             UNCHANGED <<redisVars, workerVars>>
      PROVE  WakeInv'
  BY <1>2, <1>3 DEF Close, TypeInv, TypeOK
<1>4. ASSUME NEW s \in Streams, Submit(c, s) PROVE WakeInv'
  BY <1>2, <1>4 DEF Submit, Goto, TypeInv, TypeOK
<1>5. CASE Refuse(c)
  BY <1>3, <1>5 DEF Refuse
<1>6. CASE CheckDepth(c)
  <2>1. CASE Full(stream[c])
    BY <1>3, <1>6, <2>1 DEF CheckDepth
  <2>2. CASE ~Full(stream[c])
    BY <1>2, <1>6, <2>2 DEF CheckDepth, Goto, TypeInv, TypeOK
  <2> QED
    BY <2>1, <2>2
<1>7. CASE AddJob(c)
  <2>1. /\ issued < MaxJobs /\ result' = result
        /\ entries' = [entries EXCEPT ![stream[c]] = @ \o JobEntries(c, 1)]
        /\ UNCHANGED <<cursor, pel, wpc, holds>>
    BY <1>7 DEF AddJob, workerVars
  <2>2. 1 \in 0..2
    OBVIOUS
  <2>3. /\ \A j : Finished(j)' => Finished(j) /\ j # issued + 1
        /\ \A j : Stored(j)' => Stored(j) /\ j # issued + 1
        /\ \A j : Published(j)' => Published(j)
    BY <2>1, <2>2, AddFinishesNone
  <2>4. /\ pc'[c] = "subscribe" /\ job'[c] = issued + 1
        /\ \A d \in Clients \ {c} : /\ pc'[d] = pc[d] /\ job'[d] = job[d]
                                    /\ sub'[d] = sub[d] /\ inbox'[d] = inbox[d]
        /\ missed' = missed
    BY <1>7 DEF AddJob, Goto, TypeInv, TypeOK
  <2>5. ~(Finished(job[c])') /\ ~(Stored(job[c])')
    BY <2>3, <2>4
  <2>6. \A d \in Clients : pc'[d] \in {"get", "wait"} => sub'[d] # "off"
    BY <1>0, <2>4 DEF WakeInv
  <2> QED
    BY <1>0, <2>1, <2>3, <2>4, <2>5, <2>6, WakeKept
<1>8. CASE Subscribe(c)
  BY <1>0, <1>1, <1>8 DEF WakeInv, Subscribe, Goto, TypeInv, TypeOK
<1>9. CASE SubscribeArrives(c)
  <2>1. /\ UNCHANGED <<redisVars, workerVars, pc, job, inbox, missed>>
        /\ \A d \in Clients : sub[d] # "off" => sub'[d] # "off"
    BY <1>9 DEF SubscribeArrives, TypeInv, TypeOK
  <2>2. \A d \in Clients : pc[d] \in {"get", "wait"} => sub'[d] # "off"
    BY <1>0, <2>1 DEF WakeInv
  <2> QED
    BY <1>1, <2>1, <2>2
<1>10. CASE GetResult(c)
  <2>1. CASE result[job[c]] # None
    BY <1>3, <1>10, <2>1 DEF GetResult, Deliver
  <2>2. CASE result[job[c]] = None
    <3>1. /\ pc[c] = "get" /\ Goto(c, "wait")
          /\ UNCHANGED <<sub, inbox, missed, job, redisVars, workerVars>>
      BY <1>10, <2>2 DEF GetResult
    <3>2. pc'[c] = "wait" /\ \A d \in Clients \ {c} : pc'[d] = pc[d]
      BY <3>1 DEF Goto, TypeInv, TypeOK
    <3>3. \A d \in Clients : pc'[d] \in {"get", "wait"} => sub'[d] # "off"
      BY <1>0, <3>1, <3>2 DEF WakeInv
    <3> QED
      BY <1>1, <2>2, <3>1, <3>2, <3>3
  <2> QED
    BY <2>1, <2>2
<1>11. CASE Receive(c)
  BY <1>3, <1>11 DEF Receive, Deliver
<1>12. CASE Timeout(c)
  BY <1>3, <1>12 DEF Timeout
<1>13. CASE Disconnect(c)
  BY <1>3, <1>13 DEF Disconnect
<1>14. CASE CheckDepthFails(c) \/ AddJobFaulty(c) \/ GetResultFails(c)
  BY <1>0, <1>14 DEF CheckDepthFails, AddJobFaulty, GetResultFails
<1> QED
  BY <1>4, <1>5, <1>6, <1>7, <1>8, <1>9, <1>10, <1>11, <1>12, <1>13, <1>14
     DEF HandlerStep, HandlerFault

\* The steps of a worker lose no wakeup but that of a handler whose SUBSCRIBE
\* is under way: it stores, then publishes, then acknowledges.
LEMMA WorkerWakeStep ==
    ASSUME TypeInv, OwnInv, WakeInv, NEW w \in Workers,
           WorkerStep(w) \/ WorkerFault(w), faults' = 0
    PROVE  WakeInv'
<1> USE NoneAssumption
<1>0. faults = 0 /\ ~Fault
  <2>1. ~Fault
    BY FaultShows
  <2> QED
    BY <2>1 DEF WorkerStep, WorkerFault, ReadJob, Process, StoreResult, Publish,
       Ack, ReadReplyLost, StoreResultFails, PublishFails, AckFails, envVars
<1>1. ASSUME UNCHANGED <<entries, result, handlerVars>>,
             \A j : Finished(j)' => Finished(j),
             wpc'[w] \notin {"publish", "ack"},
             \A v \in Workers \ {w} : wpc'[v] = wpc[v] /\ holds'[v] = holds[v]
      PROVE  WakeInv'
  <2>1. /\ \A j : Stored(j)' => Stored(j)
        /\ \A j : Published(j)' => Published(j)
    BY <1>1 DEF Stored, Published, HeldEntry, StreamOf
  <2>2. UNCHANGED <<pc, job, sub, inbox, missed>>
    BY <1>1 DEF handlerVars
  <2>3. \A c \in Clients : pc'[c] \in {"get", "wait"} => sub'[c] # "off"
    BY <1>0, <2>2 DEF WakeInv
  <2> QED
    BY <1>0, <1>1, <2>1, <2>2, <2>3, WakeKept
<1>2. CASE ReadJob(w)
  <2>1. StreamOf(w) \in Streams
    BY JobQueueAssumption DEF StreamOf
  <2>2. \A j : Finished(j)' => Finished(j)
    BY <1>2, <2>1, TakeNextFinishesNone DEF ReadJob
  <2> QED
    BY <1>1, <1>2, <2>2 DEF ReadJob, GotoW, TypeInv, TypeOK
<1>3. CASE Process(w)
  <2>1. \A j : Finished(j)' => Finished(j)
    BY <1>3 DEF Process, Finished, Done, redisVars
  <2> QED
    BY <1>1, <1>3, <2>1 DEF Process, GotoW, redisVars, TypeInv, TypeOK
<1>4. CASE StoreResult(w)
  <2> DEFINE k == HeldEntry(w).job
  <2>1. k \in JobIDs /\ Envelope(w) # None
    BY <1>4, EnvelopeOwned DEF StoreResult, Busy
  <2>2. /\ UNCHANGED <<entries, cursor, pel, pc, job, sub, inbox, missed, holds>>
        /\ wpc[w] = "store" /\ wpc'[w] = "publish"
        /\ \A v \in Workers \ {w} : wpc'[v] = wpc[v]
        /\ result'[k] = Envelope(w)
        /\ \A j \in JobIDs \ {k} : result'[j] = result[j]
    BY <1>4, <2>1 DEF StoreResult, GotoW, handlerVars, TypeInv, TypeOK
  <2>3. /\ \A j : Finished(j)' = Finished(j)
        /\ \A j : Stored(j)' => Stored(j) \/ j = k
        /\ \A j : Published(j)' => Published(j)
    BY <2>2 DEF Finished, Done, Stored, Published, HeldEntry, StreamOf
  <2>4. \A c \in Clients : pc[c] \in {"subscribe", "get"} => job[c] \in JobIDs
    BY DEF TypeInv, HandlerHasJob
  <2> HIDE DEF k
  <2>5. ASSUME NEW c \in Clients, pc[c] \in {"subscribe", "get"},
               Finished(job[c])' \/ Stored(job[c])'
        PROVE  result'[job[c]] # None
    <3>1. Finished(job[c]) \/ Stored(job[c]) \/ job[c] = k
      BY <2>2, <2>3, <2>5
    <3> QED
      BY <1>0, <2>1, <2>2, <2>4, <2>5, <3>1 DEF WakeInv
  <2>6. ASSUME NEW c \in Clients
        PROVE  /\ pc[c] \in {"get", "wait"} => sub[c] # "off"
               /\ pc[c] = "wait" =>
                     (Finished(job[c])' \/ Published(job[c])' =>
                         inbox[c] # None \/ c \in missed)
    BY <1>0, <2>2, <2>3 DEF WakeInv
  <2> QED
    BY <2>2, <2>5, <2>6 DEF WakeInv
<1>5. CASE Publish(w)
  <2> DEFINE k == HeldEntry(w).job
  <2>1. Envelope(w) # None
    BY <1>5, EnvelopeOwned DEF Publish, Busy
  <2>2. /\ UNCHANGED <<entries, cursor, pel, result, pc, job, sub, holds>>
        /\ wpc[w] = "publish" /\ wpc'[w] = "ack"
        /\ \A v \in Workers \ {w} : wpc'[v] = wpc[v]
        /\ \A c \in Clients : inbox[c] # None => inbox'[c] # None
        /\ \A c \in Clients : c \in missed => c \in missed'
        /\ \A c \in Clients : sub[c] = "active" /\ job[c] = k => inbox'[c] # None
        /\ \A c \in Clients : sub[c] = "sent" /\ job[c] = k => c \in missed'
        /\ \A c \in Clients : sub[c] \in {"off", "sent", "active"}
    BY <1>5, <2>1 DEF Publish, Subscribers, Subscribing, GotoW, redisVars, TypeInv, TypeOK
  <2>3. /\ \A j : Finished(j)' = Finished(j)
        /\ \A j : Stored(j)' => Stored(j)
        /\ \A j : Published(j)' => Published(j) \/ j = k
    BY <2>2 DEF Finished, Done, Stored, Published, HeldEntry, StreamOf
  <2> HIDE DEF k
  <2>4. ASSUME NEW c \in Clients, pc[c] = "wait",
               Finished(job[c])' \/ Published(job[c])'
        PROVE  inbox'[c] # None \/ c \in missed'
    <3>1. Finished(job[c]) \/ Published(job[c]) \/ job[c] = k
      BY <2>2, <2>3, <2>4
    <3> QED
      BY <1>0, <2>2, <2>4, <3>1 DEF WakeInv
  <2>5. ASSUME NEW c \in Clients
        PROVE  /\ pc[c] \in {"subscribe", "get"} =>
                     (Finished(job[c])' \/ Stored(job[c])' => result[job[c]] # None)
               /\ pc[c] \in {"get", "wait"} => sub[c] # "off"
    BY <1>0, <2>2, <2>3 DEF WakeInv
  <2> QED
    BY <2>2, <2>4, <2>5 DEF WakeInv
<1>6. CASE Ack(w)
  <2>1. /\ UNCHANGED <<entries, result, pc, job, sub, inbox, missed>>
        /\ wpc'[w] = "read"
        /\ \A v \in Workers \ {w} : wpc'[v] = wpc[v] /\ holds'[v] = holds[v]
    BY <1>6 DEF Ack, EndJob, handlerVars, TypeInv, TypeOK
  <2>2. /\ \A j : Stored(j)' => Stored(j)
        /\ \A j : Published(j)' => Published(j)
        /\ \A j : Published(j) => Stored(j)
    BY <2>1 DEF Stored, Published, HeldEntry, StreamOf
  <2>3. \A j : Finished(j)' => Finished(j) \/ Published(j)
    BY <1>6, AckFinishesHeld
  <2>4. ASSUME NEW c \in Clients
        PROVE  /\ pc[c] \in {"subscribe", "get"} =>
                     (Finished(job[c])' \/ Stored(job[c])' => result[job[c]] # None)
               /\ pc[c] \in {"get", "wait"} => sub[c] # "off"
               /\ pc[c] = "wait" =>
                     (Finished(job[c])' \/ Published(job[c])' =>
                         inbox[c] # None \/ c \in missed)
    BY <1>0, <2>1, <2>2, <2>3 DEF WakeInv
  <2> QED
    BY <2>1, <2>4 DEF WakeInv
<1>7. CASE WorkerFault(w)
  BY <1>0, <1>7 DEF WorkerFault, ReadReplyLost, StoreResultFails, PublishFails,
     AckFails
<1> QED
  BY <1>2, <1>3, <1>4, <1>5, <1>6, <1>7 DEF WorkerStep

\* Every step keeps the wakeups.
LEMMA WakeInvStep ==
    ASSUME TypeInv, OwnInv, WakeInv, [Next]_vars
    PROVE  WakeInv'
<1> SUFFICES ASSUME faults' = 0
             PROVE  WakeInv'
  BY DEF WakeInv
<1>0. ~Fault
  BY FaultShows
<1>1. ASSUME NEW p \in Replicas, Start(p) PROVE WakeInv'
  <2>1. /\ faults = 0 /\ UNCHANGED <<entries, cursor, pel, result, holds>>
        /\ UNCHANGED <<pc, job, sub, inbox, missed>>
        /\ \A w \in Workers : wpc'[w] \in {"publish", "ack"} => wpc'[w] = wpc[w]
        /\ \A c \in Clients : pc[c] \in {"get", "wait"} => sub[c] # "off"
    BY <1>0, <1>1 DEF Start, handlerVars, WakeInv
  <2>2. /\ \A j : Finished(j)' => Finished(j)
        /\ \A j : Stored(j)' => Stored(j)
        /\ \A j : Published(j)' => Published(j)
    BY <2>1 DEF Finished, Done, Stored, Published, HeldEntry, StreamOf
  <2> QED
    BY <2>1, <2>2, WakeKept
<1>2. ASSUME NEW p \in Replicas, Crash(p) PROVE WakeInv'
  BY <1>0, <1>2 DEF Crash, Die
<1>3. ASSUME NEW w \in Workers, Panic(w) PROVE WakeInv'
  BY <1>0, <1>3 DEF Panic, Die
<1>4. ASSUME NEW k \in JobIDs, Expire(k) PROVE WakeInv'
  <2>1. /\ faults = 0 /\ UNCHANGED <<entries, cursor, pel, holds, wpc>>
        /\ UNCHANGED <<pc, job, sub, inbox, missed>>
        /\ \A c \in Clients : pc[c] \in {"get", "wait"} => sub[c] # "off"
        /\ result' = [result EXCEPT ![k] = None]
        /\ \A c \in Clients : pc[c] \in {"subscribe", "get"} => job[c] # k
    BY <1>0, <1>4 DEF Expire, handlerVars, workerVars, WakeInv
  <2>2. /\ \A j : Finished(j)' => Finished(j)
        /\ \A j : Stored(j)' => Stored(j)
        /\ \A j : Published(j)' => Published(j)
    BY <2>1 DEF Finished, Done, Stored, Published, HeldEntry, StreamOf
  <2>3. \A c \in Clients : pc[c] \in {"subscribe", "get"} =>
                             result'[job[c]] = result[job[c]]
    BY <2>1 DEF TypeInv, TypeOK
  <2> QED
    BY <2>1, <2>2, <2>3, WakeKept
<1>5. CASE UNCHANGED vars
  BY <1>5 DEF vars, redisVars, handlerVars, workerVars, envVars, WakeInv,
     Finished, Done, Stored, Published, HeldEntry, StreamOf
<1> QED
  BY <1>1, <1>2, <1>3, <1>4, <1>5, HandlerWakeStep, WorkerWakeStep DEF Next

\* Subscribing before the GET leaves one gap only, for any number of handlers
\* and workers: when nothing fails, a handler that waits for a finished job has
\* its result, or the publication overtook its SUBSCRIBE.
THEOREM WakeupsArrive == Spec => []OneWakeupGap
<1>1. Init => WakeInv
  BY DEF Init, WakeInv
<1>2. WakeInv => OneWakeupGap
  BY DEF WakeInv, OneWakeupGap
<1>3. TypeInv /\ OwnInv /\ WakeInv /\ [Next]_vars => WakeInv'
  BY WakeInvStep
<1> QED
  BY <1>1, <1>2, <1>3, TypeInvInit, TypeInvStep, OwnInvInit, OwnInvStep, PTL DEF Spec

-----------------------------------------------------------------------------
(***************************************************************************)
(* JobQueue implements JobService, for every set of streams, handlers,     *)
(* workers and replicas and every bound.                                   *)
(***************************************************************************)

\* The workers of a replica that is down are down.
WorkersDown == \A w \in Workers : ~up[HostOf[w]] => wpc[w] = "down"

\* What the refinement rests on: the types, whose result it is, and that a
\* replica starts with no job at hand.
RefInv == TypeInv /\ OwnInv /\ WorkersDown

\* What follows the k-th element when a sequence grows.
LEMMA RestOfLonger ==
    ASSUME NEW S, NEW a \in Seq(S), NEW b \in Seq(S), NEW k \in Nat, k <= Len(a)
    PROVE  SubSeq(a \o b, k + 1, Len(a \o b)) = SubSeq(a, k + 1, Len(a)) \o b
<1> DEFINE l == SubSeq(a \o b, k + 1, Len(a \o b))
           r == SubSeq(a, k + 1, Len(a)) \o b
<1>1. /\ Len(a \o b) = Len(a) + Len(b) /\ a \o b \in Seq(S)
      /\ Len(a) \in Nat /\ Len(b) \in Nat
  OBVIOUS
<1>2. l \in Seq(S) /\ Len(l) = Len(a) + Len(b) - k
      /\ \A i \in 1..Len(l) : l[i] = (a \o b)[k + i]
  BY <1>1
<1>3. r \in Seq(S) /\ Len(r) = Len(a) - k + Len(b)
  BY <1>1
<1>4. ASSUME NEW i \in 1..Len(l)
      PROVE  l[i] = r[i]
  <2>1. CASE i <= Len(a) - k
    BY <1>1, <1>2, <2>1
  <2>2. CASE i > Len(a) - k
    BY <1>1, <1>2, <2>2, SMTT(30)
  <2> QED
    BY <1>1, <1>2, <2>1, <2>2
<1> HIDE DEF l, r
<1>5. Len(l) = Len(r)
  BY <1>1, <1>2, <1>3
<1>6. l = r
  BY <1>2, <1>3, <1>4, <1>5, SeqEqual
<1> QED
  BY <1>6 DEF l, r

\* What follows the k-th element begins with the next one.
LEMMA RestOfRest ==
    ASSUME NEW S, NEW a \in Seq(S), NEW k \in Nat, k < Len(a)
    PROVE  /\ SubSeq(a, k + 1, Len(a)) # << >>
           /\ Head(SubSeq(a, k + 1, Len(a))) = a[k + 1]
           /\ Tail(SubSeq(a, k + 1, Len(a))) = SubSeq(a, k + 1 + 1, Len(a))
<1>1. k + 1 \in 1..Len(a) /\ Len(a) \in (k + 1)..Len(a)
  OBVIOUS
<1>2. SubSeq(a, k + 1, Len(a)) # << >>
  <2> DEFINE n == Len(SubSeq(a, k + 1, Len(a)))
  <2>1. n = Len(a) - k /\ Len(a) \in Nat
    BY <1>1
  <2> HIDE DEF n
  <2>2. n # 0
    BY <2>1
  <2>3. Len(<< >>) = 0
    OBVIOUS
  <2> QED
    BY <2>2, <2>3 DEF n
<1> QED
  BY <1>1, <1>2, HeadTailOfSubSeq

-----------------------------------------------------------------------------
(***************************************************************************)
(* How the abstract variables move with the concrete ones.                 *)
(***************************************************************************)

\* Backlog is a function of the streams, before and after a step.
LEMMA BacklogShape ==
    /\ DOMAIN Backlog = Streams /\ DOMAIN Backlog' = Streams
    /\ Backlog = [t \in Streams |-> Backlog[t]]
    /\ Backlog' = [t \in Streams |-> Backlog'[t]]
    /\ \A t \in Streams :
          /\ Backlog[t] = SubSeq(entries[t], cursor[t] + 1, Len(entries[t]))
          /\ Backlog'[t] = SubSeq(entries'[t], cursor'[t] + 1, Len(entries'[t]))
BY DEF Backlog

\* The backlogs stay when neither the streams nor the cursors move.
LEMMA BacklogKept ==
    ASSUME UNCHANGED <<entries, cursor>>
    PROVE  Backlog' = Backlog
BY DEF Backlog

\* XREADGROUP takes the oldest entry of the backlog.
LEMMA BacklogTaken ==
    ASSUME TypeInv, NEW s \in Streams, Unread(s), TakeNext(s), entries' = entries
    PROVE  /\ Backlog[s] # << >>
           /\ Head(Backlog[s]) = entries[s][cursor[s] + 1]
           /\ Backlog' = [Backlog EXCEPT ![s] = Tail(@)]
<1>1. /\ entries[s] \in Seq(Entry) /\ cursor[s] \in Nat
      /\ cursor[s] < Len(entries[s])
  BY DEF TypeInv, TypeOK, Unread
<1>2. Backlog[s] = SubSeq(entries[s], cursor[s] + 1, Len(entries[s]))
  BY DEF Backlog
<1>3. /\ Backlog[s] # << >>
      /\ Head(Backlog[s]) = entries[s][cursor[s] + 1]
      /\ Tail(Backlog[s]) = SubSeq(entries[s], cursor[s] + 1 + 1, Len(entries[s]))
  BY <1>1, <1>2, RestOfRest
<1>4. /\ cursor'[s] = cursor[s] + 1
      /\ \A t \in Streams \ {s} : cursor'[t] = cursor[t]
  BY DEF TakeNext, TypeInv, TypeOK
<1>5. Backlog'[s] = Tail(Backlog[s])
      /\ \A t \in Streams \ {s} : Backlog'[t] = Backlog[t]
  <2>1. Backlog'[s] = Tail(Backlog[s])
    BY <1>3, <1>4, BacklogShape, Zenon
  <2>2. ASSUME NEW t \in Streams \ {s}
        PROVE  Backlog'[t] = Backlog[t]
    BY <1>4, <2>2, BacklogShape, Zenon
  <2> QED
    BY <2>1, <2>2
<1>6. Backlog' = [Backlog EXCEPT ![s] = Tail(@)]
  BY <1>5, BacklogShape
<1> QED
  BY <1>3, <1>6

\* XADD appends to the backlog.
LEMMA BacklogGrows ==
    ASSUME TypeInv, NEW c \in Clients, issued < MaxJobs, NEW n \in 0..2,
           entries' = [entries EXCEPT ![stream[c]] = @ \o JobEntries(c, n)],
           cursor' = cursor
    PROVE  Backlog' = [Backlog EXCEPT ![stream[c]] = @ \o JobEntries(c, n)]
<1> DEFINE s == stream[c]
           add == JobEntries(c, n)
<1>1. s \in Streams /\ entries \in [Streams -> Seq(Entry)]
      /\ cursor[s] \in Nat /\ cursor[s] <= Len(entries[s])
  BY DEF TypeInv, TypeOK
<1>2. add \in Seq(Entry)
  BY JobEntriesType DEF TypeInv
<1> HIDE DEF s, add
<1>3. /\ entries'[s] = entries[s] \o add
      /\ \A t \in Streams \ {s} : entries'[t] = entries[t]
  BY <1>1 DEF s, add
<1>4. SubSeq(entries[s] \o add, cursor[s] + 1, Len(entries[s] \o add))
        = SubSeq(entries[s], cursor[s] + 1, Len(entries[s])) \o add
  <2>1. entries[s] \in Seq(Entry)
    BY <1>1
  <2> QED
    BY <1>1, <1>2, <2>1, RestOfLonger
<1>5. Backlog'[s] = Backlog[s] \o add
  BY <1>1, <1>3, <1>4, BacklogShape, Zenon
<1>6. ASSUME NEW t \in Streams \ {s}
      PROVE  Backlog'[t] = Backlog[t]
  BY <1>3, <1>6, BacklogShape, Zenon
<1>7. Backlog' = [Backlog EXCEPT ![s] = @ \o add]
  BY <1>1, <1>5, <1>6, BacklogShape, Zenon
<1> QED
  BY <1>7 DEF s, add

\* Running is a function of the workers, before and after a step.
LEMMA RunningShape ==
    /\ DOMAIN Running = Workers
    /\ Running = [w \in Workers |-> Running[w]]
    /\ Running' = [w \in Workers |-> Running'[w]]
    /\ \A w \in Workers :
          /\ Running[w] = IF Busy(w) THEN HeldEntry(w) ELSE None
          /\ Running'[w] = IF Busy(w)' THEN HeldEntry(w)' ELSE None
BY DEF Running

\* A busy worker is at an entry.
LEMMA RunningEntry ==
    ASSUME TypeInv, NEW w \in Workers, Busy(w)
    PROVE  Running[w] = HeldEntry(w) /\ HeldEntry(w) \in Entry /\ Running[w] # None
<1>1. StreamOf(w) \in Streams
  BY JobQueueAssumption DEF StreamOf
<1>2. holds[w] \in 1..Len(entries[StreamOf(w)])
  BY <1>1 DEF TypeInv, TypeOK, HoldsDelivered
<1>3. HeldEntry(w) \in Entry
  BY <1>1, <1>2 DEF TypeInv, TypeOK, HeldEntry
<1> QED
  BY <1>3, RunningShape, NoneAssumption

\* Workers that stay as they are run what they ran.
LEMMA RunningKept ==
    ASSUME entries' = entries,
           \A w \in Workers : /\ Busy(w)' <=> Busy(w)
                              /\ Busy(w) => holds'[w] = holds[w]
    PROVE  Running' = Running
<1>1. \A w \in Workers : Busy(w) => HeldEntry(w)' = HeldEntry(w)
  BY DEF HeldEntry, StreamOf
<1>2. \A w \in Workers : Running'[w] = Running[w]
  BY <1>1, RunningShape
<1> QED
  BY <1>2, RunningShape

\* Nor does an XADD change what they run.
LEMMA RunningKeptByAppend ==
    ASSUME TypeInv, NEW c \in Clients, issued < MaxJobs, NEW n \in 0..2,
           entries' = [entries EXCEPT ![stream[c]] = @ \o JobEntries(c, n)],
           UNCHANGED <<wpc, holds>>
    PROVE  /\ Running' = Running
           /\ \A w \in Workers : Busy(w) => HeldEntry(w)' = HeldEntry(w)
<1>1. ASSUME NEW w \in Workers, Busy(w)
      PROVE  HeldEntry(w)' = HeldEntry(w)
  <2>1. StreamOf(w) \in Streams
    BY JobQueueAssumption DEF StreamOf
  <2>2. holds[w] \in 1..Len(entries[StreamOf(w)])
    BY <1>1, <2>1 DEF TypeInv, TypeOK, HoldsDelivered
  <2>3. TypeOK
    BY DEF TypeInv
  <2>4. holds[w] \in 1..Len(entries'[StreamOf(w)])
    <3>1. /\ Len(entries[StreamOf(w)]) \in Nat
          /\ \/ Len(entries'[StreamOf(w)]) = Len(entries[StreamOf(w)]) + n
             \/ Len(entries'[StreamOf(w)]) = Len(entries[StreamOf(w)])
      <4>1. Len(entries[StreamOf(w)]) \in Nat
        BY <2>1 DEF TypeInv, TypeOK
      <4>2. /\ entries' \in [Streams -> Seq(Entry)]
            /\ \A s \in Streams : Len(entries'[s]) =
                  Len(entries[s]) + (IF s = stream[c] THEN n ELSE 0)
        BY <2>3, AppendType
      <4> QED
        BY <2>1, <4>1, <4>2
    <3> QED
      BY <2>2, <3>1
  <2>5. \A s \in Streams : \A i \in 1..Len(entries'[s]) :
           \/ i \in 1..Len(entries[s]) /\ entries'[s][i] = entries[s][i]
           \/ /\ i \notin 1..Len(entries[s]) /\ s = stream[c]
              /\ entries'[s][i] = [job |-> issued + 1, user |-> c]
    BY <2>3, AppendElements
  <2>6. entries'[StreamOf(w)][holds[w]] = entries[StreamOf(w)][holds[w]]
    BY <2>1, <2>2, <2>4, <2>5
  <2> QED
    BY <2>6 DEF HeldEntry, StreamOf
<1>2. \A w \in Workers : Busy(w)' <=> Busy(w)
  BY DEF Busy
<1>3. \A w \in Workers : Running'[w] = Running[w]
  BY <1>1, <1>2, RunningShape
<1> QED
  BY <1>1, <1>3, RunningShape

\* What is known: results in Redis, in inboxes and with workers.
LEMMA KnownResults ==
    /\ \A r : r \in Known <=>
          /\ r # None
          /\ \/ \E j \in JobIDs : r = result[j]
             \/ \E c \in Clients : r = inbox[c]
             \/ \E w \in Workers : /\ wpc[w] \in {"store", "publish", "ack"}
                                   /\ r = Envelope(w)
    /\ \A r : r \in Known' <=>
          /\ r # None
          /\ \/ \E j \in JobIDs : r = result'[j]
             \/ \E c \in Clients : r = inbox'[c]
             \/ \E w \in Workers : /\ wpc'[w] \in {"store", "publish", "ack"}
                                   /\ r = Envelope(w)'
BY DEF Known, Carrying

\* Nothing new is known when results, messages and workers with a result are
\* among those there were.
LEMMA KnownShrinks ==
    ASSUME \A j \in JobIDs : result'[j] \in Known \cup {result[j], None},
           \A c \in Clients : inbox'[c] \in Known \cup {inbox[c], None},
           \A w \in Workers : wpc'[w] \in {"store", "publish", "ack"} =>
               /\ wpc[w] \in {"store", "publish", "ack"}
               /\ Envelope(w)' = Envelope(w)
    PROVE  Known' \subseteq Known
<1> SUFFICES ASSUME NEW r, r \in Known'
             PROVE  r \in Known
  OBVIOUS
<1>1. r # None
  BY KnownResults
<1>2. CASE \E j \in JobIDs : r = result'[j]
  BY <1>1, <1>2, KnownResults
<1>3. CASE \E c \in Clients : r = inbox'[c]
  BY <1>1, <1>3, KnownResults
<1>4. CASE \E w \in Workers : /\ wpc'[w] \in {"store", "publish", "ack"}
                              /\ r = Envelope(w)'
  BY <1>1, <1>4, KnownResults
<1> QED
  BY <1>2, <1>3, <1>4, KnownResults

\* The same is known when none of these changes.
LEMMA KnownKept ==
    ASSUME UNCHANGED <<result, inbox>>,
           \A w \in Workers :
               /\ wpc'[w] \in {"store", "publish", "ack"}
                     <=> wpc[w] \in {"store", "publish", "ack"}
               /\ wpc[w] \in {"store", "publish", "ack"} => Envelope(w)' = Envelope(w)
    PROVE  Known' = Known
BY KnownResults

-----------------------------------------------------------------------------
(***************************************************************************)
(* The steps.                                                              *)
(***************************************************************************)

\* A step that moves nothing the clients of the service can see.
LEMMA Stutters ==
    ASSUME UNCHANGED <<stream, job, answer, issued>>,
           Backlog' = Backlog, Running' = Running, Known' = Known
    PROVE  UNCHANGED JS!vars
BY DEF JS!vars

\* Results are forgotten.
LEMMA Lapses ==
    ASSUME UNCHANGED <<stream, job, answer, issued>>,
           Backlog' = Backlog, Running' = Running, Known' \subseteq Known
    PROVE  JS!Next
BY DEF JS!Next, JS!Lapse, JS!Forget

\* Close ends the request of one client.
LEMMA CloseEnds ==
    ASSUME TypeInv, NEW c \in Clients, NEW event, NEW payload,
           Close(c, event, payload)
    PROVE  JS!End({c}, event, payload)
<1>1. answer \in [Clients -> Answers]
      /\ answer' = [answer EXCEPT ![c] = [event |-> event, payload |-> payload]]
  BY DEF TypeInv, TypeOK, Close
<1> QED
  BY <1>1 DEF JS!End

\* The steps of a handler are steps of the service.
LEMMA HandlerRefines ==
    ASSUME RefInv, NEW c \in Clients,
           \/ \E s \in Streams : Submit(c, s)
           \/ Refuse(c) \/ HandlerStep(c) \/ HandlerFault(c)
    PROVE  JS!Next \/ UNCHANGED JS!vars
<1> USE NoneAssumption
<1>1. TypeInv /\ OwnInv /\ TypeOK
  BY DEF RefInv, TypeInv
\* What does not touch the streams and the workers.
<1>2. ASSUME UNCHANGED <<redisVars, workerVars>>
      PROVE  Backlog' = Backlog /\ Running' = Running
  BY <1>2, BacklogKept, RunningKept DEF redisVars, workerVars, Busy
<1>3. ASSUME UNCHANGED <<redisVars, workerVars, inbox>>
      PROVE  Known' = Known
  BY <1>3, KnownKept DEF redisVars, workerVars, Envelope, HeldEntry, StreamOf
<1>4. ASSUME UNCHANGED <<redisVars, workerVars>>, NEW event, NEW payload,
             Close(c, event, payload)
      PROVE  Known' \subseteq Known
  <2>1. \A d \in Clients : inbox'[d] \in {inbox[d], None}
    BY <1>1, <1>4 DEF Close, TypeOK
  <2>2. /\ \A j \in JobIDs : result'[j] = result[j]
        /\ \A w \in Workers : wpc'[w] = wpc[w] /\ Envelope(w)' = Envelope(w)
    BY <1>4 DEF redisVars, workerVars, Envelope, HeldEntry, StreamOf
  <2> QED
    BY <2>1, <2>2, KnownShrinks
\* Who is waiting, and for what.
<1>5. /\ pc[c] # "idle" => JS!Waiting(c)
      /\ pc[c] \in {"idle", "check", "add"} => ~JS!Accepted(c)
      /\ pc[c] \in {"subscribe", "get", "wait"} => JS!Accepted(c)
  <2>1. /\ pc[c] # "idle" => answer[c].event = "none"
        /\ pc[c] = "idle" /\ answer[c].event = "none" => job[c] = 0
        /\ pc[c] \in {"check", "add"} => job[c] = 0
    BY <1>1 DEF OwnInv, HandlerStages
  <2>2. pc[c] \in {"subscribe", "get", "wait"} => job[c] \in JobIDs /\ job[c] # 0
    BY <1>1, JobQueueAssumption DEF TypeInv, HandlerHasJob, JobIDs
  <2> QED
    BY <2>1, <2>2 DEF JS!Waiting, JS!Accepted
<1>6. pc[c] \in {"idle", "check", "add", "subscribe"} => inbox[c] = None
  BY <1>1 DEF OwnInv, HandlerStages
<1>7. ASSUME pc[c] \in {"idle", "check"}, UNCHANGED <<redisVars, workerVars>>,
             NEW reason \in {"refused", "full", "error"}, Close(c, reason, None),
             UNCHANGED <<stream, job, issued>>
      PROVE  JS!Next
  <2>1. inbox' = inbox
    BY <1>1, <1>6, <1>7 DEF Close, TypeOK
  <2>2. Backlog' = Backlog /\ Running' = Running /\ Known' = Known
    BY <1>2, <1>3, <1>7, <2>1
  <2>3. JS!End({c}, reason, None)
    BY <1>1, <1>7, CloseEnds
  <2>4. JS!TurnAway(c)
    BY <1>5, <1>7, <2>2, <2>3 DEF JS!TurnAway
  <2> QED
    BY <2>4 DEF JS!Next
<1>8. ASSUME pc[c] # "idle", UNCHANGED <<redisVars, workerVars>>,
             NEW event, Close(c, event, None), UNCHANGED <<stream, job, issued>>,
             event = "gone" \/ (event = "timeout" /\ pc[c] = "wait")
      PROVE  JS!Next
  <2>1. Backlog' = Backlog /\ Running' = Running /\ Known' \subseteq Known
    BY <1>2, <1>4, <1>8
  <2>2. JS!End({c}, event, None)
    BY <1>1, <1>8, CloseEnds
  <2>3. JS!GiveUp(c)
    BY <1>5, <1>8, <2>1, <2>2 DEF JS!GiveUp, JS!Forget
  <2> QED
    BY <2>3 DEF JS!Next
<1>9. ASSUME UNCHANGED <<redisVars, workerVars, inbox, answer, stream, job, issued>>
      PROVE  UNCHANGED JS!vars
  BY <1>2, <1>3, <1>9, Stutters
\* A result that is known, for this job and this client.
<1>10. ASSUME NEW r \in Known, pc[c] \in {"get", "wait"}, Deliver(c, r),
              r.job = job[c], Owned(r), UNCHANGED <<redisVars, workerVars>>,
              UNCHANGED <<stream, job, issued>>
       PROVE  JS!Next
  <2>1. r.user = c
    BY <1>10 DEF Owned
  <2>2. Close(c, "result", r)
    BY <1>10, <2>1 DEF Deliver, OwnedBy
  <2>3. Backlog' = Backlog /\ Running' = Running /\ Known' \subseteq Known
    BY <1>2, <1>4, <1>10, <2>2
  <2>4. JS!End({c}, "result", r)
    BY <1>1, <2>2, CloseEnds
  <2>5. JS!Reply(c)
    BY <1>5, <1>10, <2>1, <2>3, <2>4 DEF JS!Reply, JS!Forget
  <2> QED
    BY <2>5 DEF JS!Next
<1>11. ASSUME NEW s \in Streams, Submit(c, s) PROVE JS!Next
  <2>1. /\ pc[c] = "idle" /\ UNCHANGED <<redisVars, workerVars, inbox, issued>>
        /\ stream' = [stream EXCEPT ![c] = s] /\ job' = [job EXCEPT ![c] = 0]
        /\ answer' = [answer EXCEPT ![c] = [event |-> "none", payload |-> None]]
    BY <1>11 DEF Submit, envVars
  <2>2. JS!End({c}, "none", None)
    BY <1>1, <2>1 DEF JS!End, TypeOK
  <2>3. Backlog' = Backlog /\ Running' = Running /\ Known' = Known
    BY <1>2, <1>3, <2>1
  <2>4. JS!Ask(c, s)
    BY <1>5, <2>1, <2>2, <2>3 DEF JS!Ask
  <2> QED
    BY <2>4 DEF JS!Next
<1>12. CASE Refuse(c)
  BY <1>7, <1>12 DEF Refuse, envVars
<1>13. CASE CheckDepth(c)
  <2>1. CASE Full(stream[c])
    BY <1>7, <1>13, <2>1 DEF CheckDepth, envVars
  <2>2. CASE ~Full(stream[c])
    BY <1>9, <1>13, <2>2 DEF CheckDepth, envVars
  <2> QED
    BY <2>1, <2>2
<1>14. CASE CheckDepthFails(c)
  BY <1>7, <1>14 DEF CheckDepthFails
<1>15. ASSUME pc[c] = "add", issued < MaxJobs, issued' = issued + 1,
              job' = [job EXCEPT ![c] = issued + 1], NEW n \in 0..2,
              entries' = [entries EXCEPT ![stream[c]] = @ \o JobEntries(c, n)],
              \/ Close(c, "error", None)
              \/ n > 0 /\ UNCHANGED <<inbox, answer>>,
              UNCHANGED <<cursor, result, stream, workerVars>>
       PROVE  JS!Next
  <2>1. UNCHANGED <<wpc, holds, success>>
    BY <1>15 DEF workerVars
  <2>2. Running' = Running /\ \A w \in Workers : Busy(w) => HeldEntry(w)' = HeldEntry(w)
    BY <1>1, <1>15, <2>1, RunningKeptByAppend
  <2>3. inbox' = inbox
    BY <1>1, <1>6, <1>15 DEF Close, TypeOK
  <2>4. Known' = Known
    BY <1>15, <2>1, <2>2, <2>3, KnownKept DEF Busy, Envelope
  <2>5. Backlog' = [Backlog EXCEPT ![stream[c]] = @ \o JobEntries(c, n)]
    BY <1>1, <1>15, BacklogGrows
  <2>6. (n > 0 /\ UNCHANGED answer) \/ JS!End({c}, "error", None)
    BY <1>1, <1>15, CloseEnds
  <2>7. JS!Accept(c, n)
    BY <1>5, <1>15, <2>2, <2>4, <2>5, <2>6 DEF JS!Accept, JobEntries
  <2> QED
    BY <2>7 DEF JS!Next
<1>16. CASE AddJob(c)
  <2>1. 1 \in 0..2 /\ 1 > 0
    OBVIOUS
  <2> QED
    BY <1>15, <1>16, <2>1 DEF AddJob
<1>17. CASE AddJobFaulty(c)
  <2>1. PICK n \in 0..2 :
          /\ entries' = [entries EXCEPT ![stream[c]] = @ \o JobEntries(c, n)]
          /\ \/ Close(c, "error", None)
             \/ n = 2 /\ UNCHANGED <<inbox, answer>>
    BY <1>17 DEF AddJobFaulty
  <2>2. Close(c, "error", None) \/ (n > 0 /\ UNCHANGED <<inbox, answer>>)
    BY <2>1
  <2> QED
    BY <1>15, <1>17, <2>1, <2>2 DEF AddJobFaulty
<1>18. CASE Subscribe(c)
  BY <1>9, <1>18 DEF Subscribe, envVars
<1>19. CASE SubscribeArrives(c)
  BY <1>9, <1>19 DEF SubscribeArrives, envVars
<1>20. CASE GetResult(c)
  <2>1. /\ job[c] \in JobIDs /\ pc[c] = "get"
        /\ UNCHANGED <<redisVars, workerVars, stream, job, issued>>
    BY <1>1, <1>20 DEF GetResult, TypeInv, HandlerHasJob, envVars
  <2>2. CASE result[job[c]] # None
    <3>1. /\ Deliver(c, result[job[c]])
          /\ result[job[c]].job = job[c] /\ Owned(result[job[c]])
      BY <1>1, <1>20, <2>1, <2>2 DEF GetResult, OwnInv, ResultsOwned
    <3>2. result[job[c]] \in Known
      BY <2>1, <2>2, KnownResults
    <3> QED
      BY <1>10, <2>1, <3>1, <3>2
  <2>3. CASE result[job[c]] = None
    BY <1>9, <1>20, <2>1, <2>3 DEF GetResult
  <2> QED
    BY <2>2, <2>3
<1>21. CASE GetResultFails(c)
  BY <1>9, <1>21 DEF GetResultFails
<1>22. CASE Receive(c)
  <2>1. /\ pc[c] = "wait" /\ inbox[c] # None /\ Deliver(c, inbox[c])
        /\ UNCHANGED <<redisVars, workerVars, stream, job, issued>>
    BY <1>22 DEF Receive, envVars
  <2>2. inbox[c].job = job[c] /\ Owned(inbox[c])
    BY <1>1, <2>1 DEF OwnInv, InboxesOwned
  <2>3. inbox[c] \in Known
    BY <2>1, KnownResults
  <2> QED
    BY <1>10, <2>1, <2>2, <2>3
<1>23. CASE Timeout(c)
  BY <1>8, <1>23 DEF Timeout, envVars
<1>24. CASE Disconnect(c)
  BY <1>8, <1>24 DEF Disconnect, envVars
<1> QED
  BY <1>11, <1>12, <1>13, <1>14, <1>16, <1>17, <1>18, <1>19, <1>20, <1>21,
     <1>22, <1>23, <1>24 DEF HandlerStep, HandlerFault

\* The steps of a worker are steps of the service.
LEMMA WorkerRefines ==
    ASSUME RefInv, NEW w \in Workers, WorkerStep(w) \/ WorkerFault(w)
    PROVE  JS!Next \/ UNCHANGED JS!vars
<1> USE NoneAssumption
<1>1. TypeInv /\ OwnInv /\ TypeOK
  BY DEF RefInv, TypeInv
<1>2. StreamOf(w) \in Streams
  BY JobQueueAssumption DEF StreamOf
\* A worker that goes on with the entry it holds.
<1>3. ASSUME NEW label, GotoW(w, label), Busy(w),
             label \in {"store", "publish", "ack"},
             UNCHANGED <<entries, cursor, holds>>
      PROVE  /\ Backlog' = Backlog /\ Running' = Running
             /\ \A v \in Workers : HeldEntry(v)' = HeldEntry(v)
             /\ wpc'[w] = label
             /\ \A v \in Workers \ {w} : wpc'[v] = wpc[v]
  <2>1. wpc'[w] = label /\ \A v \in Workers \ {w} : wpc'[v] = wpc[v]
    BY <1>1, <1>3 DEF GotoW, TypeOK
  <2>2. \A v \in Workers : Busy(v)' <=> Busy(v)
    BY <1>3, <2>1 DEF Busy
  <2>3. Backlog' = Backlog /\ Running' = Running
    BY <1>3, <2>2, BacklogKept, RunningKept
  <2> QED
    BY <1>3, <2>1, <2>3 DEF HeldEntry, StreamOf
\* One that only moves on forgets and learns nothing.
<1>4. ASSUME NEW label, GotoW(w, label),
             wpc[w] \in {"store", "publish"}, label \in {"publish", "ack"},
             UNCHANGED <<redisVars, handlerVars, holds, success, issued>>
      PROVE  UNCHANGED JS!vars
  <2>1. Busy(w) /\ UNCHANGED <<entries, cursor, result, stream, job, inbox, answer>>
    BY <1>4 DEF Busy, redisVars, handlerVars
  <2>2. /\ Backlog' = Backlog /\ Running' = Running
        /\ \A v \in Workers : HeldEntry(v)' = HeldEntry(v)
        /\ wpc'[w] = label
        /\ \A v \in Workers \ {w} : wpc'[v] = wpc[v]
    BY <1>3, <1>4, <2>1
  <2>3. Known' = Known
    BY <1>4, <2>1, <2>2, KnownKept DEF Envelope
  <2> QED
    BY <1>4, <2>1, <2>2, <2>3, Stutters
<1>5. CASE ReadJob(w)
  <2> DEFINE s == StreamOf(w)
  <2>1. /\ wpc[w] = "read" /\ Unread(s) /\ TakeNext(s)
        /\ holds'[w] = cursor[s] + 1 /\ wpc'[w] = "process"
        /\ \A v \in Workers \ {w} : wpc'[v] = wpc[v] /\ holds'[v] = holds[v]
        /\ UNCHANGED <<entries, result, stream, job, inbox, answer, success, issued>>
    BY <1>1, <1>5 DEF ReadJob, GotoW, TypeOK, handlerVars, envVars
  <2>2. /\ Backlog[s] # << >>
        /\ Head(Backlog[s]) = entries[s][cursor[s] + 1]
        /\ Backlog' = [Backlog EXCEPT ![s] = Tail(@)]
    BY <1>1, <1>2, <2>1, BacklogTaken
  <2>3. /\ ~Busy(w) /\ Busy(w)' /\ HeldEntry(w)' = Head(Backlog[s])
        /\ \A v \in Workers \ {w} : /\ Busy(v)' <=> Busy(v)
                                    /\ HeldEntry(v)' = HeldEntry(v)
    BY <2>1, <2>2 DEF Busy, HeldEntry, StreamOf
  <2>4. Running[w] = None /\ Running'[w] = Head(Backlog[s])
        /\ \A v \in Workers \ {w} : Running'[v] = Running[v]
    BY <2>3, RunningShape
  <2>5. Running' = [Running EXCEPT ![w] = Head(Backlog[s])]
    BY <2>4, RunningShape
  <2>6. Known' = Known
    BY <2>1, KnownKept DEF Envelope, HeldEntry, StreamOf
  <2>7. JS!Begin(w)
    BY <2>1, <2>2, <2>4, <2>5, <2>6 DEF JS!Begin, StreamOf
  <2> QED
    BY <2>7 DEF JS!Next
<1>6. CASE ReadReplyLost(w)
  <2> DEFINE s == StreamOf(w)
  <2>1. /\ Unread(s) /\ TakeNext(s)
        /\ UNCHANGED <<entries, result, stream, job, inbox, answer, issued>>
        /\ UNCHANGED <<wpc, holds, success>>
    BY <1>6 DEF ReadReplyLost, handlerVars, workerVars
  <2>2. /\ Backlog[s] # << >> /\ Backlog' = [Backlog EXCEPT ![s] = Tail(@)]
    BY <1>1, <1>2, <2>1, BacklogTaken
  <2>3. Running' = Running
    BY <2>1, RunningKept DEF Busy
  <2>4. Known' = Known
    BY <2>1, KnownKept DEF Envelope, HeldEntry, StreamOf
  <2>5. JS!Drop(s)
    BY <2>1, <2>2, <2>3, <2>4 DEF JS!Drop
  <2> QED
    BY <1>2, <2>5 DEF JS!Next
<1>7. CASE Process(w)
  <2>1. /\ Busy(w) /\ wpc[w] = "process" /\ GotoW(w, "store")
        /\ UNCHANGED <<entries, cursor, result, stream, job, inbox, answer, holds, issued>>
    BY <1>7 DEF Process, Busy, redisVars, handlerVars, envVars
  <2>2. PICK ok \in BOOLEAN : success' = [success EXCEPT ![w] = ok]
    BY <1>7 DEF Process
  <2>3. /\ Backlog' = Backlog /\ Running' = Running
        /\ \A v \in Workers : HeldEntry(v)' = HeldEntry(v)
        /\ wpc'[w] = "store"
        /\ \A v \in Workers \ {w} : wpc'[v] = wpc[v]
    BY <1>3, <2>1
  <2>4. success'[w] = ok /\ \A v \in Workers \ {w} : success'[v] = success[v]
    BY <1>1, <2>2 DEF TypeOK
  <2>5. Running[w] = HeldEntry(w) /\ Running[w] # None
    BY <1>1, <2>1, RunningEntry
  <2> DEFINE r == [job |-> Running[w].job, user |-> Running[w].user, success |-> ok]
  <2>6. Envelope(w)' = r
    BY <2>3, <2>4, <2>5 DEF Envelope
  <2>7. \A v \in Workers \ {w} : Envelope(v)' = Envelope(v)
    BY <2>3, <2>4 DEF Envelope
  <2>8. r # None
    <3>1. HeldEntry(w) \in Entry
      BY <1>1, <2>1, RunningEntry
    <3>2. r \in StoredResult
      BY <2>5, <3>1 DEF Entry, StoredResult
    <3> QED
      BY <3>2
  <2> HIDE DEF r
  <2>9. Known' = Known \cup {r}
    <3>1. ASSUME NEW q, q \in Known' PROVE q \in Known \cup {r}
      BY <2>1, <2>3, <2>6, <2>7, <3>1, KnownResults
    <3>2. ASSUME NEW q, q \in Known PROVE q \in Known'
      BY <2>1, <2>3, <2>7, <3>2, KnownResults
    <3>3. r \in Known'
      BY <2>3, <2>6, <2>8, KnownResults
    <3> QED
      BY <3>1, <3>2, <3>3
  <2>10. JS!Compute(w)
    BY <2>1, <2>3, <2>5, <2>9 DEF JS!Compute, r
  <2> QED
    BY <2>10 DEF JS!Next
<1>8. CASE StoreResult(w)
  <2>1. /\ Busy(w) /\ wpc[w] = "store" /\ GotoW(w, "publish")
        /\ UNCHANGED <<entries, cursor, stream, job, inbox, answer, holds, success, issued>>
        /\ result' = [result EXCEPT ![HeldEntry(w).job] = Envelope(w)]
    BY <1>8 DEF StoreResult, Busy, handlerVars, envVars
  <2>2. /\ Backlog' = Backlog /\ Running' = Running
        /\ \A v \in Workers : HeldEntry(v)' = HeldEntry(v)
        /\ wpc'[w] = "publish"
        /\ \A v \in Workers \ {w} : wpc'[v] = wpc[v]
    BY <1>3, <2>1
  <2>3. Envelope(w) \in Known
    <3>1. Envelope(w) # None
      BY <1>1, <2>1, EnvelopeOwned
    <3> QED
      BY <2>1, <3>1, KnownResults
  <2>4. \A j \in JobIDs : result'[j] \in Known \cup {result[j], None}
    BY <1>1, <2>1, <2>3 DEF TypeOK
  <2>5. \A v \in Workers : Envelope(v)' = Envelope(v)
    BY <2>1, <2>2 DEF Envelope
  <2>6. Known' \subseteq Known
    BY <2>1, <2>2, <2>4, <2>5, KnownShrinks
  <2> QED
    BY <2>1, <2>2, <2>6, Lapses
<1>9. CASE Publish(w)
  <2>1. /\ Busy(w) /\ wpc[w] = "publish" /\ GotoW(w, "ack")
        /\ UNCHANGED <<entries, cursor, result, stream, job, answer, holds, success, issued>>
        /\ \A c \in Clients : inbox'[c] \in {inbox[c], Envelope(w)}
    BY <1>9 DEF Publish, Busy, redisVars, envVars
  <2>2. /\ Backlog' = Backlog /\ Running' = Running
        /\ \A v \in Workers : HeldEntry(v)' = HeldEntry(v)
        /\ wpc'[w] = "ack"
        /\ \A v \in Workers \ {w} : wpc'[v] = wpc[v]
    BY <1>3, <2>1
  <2>3. Envelope(w) \in Known
    <3>1. Envelope(w) # None
      BY <1>1, <2>1, EnvelopeOwned
    <3> QED
      BY <2>1, <3>1, KnownResults
  <2>4. \A v \in Workers : Envelope(v)' = Envelope(v)
    BY <2>1, <2>2 DEF Envelope
  <2>5. Known' \subseteq Known
    BY <2>1, <2>2, <2>3, <2>4, KnownShrinks
  <2> QED
    BY <2>1, <2>2, <2>5, Lapses
<1>10. CASE StoreResultFails(w)
  BY <1>4, <1>10 DEF StoreResultFails
<1>11. CASE PublishFails(w)
  BY <1>4, <1>11 DEF PublishFails
<1>12. ASSUME wpc[w] = "ack", EndJob(w),
              UNCHANGED <<entries, cursor, result, handlerVars, issued>>
       PROVE  JS!Next
  <2>1. /\ Busy(w) /\ wpc'[w] = "read"
        /\ \A v \in Workers \ {w} : /\ wpc'[v] = wpc[v] /\ holds'[v] = holds[v]
                                    /\ success'[v] = success[v]
        /\ UNCHANGED <<stream, job, inbox, answer>>
    BY <1>1, <1>12 DEF EndJob, Busy, TypeOK, handlerVars
  <2>2. ~Busy(w)' /\ \A v \in Workers \ {w} : /\ Busy(v)' <=> Busy(v)
                                              /\ HeldEntry(v)' = HeldEntry(v)
                                              /\ Envelope(v)' = Envelope(v)
    BY <1>12, <2>1 DEF Busy, HeldEntry, StreamOf, Envelope
  <2>3. Running'[w] = None /\ \A v \in Workers \ {w} : Running'[v] = Running[v]
    BY <2>2, RunningShape
  <2>4. Running' = [Running EXCEPT ![w] = None] /\ Running[w] # None
    BY <1>1, <2>1, <2>3, RunningShape, RunningEntry
  <2>5. Known' \subseteq Known
    BY <1>12, <2>1, <2>2, KnownShrinks
  <2>6. Backlog' = Backlog
    BY <1>12, BacklogKept
  <2>7. JS!Finish(w)
    BY <1>12, <2>1, <2>4, <2>5, <2>6 DEF JS!Finish, JS!Forget
  <2> QED
    BY <2>7 DEF JS!Next
<1>13. CASE Ack(w)
  BY <1>12, <1>13 DEF Ack, envVars
<1>14. CASE AckFails(w)
  BY <1>12, <1>14 DEF AckFails, redisVars
<1> QED
  BY <1>5, <1>6, <1>7, <1>8, <1>9, <1>10, <1>11, <1>13, <1>14
     DEF WorkerStep, WorkerFault

\* Starts, crashes, panics and expiries are steps of the service.
LEMMA EnvironmentRefines ==
    ASSUME RefInv,
           \/ \E p \in Replicas : Start(p) \/ Crash(p)
           \/ \E w \in Workers : Panic(w)
           \/ \E j \in JobIDs : Expire(j)
    PROVE  JS!Next \/ UNCHANGED JS!vars
<1> USE NoneAssumption, JobQueueAssumption
<1>1. TypeInv /\ OwnInv /\ TypeOK
  BY DEF RefInv, TypeInv
<1>2. ASSUME NEW p \in Replicas, Start(p) PROVE UNCHANGED JS!vars
  <2>1. UNCHANGED <<entries, cursor, result, holds, success, issued>>
        /\ UNCHANGED <<stream, job, inbox, answer>>
    BY <1>2 DEF Start, handlerVars
  <2>2. ASSUME NEW w \in Workers
        PROVE  \/ wpc'[w] = wpc[w]
               \/ wpc'[w] = "read" /\ wpc[w] = "down"
    BY <1>2 DEF Start, RefInv, WorkersDown
  <2>3. Running' = Running
    BY <2>1, <2>2, RunningKept DEF Busy
  <2>4. Known' = Known
    <3>1. \A w \in Workers : Envelope(w)' = Envelope(w)
      BY <2>1 DEF Envelope, HeldEntry, StreamOf
    <3> QED
      BY <2>1, <2>2, <3>1, KnownKept
  <2>5. Backlog' = Backlog
    BY <2>1, BacklogKept
  <2> QED
    BY <2>1, <2>3, <2>4, <2>5, Stutters
<1>3. ASSUME NEW p \in Replicas, Die(p), UNCHANGED <<entries, cursor, result>>
      PROVE  JS!Next
  <2> DEFINE cut == {c \in Clients : HostOf[c] = p /\ pc[c] # "idle"}
  <2>1. /\ \A w \in Workers : HostOf[w] = p => wpc'[w] = "down"
        /\ \A w \in Workers : HostOf[w] # p =>
              /\ wpc'[w] = wpc[w] /\ holds'[w] = holds[w]
              /\ success'[w] = success[w]
        /\ \A c \in Clients : inbox'[c] \in {inbox[c], None}
        /\ UNCHANGED <<stream, job, issued>>
        /\ answer' = [c \in Clients |->
                        IF c \in cut THEN [event |-> "gone", payload |-> None]
                                     ELSE answer[c]]
    BY <1>1, <1>3 DEF Die, TypeOK
  <2>2. \A w \in Workers :
           IF HostOf[w] = p THEN ~Busy(w)'
           ELSE /\ Busy(w)' <=> Busy(w)
                /\ HeldEntry(w)' = HeldEntry(w)
                /\ Envelope(w)' = Envelope(w)
    BY <1>3, <2>1 DEF Busy, HeldEntry, Envelope, StreamOf
  <2>3. Running' = [w \in Workers |-> IF HostOf[w] = p THEN None ELSE Running[w]]
    <3>1. \A w \in Workers :
             Running'[w] = IF HostOf[w] = p THEN None ELSE Running[w]
      BY <2>2, RunningShape
    <3> QED
      BY <3>1, RunningShape
  <2>4. Known' \subseteq Known
    <3>1. \A w \in Workers : wpc'[w] \in {"store", "publish", "ack"} =>
               /\ wpc[w] \in {"store", "publish", "ack"}
               /\ Envelope(w)' = Envelope(w)
      BY <2>1, <2>2
    <3> QED
      BY <1>3, <2>1, <3>1, KnownShrinks
  <2>5. Backlog' = Backlog
    BY <1>3, BacklogKept
  <2>6. cut \in SUBSET {c \in Clients : HostOf[c] = p /\ JS!Waiting(c)}
    BY <1>1 DEF OwnInv, HandlerStages, JS!Waiting
  <2>7. JS!End(cut, "gone", None)
    BY <2>1 DEF JS!End
  <2> HIDE DEF cut
  <2>8. JS!Crash(p)
    BY <2>1, <2>3, <2>4, <2>5, <2>6, <2>7 DEF JS!Crash, JS!Forget
  <2> QED
    BY <2>8 DEF JS!Next
<1>4. ASSUME NEW p \in Replicas, Crash(p) PROVE JS!Next
  BY <1>3, <1>4 DEF Crash, redisVars
<1>5. ASSUME NEW w \in Workers, Panic(w) PROVE JS!Next
  <2>1. HostOf[w] \in Replicas
    OBVIOUS
  <2> QED
    BY <1>3, <1>5, <2>1 DEF Panic
<1>6. ASSUME NEW j \in JobIDs, Expire(j) PROVE JS!Next
  <2>1. /\ UNCHANGED <<entries, cursor, wpc, holds, success, issued>>
        /\ UNCHANGED <<stream, job, inbox, answer>>
        /\ \A k \in JobIDs : result'[k] \in {result[k], None}
    BY <1>1, <1>6 DEF Expire, handlerVars, workerVars, TypeOK
  <2>2. Running' = Running /\ Backlog' = Backlog
    BY <2>1, RunningKept, BacklogKept DEF Busy
  <2>3. \A w \in Workers : Envelope(w)' = Envelope(w)
    BY <2>1 DEF Envelope, HeldEntry, StreamOf
  <2>4. Known' \subseteq Known
    BY <2>1, <2>3, KnownShrinks
  <2> QED
    BY <2>1, <2>2, <2>4, Lapses
<1> QED
  BY <1>2, <1>4, <1>5, <1>6

\* RefInv holds at first and after every step.
LEMMA RefInvInit == Init => RefInv
BY TypeInvInit, OwnInvInit DEF RefInv, WorkersDown, Init

LEMMA RefInvStep == RefInv /\ [Next]_vars => RefInv'
<1> SUFFICES ASSUME RefInv, [Next]_vars
             PROVE  RefInv'
  OBVIOUS
<1>1. TypeInv' /\ OwnInv' /\ TypeOK /\ WorkersDown
  BY TypeInvStep, OwnInvStep DEF RefInv, TypeInv
<1>2. WorkersDown'
  <2> USE JobQueueAssumption
  <2>1. ASSUME UNCHANGED <<up, wpc>> PROVE WorkersDown'
    BY <1>1, <2>1 DEF WorkersDown
  <2>2. ASSUME NEW p \in Replicas, Start(p) PROVE WorkersDown'
    BY <1>1, <2>2 DEF Start, WorkersDown, TypeOK
  <2>3. ASSUME NEW p \in Replicas, Die(p) PROVE WorkersDown'
    BY <1>1, <2>3 DEF Die, WorkersDown, TypeOK
  <2>4. ASSUME NEW w \in Workers, WorkerStep(w) \/ WorkerFault(w)
        PROVE  WorkersDown'
    <3>1. up' = up /\ wpc[w] # "down"
          /\ \A v \in Workers \ {w} : wpc'[v] = wpc[v]
      BY <1>1, <2>4 DEF WorkerStep, WorkerFault, ReadJob, Process, StoreResult,
         Publish, Ack, ReadReplyLost, StoreResultFails, PublishFails, AckFails,
         GotoW, EndJob, workerVars, envVars, TypeOK
    <3> QED
      BY <1>1, <3>1 DEF WorkersDown
  <2>5. ASSUME NEW c \in Clients,
               \/ \E s \in Streams : Submit(c, s)
               \/ Refuse(c) \/ HandlerStep(c) \/ HandlerFault(c)
        PROVE  WorkersDown'
    BY <2>1, <2>5 DEF Submit, Refuse, HandlerStep, HandlerFault, CheckDepth,
       AddJob, Subscribe, SubscribeArrives, GetResult, Receive, Timeout,
       CheckDepthFails, AddJobFaulty, GetResultFails, Disconnect, workerVars,
       envVars
  <2>6. ASSUME NEW j \in JobIDs, Expire(j) PROVE WorkersDown'
    BY <2>1, <2>6 DEF Expire, workerVars
  <2>7. CASE UNCHANGED vars
    BY <2>1, <2>7 DEF vars, workerVars, envVars
  <2>8. ASSUME NEW p \in Replicas, Crash(p) PROVE WorkersDown'
    BY <2>3, <2>8 DEF Crash
  <2>9. ASSUME NEW w \in Workers, Panic(w) PROVE WorkersDown'
    BY <2>3, <2>9 DEF Panic
  <2> QED
    BY <2>2, <2>4, <2>5, <2>6, <2>7, <2>8, <2>9 DEF Next
<1> QED
  BY <1>1, <1>2 DEF RefInv

\* The gateway's job path, with its Redis streams, consumer groups,
\* publications, crashes and lost replies, implements the service that the
\* clients are promised.
THEOREM JobPathImplementsService == Spec => RefinesJobService
<1>1. Init => JS!Init
  <2> SUFFICES ASSUME Init
               PROVE  JS!Init
    OBVIOUS
  <2>1. \A s \in Streams : entries[s] = << >> /\ cursor[s] = 0
    BY DEF Init
  <2>2. \A s \in Streams : Backlog[s] = << >>
    <3>1. SubSeq(<< >>, 0 + 1, Len(<< >>)) = << >>
      OBVIOUS
    <3> QED
      BY <2>1, <3>1, BacklogShape
  <2>3. Backlog = [s \in Streams |-> << >>]
    BY <2>2, BacklogShape
  <2>4. Running = [w \in Workers |-> None]
    <3>1. \A w \in Workers : ~Busy(w)
      BY DEF Init, Busy
    <3> QED
      BY <3>1, RunningShape
  <2>5. Known = {}
    <3>1. /\ \A j \in JobIDs : result[j] = None
          /\ \A c \in Clients : inbox[c] = None
          /\ \A w \in Workers : wpc[w] = "down"
      BY DEF Init
    <3>2. \A r : r \notin Known
      BY <3>1, KnownResults
    <3> QED
      BY <3>2
  <2>6. stream \in [Clients -> Streams]
    BY JobQueueAssumption DEF Init
  <2> QED
    BY <2>3, <2>4, <2>5, <2>6 DEF Init, JS!Init
<1>2. RefInv /\ [Next]_vars => [JS!Next]_(JS!vars)
  <2> SUFFICES ASSUME RefInv, [Next]_vars
               PROVE  [JS!Next]_(JS!vars)
    OBVIOUS
  <2>1. CASE Next
    BY <2>1, HandlerRefines, WorkerRefines, EnvironmentRefines DEF Next
  <2>2. CASE UNCHANGED vars
    <3>1. /\ UNCHANGED <<stream, job, answer, issued, entries, cursor, result, inbox>>
          /\ UNCHANGED <<wpc, holds, success>>
      BY <2>2 DEF vars, redisVars, handlerVars, workerVars, envVars
    <3>2. Backlog' = Backlog /\ Running' = Running
      BY <3>1, BacklogKept, RunningKept DEF Busy
    <3>3. Known' = Known
      BY <3>1, KnownKept DEF Envelope, HeldEntry, StreamOf
    <3> QED
      BY <3>1, <3>2, <3>3, Stutters
  <2> QED
    BY <2>1, <2>2
<1> QED
  BY <1>1, <1>2, RefInvInit, RefInvStep, PTL DEF Spec, RefinesJobService, JS!Spec
=============================================================================
