--------------------------- MODULE JobRefinement ---------------------------
(***************************************************************************)
(* JobQueue implements JobService.  The backlog of a stream is what the    *)
(* group's cursor has not passed; a worker runs what it has read and not   *)
(* acknowledged; a result is known while a worker carries it, Redis stores *)
(* it, or a subscription has received it.                                  *)
(***************************************************************************)
EXTENDS JobQueue

Backlog ==
    [s \in Streams |-> SubSeq(entries[s], cursor[s] + 1, Len(entries[s]))]

Running == [w \in Workers |-> IF Busy(w) THEN HeldEntry(w) ELSE None]

\* Workers that have the outcome of their job.
Carrying == {w \in Workers : wpc[w] \in {"store", "publish", "ack"}}

Known ==
    ({result[j] : j \in JobIDs} \cup {inbox[c] : c \in Clients}
        \cup {Envelope(w) : w \in Carrying}) \ {None}

JS == INSTANCE JobService WITH
        target   <- stream,
        backlog  <- Backlog,
        running  <- Running,
        computed <- Known

\* Redis, the consumer groups, the publications and the replicas together
\* behave as the job service: first come, first served, at most once, and the
\* client's answer is its own job's, whatever fails and in whatever order the
\* steps of handlers and workers happen.
RefinesJobService == JS!Spec
=============================================================================
