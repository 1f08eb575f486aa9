---------------------------- MODULE ServiceToken ----------------------------
(***************************************************************************)
(* The gateway's own token (internal/servicetoken/manager.go): fetched     *)
(* from the auth service before the gateway serves, refreshed by a         *)
(* background loop, and read by every downstream call.                     *)
(*                                                                         *)
(* Time is a number of ticks; expiry and timers are kept relative to the   *)
(* present, so that a Tick lowers them and no clock grows without bound.   *)
(***************************************************************************)
EXTENDS Integers, FiniteSets

CONSTANTS
    Lifetime,   \* what the auth service grants
    Margin,     \* how long before the expiry the loop refreshes (3 minutes)
    Retry,      \* retryDelay
    Timeout,    \* refreshTimeout
    Hour,       \* after how long a stale token is reported again
    MaxPanics   \* bound on the panics of the loop

ASSUME ServiceTokenAssumption ==
    /\ Lifetime \in Nat /\ Margin \in Nat
    /\ Retry \in Nat \ {0} /\ Timeout \in Nat \ {0} /\ Hour \in Nat
    /\ MaxPanics \in Nat
    /\ Lifetime > Margin + Timeout

\* The longest an expired token may go unreported: a pause and an attempt, and
\* for each panic an attempt and two pauses more.
Silence(panicked) == Retry + Timeout + panicked * (2 * Retry + Timeout)

\* Beyond this a token's age makes no difference.
Oldest == Silence(MaxPanics) + 1

VARIABLES
    pc,        \* "boot" and "fetch": in refresh; "sleep": in the loop's select
    timer,     \* what is left of the pause, or of the attempt's time limit
    fetched,   \* has a token ever been fetched (expiry is not the zero time)?
    life,      \* the token's expiry less the present
    late,      \* abandoned calls: the life of the tokens they may still bring
    staleLogged, sinceLog,  \* was the stale token reported, and how long ago?
    ctxDone,   \* the context of the loop
    fails,     \* attempts since the last one that succeeded
    panics     \* panics of the loop

vars == <<pc, timer, fetched, life, late, staleLogged, sinceLog, ctxDone,
          fails, panics>>

\* Attempts that the margin leaves room for, however slowly each one fails; a
\* panic costs a pause more.
Attempts(panicked) == (Margin + Retry - panicked * Retry) \div (Timeout + Retry)

TypeOK ==
    /\ pc \in {"boot", "sleep", "fetch", "panicked", "returned"}
    /\ timer \in 0..(Lifetime + Retry + Timeout)
    /\ fetched \in BOOLEAN
    /\ life \in (-Oldest)..Lifetime
    /\ late \in SUBSET (0..Lifetime)
    /\ staleLogged \in BOOLEAN
    /\ sinceLog \in 0..Hour
    /\ ctxDone \in BOOLEAN
    /\ fails \in 0..Attempts(0)
    /\ panics \in 0..MaxPanics

Init ==
    /\ pc = "boot"
    /\ timer = Timeout
    /\ fetched = FALSE
    /\ life = -Oldest
    /\ late = {}
    /\ staleLogged = FALSE
    /\ sinceLog = 0
    /\ ctxDone = FALSE
    /\ fails = 0
    /\ panics = 0

\* In refresh, waiting for the auth service.
Fetching == pc \in {"boot", "fetch"}

TtlWithoutMargin(hasToken, left) == IF hasToken /\ left > 0 THEN left ELSE Retry

\* time.Until on the zero time overflows into centuries.
TtlOfZeroTime(hasToken, left) ==
    IF hasToken /\ left - Margin <= 0 THEN Retry
    ELSE IF hasToken THEN left - Margin ELSE 1000 * Lifetime

\* How long the loop pauses: until Margin before the expiry, or Retry when
\* that is past or there never was a token.
Ttl(hasToken, left) ==
    IF hasToken /\ left - Margin > 0 THEN left - Margin ELSE Retry

\* The top of run's loop.
Pause ==
    /\ pc' = "sleep"
    /\ timer' = Ttl(fetched', life')

\* The pause is over, and refresh starts an attempt.
Refresh ==
    /\ pc = "sleep"
    /\ timer = 0
    /\ pc' = "fetch"
    /\ timer' = Timeout
    /\ UNCHANGED <<fetched, life, late, staleLogged, sinceLog, ctxDone,
                   fails, panics>>

\* The time since the attempt began.
Elapsed == Timeout - timer

\* The token was issued at some time during the call.
FetchOk ==
    /\ Fetching
    /\ \E age \in 0..Elapsed : life' = Lifetime - age
    /\ fetched' = TRUE
    /\ staleLogged' = FALSE
    /\ fails' = 0
    /\ Pause
    /\ UNCHANGED <<late, sinceLog, ctxDone, panics>>

\* time.Now().After(expiry); the zero time is always past.
Stale == life < 0

\* Reported once, and again every hour.
ReportsStale == Stale /\ (~staleLogged \/ sinceLog = Hour)

NoteStale ==
    /\ staleLogged' = (staleLogged \/ ReportsStale)
    /\ sinceLog' = IF ReportsStale THEN 0 ELSE sinceLog

Failed == fails' = IF fails < Attempts(0) THEN fails + 1 ELSE fails

\* GetToken returned an error, or panicked, which refresh turns into one.
FetchFails ==
    /\ Fetching
    /\ NoteStale
    /\ Failed
    /\ UNCHANGED <<fetched, life, late, ctxDone, panics>>
    /\ Pause

FetchTimesOutSilently ==
    /\ Fetching
    /\ timer = 0
    /\ Failed
    /\ \E age \in 0..Elapsed : late' = late \cup {Lifetime - age}
    /\ UNCHANGED <<fetched, life, staleLogged, sinceLog, ctxDone, panics>>
    /\ Pause

\* The attempt exceeds refreshTimeout and its call is abandoned.
FetchTimesOut ==
    /\ Fetching
    /\ timer = 0
    /\ NoteStale
    /\ Failed
    /\ \E age \in 0..Elapsed : late' = late \cup {Lifetime - age}
    /\ UNCHANGED <<fetched, life, ctxDone, panics>>
    /\ Pause

LateAnswerUsed ==
    /\ \E token \in late : late' = late \ {token} /\ life' = token
    /\ UNCHANGED <<pc, timer, fetched, staleLogged, sinceLog, ctxDone, fails,
                   panics>>

\* An abandoned call returns: it sends to a channel that nobody reads.
LateAnswer ==
    /\ \E token \in late : late' = late \ {token}
    /\ UNCHANGED <<pc, timer, fetched, life, staleLogged, sinceLog, ctxDone,
                   fails, panics>>

LoopPanicsFatally ==
    /\ pc = "fetch"
    /\ panics < MaxPanics
    /\ panics' = panics + 1
    /\ Failed
    /\ pc' = "returned"
    /\ UNCHANGED <<timer, fetched, life, late, staleLogged, sinceLog, ctxDone>>

\* refresh itself panics (not the call, which has its own recover): the loop
\* ends, and its deferred function sleeps before it decides on a restart.
LoopPanics ==
    /\ pc = "fetch"
    /\ panics < MaxPanics
    /\ panics' = panics + 1
    /\ Failed
    /\ pc' = "panicked"
    /\ timer' = Retry
    /\ UNCHANGED <<fetched, life, late, staleLogged, sinceLog, ctxDone>>

\* A new loop, unless the context is done.  It starts at the top, with a pause.
Restart ==
    /\ pc = "panicked"
    /\ timer = 0
    /\ UNCHANGED <<fetched, life, late, staleLogged, sinceLog, ctxDone, fails,
                   panics>>
    /\ IF ctxDone THEN pc' = "returned" /\ timer' = 0 ELSE Pause

\* The loop's select sees the context's end; it does so while it pauses.
Stop ==
    /\ pc = "sleep"
    /\ ctxDone
    /\ pc' = "returned"
    /\ timer' = 0
    /\ UNCHANGED <<fetched, life, late, staleLogged, sinceLog, ctxDone, fails,
                   panics>>

Cancel ==
    /\ ctxDone' = TRUE
    /\ UNCHANGED <<pc, timer, fetched, life, late, staleLogged, sinceLog,
                   fails, panics>>

\* Time passes; a timer that is due goes first.
Tick ==
    /\ pc = "returned" \/ timer > 0
    /\ timer' = IF timer > 0 THEN timer - 1 ELSE 0
    /\ life' = IF life > -Oldest THEN life - 1 ELSE life
    /\ late' = {IF token > 0 THEN token - 1 ELSE 0 : token \in late}
    /\ sinceLog' = IF sinceLog < Hour THEN sinceLog + 1 ELSE sinceLog
    /\ UNCHANGED <<pc, fetched, staleLogged, ctxDone, fails, panics>>

\* What a running process does by itself.
Step == Refresh \/ FetchFails \/ FetchTimesOut \/ Restart \/ Stop \/ Tick

Next == Step \/ FetchOk \/ LateAnswer \/ LoopPanics \/ Cancel

Spec == Init /\ [][Next]_vars

\* Timers fire; and the auth service, asked again and again, answers in time
\* at last.
LiveSpec ==
    /\ Spec
    /\ WF_vars(Refresh \/ FetchTimesOut \/ Restart \/ Stop \/ Tick)
    /\ SF_vars(FetchOk)

-----------------------------------------------------------------------------

Running == pc \in {"sleep", "fetch", "panicked"} /\ ~ctxDone

\* The margin covers a short outage: a running gateway holds an expired token
\* only after as many failed attempts as fit between the first refresh and the
\* expiry, each as slow as refreshTimeout allows.
FreshUnlessOutage == fetched /\ life < 0 /\ Running => fails >= Attempts(panics)

\* The expiry never moves backwards: a call that was given up and answers late,
\* after its successor, does not replace the newer token.
ExpiryMonotone == [][life' >= life - 1]_vars

\* README: "a stall is always visible in the logs instead of silent".  An
\* expired token that the loop cannot replace is reported within a pause and
\* an attempt, or after the next ones when the loop panicked in between.
StallIsVisible ==
    fetched /\ Running /\ life < -Silence(panics) => staleLogged

\* In one stale episode the reports are an hour apart: the step that reports
\* again finds the last report an hour old.
ReportsApart ==
    [][staleLogged /\ sinceLog' < sinceLog => sinceLog = Hour]_vars

\* Whatever failed, timed out or panicked: while the context is not done, the
\* gateway gets a valid token again.
TokenRecovers == life <= 0 /\ ~ctxDone ~> life > 0 \/ ctxDone
=============================================================================
