--------------------------- MODULE CircuitBreaker ---------------------------
(***************************************************************************)
(* The circuit breakers of the gateway (internal/circuitbreaker): one per  *)
(* name, wrapped around the calls that the workers and the handlers make   *)
(* to the services behind the gateway.  The state machine itself is the    *)
(* library sony/gobreaker, modelled from how registry.go configures and    *)
(* calls it; the library takes a mutex before and after each call, so a    *)
(* call is two steps and calls overlap.                                    *)
(*                                                                         *)
(* The library numbers its generations and ignores the result of a call    *)
(* that began in an earlier one.  Only equality of generations matters, so *)
(* a call in flight is "current" or "stale" here and nothing is counted.   *)
(* The counts of a closed breaker are cleared once in an interval; MaxCalls*)
(* bounds the calls that begin in one.                                     *)
(***************************************************************************)
EXTENDS Naturals, FiniteSets

CONSTANTS
    Names,         \* breakerNames: the services and the extension routes
    Workers,       \* worker goroutines (route, reroute, search)
    Requests,      \* request handlers: Autocomplete and the extension routes
    Extensions,    \* those of them that serve an extension route
    NameOf,        \* the name a caller gives to Execute
    Consecutive,   \* ReadyToTrip: 5 consecutive failures ...
    MinRequests,   \* ... or, from 10 requests on, more than half failed
    MaxCalls       \* bound on the calls that begin in one interval

Callers == Workers \cup Requests

ASSUME BreakerAssumption ==
    /\ Names # {}
    /\ Extensions \subseteq Requests
    /\ NameOf \in [Callers -> Names]
    /\ Consecutive \in Nat \ {0}
    /\ MinRequests \in Nat \ {0}
    /\ MaxCalls \in Nat

VARIABLES
    cb,        \* cb[b]: the breaker of that name
    call,      \* call[c]: the call that c has in flight
    refused,   \* refused[c]: was c's last call turned away?
    strikes,   \* history: calls let through since b closed that have failed
    calm       \* do all calls succeed at the moment?

vars == <<cb, call, refused, strikes, calm>>

\* The fewest failures that ReadyToTrip can be satisfied with.
MinStrikes == IF Consecutive <= MinRequests \div 2 THEN Consecutive
                                                   ELSE MinRequests \div 2 + 1

\* expired: the interval (closed) or the timeout (open) has passed.
Breaker == [state : {"closed", "open", "halfopen"}, requests : 0..MaxCalls,
            failures : 0..MaxCalls, streak : 0..MaxCalls, expired : BOOLEAN]

\* The counts stay within the calls that were let through, and a half-open
\* breaker has no timer.
TypeOK ==
    /\ cb \in [Names -> Breaker]
    /\ \A b \in Names : /\ cb[b].streak <= cb[b].failures
                        /\ cb[b].failures <= cb[b].requests
                        /\ cb[b].state = "halfopen" => ~cb[b].expired
    /\ call \in [Callers -> {"none", "current", "stale"}]
    /\ refused \in [Callers -> BOOLEAN]
    /\ strikes \in [Names -> 0..MinStrikes]
    /\ calm \in BOOLEAN

\* toNewGeneration: a breaker that has just entered the state.
Enter(state) == [state |-> state, requests |-> 0, failures |-> 0,
                 streak |-> 0, expired |-> FALSE]

Init ==
    /\ cb = [b \in Names |-> Enter("closed")]
    /\ call = [c \in Callers |-> "none"]
    /\ refused = [c \in Callers |-> FALSE]
    /\ strikes = [b \in Names |-> 0]
    /\ calm = TRUE

\* r.breakers[service]; main registers every name that is used.
BreakerOf(c) == NameOf[c]

MaxRequestsTwo == 2

\* Settings.MaxRequests: the probes of a half-open breaker.
MaxRequests == 1

ReadyToTripWithoutMinimum(r) ==
    \/ r.streak >= Consecutive
    \/ (r.failures * 100) \div r.requests > 50

\* Settings.ReadyToTrip.
ReadyToTrip(r) ==
    \/ r.streak >= Consecutive
    \/ /\ r.requests >= MinRequests
       /\ (r.failures * 100) \div r.requests > 50

-----------------------------------------------------------------------------
(***************************************************************************)
(* The library.                                                            *)
(***************************************************************************)

\* currentState: the clock is only looked at when a call begins or ends.
Current(r) ==
    IF r.expired
    THEN Enter(IF r.state = "open" THEN "halfopen" ELSE "closed")
    ELSE r

OnSuccess(r) ==
    IF r.state = "halfopen" THEN Enter("closed") ELSE [r EXCEPT !.streak = 0]

OnFailure(r) ==
    LET counted == [r EXCEPT !.failures = @ + 1, !.streak = @ + 1] IN
    IF r.state = "halfopen" \/ ReadyToTrip(counted) THEN Enter("open")
                                                    ELSE counted

\* The calls in flight, where b's generation changes iff new holds.
Aged(b, new) ==
    [c \in Callers |-> IF new /\ BreakerOf(c) = b /\ call[c] = "current"
                       THEN "stale" ELSE call[c]]

\* ErrOpenState and ErrTooManyRequests.
Refuses(r) ==
    \/ r.state = "open"
    \/ r.state = "halfopen" /\ r.requests >= MaxRequests

AfterRequestNotClosing(c, ok) ==
    LET b == BreakerOf(c)
        now == Current(cb[b])
        mine == call[c] = "current" /\ ~cb[b].expired
        after == CASE ~mine -> now
                   [] mine /\ ok /\ now.state = "halfopen" -> now
                   [] mine /\ ok /\ now.state # "halfopen" -> OnSuccess(now)
                   [] mine /\ ~ok -> OnFailure(now) IN
    /\ cb' = [cb EXCEPT ![b] = after]
    /\ call' = [Aged(b, cb[b].expired \/ after.state # now.state)
                  EXCEPT ![c] = "none"]

\* afterRequest: the result counts only in the generation the call began in.
AfterRequest(c, ok) ==
    LET b == BreakerOf(c)
        now == Current(cb[b])
        mine == call[c] = "current" /\ ~cb[b].expired
        after == CASE ~mine -> now
                   [] mine /\ ok -> OnSuccess(now)
                   [] mine /\ ~ok -> OnFailure(now) IN
    /\ cb' = [cb EXCEPT ![b] = after]
    /\ call' = [Aged(b, cb[b].expired \/ after.state # now.state)
                  EXCEPT ![c] = "none"]

ElapseAnyState(b) ==
    /\ ~cb[b].expired
    /\ cb' = [cb EXCEPT ![b].expired = TRUE]
    /\ UNCHANGED <<call, refused, strikes, calm>>

\* The interval of a closed breaker or the timeout of an open one runs out.
Elapse(b) ==
    /\ cb[b].state # "halfopen"
    /\ ~cb[b].expired
    /\ cb' = [cb EXCEPT ![b].expired = TRUE]
    /\ UNCHANGED <<call, refused, strikes, calm>>

-----------------------------------------------------------------------------
(***************************************************************************)
(* The gateway's calls: Registry.Execute around a gRPC call or a proxied   *)
(* request.                                                                *)
(***************************************************************************)

\* Execute lets the call through.
Begin(c) ==
    LET b == BreakerOf(c)
        now == Current(cb[b]) IN
    /\ call[c] = "none"
    /\ ~Refuses(now)
    /\ now.requests < MaxCalls
    /\ cb' = [cb EXCEPT ![b] = [now EXCEPT !.requests = @ + 1]]
    /\ call' = [Aged(b, cb[b].expired) EXCEPT ![c] = "current"]
    /\ refused' = [refused EXCEPT ![c] = FALSE]
    /\ UNCHANGED <<strikes, calm>>

\* Execute returns the library's error: the job fails, Autocomplete answers
\* 500, an extension route 503.
TurnAway(c) ==
    /\ call[c] = "none"
    /\ Refuses(Current(cb[BreakerOf(c)]))
    /\ refused' = [refused EXCEPT ![c] = TRUE]
    /\ UNCHANGED <<cb, call, strikes, calm>>

\* How a call ends: well; with an answer that is the caller's own fault or a
\* plain error (NotFound, InvalidArgument; a status below 502); with the
\* service unreachable, overloaded or too slow; or because the client left.
Outcomes == {"ok", "rejected", "down", "left"}

\* A worker's context outlives its submitter.
MayEnd(c, outcome) ==
    /\ calm => outcome = "ok"
    /\ outcome = "left" => c \in Requests

\* What the callback returns as an error: any error of a gRPC call; for an
\* extension route a status of 502 or more, which is what its ErrorHandler
\* makes of a client that left, too, or the panic of an aborted copy.
Fails(c, outcome) ==
    IF c \in Extensions THEN outcome \in {"down", "left"}
                        ELSE outcome # "ok"

\* The history of b's failures when c's call ends; it begins when b closes.
Strikes(b, c, outcome) ==
    CASE cb[b].state # "closed" /\ cb'[b].state = "closed" -> 0
      [] /\ BreakerOf(c) = b /\ call[c] = "current"
         /\ Fails(c, outcome) /\ strikes[b] < MinStrikes -> strikes[b] + 1
      [] OTHER -> strikes[b]

End(c, outcome) ==
    /\ call[c] # "none"
    /\ MayEnd(c, outcome)
    /\ AfterRequest(c, ~Fails(c, outcome))
    /\ strikes' = [b \in Names |-> Strikes(b, c, outcome)]
    /\ UNCHANGED <<refused, calm>>

\* A worker's callback panics while it converts the answer and nothing
\* recovers: the process restarts, with a new registry.
Panic(c) ==
    /\ c \in Workers
    /\ call[c] # "none"
    /\ ~calm
    /\ cb' = [b \in Names |-> Enter("closed")]
    /\ call' = [d \in Callers |-> "none"]
    /\ refused' = [d \in Callers |-> FALSE]
    /\ strikes' = [b \in Names |-> 0]
    /\ UNCHANGED calm

Environment ==
    /\ calm' = ~calm
    /\ UNCHANGED <<cb, call, refused, strikes>>

Next ==
    \/ \E b \in Names : Elapse(b)
    \/ \E c \in Callers : \/ Begin(c) \/ TurnAway(c) \/ Panic(c)
                          \/ \E outcome \in Outcomes : End(c, outcome)
    \/ Environment

Spec == Init /\ [][Next]_vars

\* Time passes, callers keep calling and calls return: an extension's has a
\* deadline, Autocomplete's ends with its client at the latest; a worker's
\* has none, so the service has to answer it or fail.
Fairness ==
    /\ \A b \in Names : WF_vars(Elapse(b))
    /\ \A c \in Callers : /\ WF_vars(Begin(c))
                          /\ WF_vars(\E outcome \in Outcomes : End(c, outcome))

LiveSpec == Spec /\ Fairness

-----------------------------------------------------------------------------
(***************************************************************************)
(* Properties.                                                             *)
(***************************************************************************)

\* A service that comes back gets one call first: while a breaker is half-open
\* no two calls that it let through since then are in flight, however many
\* workers and handlers share it, and whatever older calls still hang.
ProbeAlone ==
    \A b \in Names : cb[b].state = "halfopen" =>
        Cardinality({c \in Callers : BreakerOf(c) = b /\ call[c] = "current"})
            <= 1

\* A breaker that has just closed is given a chance: it opens again after as
\* many new failures as ReadyToTrip asks for, never on what was counted before
\* and never on a single one.
OpensOnPattern ==
    [][\A b \in Names :
          cb[b].state = "closed" /\ cb'[b].state = "open"
              => strikes'[b] >= MinStrikes]_vars

\* Once all calls succeed for good, every breaker closes for good: neither a
\* failed probe, a panic nor a call that began long ago keeps a service shut.
Recovers == <>[]calm => <>[](\A b \in Names : cb[b].state = "closed")
=============================================================================
