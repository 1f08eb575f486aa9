------------------------- MODULE ServiceTokenProofs -------------------------
(***************************************************************************)
(* What the gateway's own token guarantees, for every lifetime, margin,    *)
(* retry delay and time limit that ServiceTokenAssumption admits.          *)
(***************************************************************************)
EXTENDS ServiceToken, TLAPS

USE ServiceTokenAssumption

-----------------------------------------------------------------------------
(* The arithmetic of the bounds. *)

\* Silence grows by two pauses and an attempt with every panic.
LEMMA SilenceGrows ==
    ASSUME NEW p \in Nat
    PROVE  /\ Silence(p) \in Nat
           /\ Silence(p) >= Retry + Timeout
           /\ Silence(p + 1) = Silence(p) + 2 * Retry + Timeout
<1>1. p * (2 * Retry + Timeout) \in Nat
  OBVIOUS
<1> QED
  BY <1>1 DEF Silence

LEMMA OldestIsNat == Oldest \in Nat
BY SilenceGrows DEF Oldest

\* What f failed attempts and p panics take of the margin.
Spent(f, p) == f * (Timeout + Retry) + p * Retry

LEMMA SpentGrows ==
    ASSUME NEW f \in Nat, NEW p \in Nat
    PROVE  /\ Spent(f, p) \in Nat
           /\ Spent(f + 1, p) = Spent(f, p) + Timeout + Retry
           /\ Spent(f, p + 1) = Spent(f, p) + Retry
           /\ Spent(f + 1, p + 1) = Spent(f, p) + Timeout + 2 * Retry
<1>1. f * (Timeout + Retry) \in Nat /\ p * Retry \in Nat
  OBVIOUS
<1>2. /\ (f + 1) * (Timeout + Retry) = f * (Timeout + Retry) + Timeout + Retry
      /\ (p + 1) * Retry = p * Retry + Retry
  OBVIOUS
<1> QED
  BY <1>1, <1>2 DEF Spent

LEMMA DivBelow ==
    ASSUME NEW a \in Int, NEW b \in Nat \ {0}, NEW q \in Int, a < (q + 1) * b
    PROVE  a \div b <= q
OBVIOUS

LEMMA DivMonotone ==
    ASSUME NEW a \in Int, NEW c \in Int, c <= a, NEW b \in Nat \ {0}
    PROVE  c \div b <= a \div b
OBVIOUS

LEMMA DivNat ==
    ASSUME NEW a \in Nat, NEW b \in Nat \ {0} PROVE a \div b \in Nat
OBVIOUS

LEMMA DivInt ==
    ASSUME NEW a \in Int, NEW b \in Nat \ {0} PROVE a \div b \in Int
OBVIOUS

LEMMA AttemptsIsInt ==
    ASSUME NEW p \in Nat PROVE Attempts(p) \in Int /\ Attempts(0) \in Nat
<1>1. /\ p * Retry \in Nat /\ 0 * Retry = 0
      /\ Timeout + Retry \in Nat \ {0}
  OBVIOUS
<1> DEFINE a == Margin + Retry - p * Retry
<1>2. a \in Int /\ Margin + Retry - 0 * Retry \in Nat
  BY <1>1
<1> HIDE DEF a
<1>3. a \div (Timeout + Retry) \in Int
  BY <1>1, <1>2, DivInt
<1>4. (Margin + Retry - 0 * Retry) \div (Timeout + Retry) \in Nat
  BY <1>1, <1>2, DivNat
<1> QED
  BY <1>3, <1>4 DEF Attempts, a

\* A panic leaves room for fewer attempts.
LEMMA AttemptsShrink ==
    ASSUME NEW p \in Nat PROVE Attempts(p) <= Attempts(0)
<1>1. /\ p * Retry \in Nat /\ 0 * Retry = 0
      /\ Timeout + Retry \in Nat \ {0}
  OBVIOUS
<1> DEFINE a == Margin + Retry - 0 * Retry
           c == Margin + Retry - p * Retry
<1>2. a \in Int /\ c \in Int /\ c <= a
  BY <1>1
<1> HIDE DEF a, c
<1>3. c \div (Timeout + Retry) <= a \div (Timeout + Retry)
  BY <1>1, <1>2, DivMonotone
<1> QED
  BY <1>3 DEF Attempts, a, c

\* Failures that have used up the margin, but for the attempt under way, are
\* as many as it had room for.
LEMMA MarginUsedUp ==
    ASSUME NEW f \in Nat, NEW p \in Nat, Margin - Timeout < Spent(f, p)
    PROVE  f >= Attempts(p)
<1> DEFINE b == Timeout + Retry
           a == Margin + Retry - p * Retry
<1>1. /\ p * Retry \in Nat /\ f * b \in Nat
      /\ b \in Nat \ {0} /\ (f + 1) * b = f * b + b
  OBVIOUS
<1>2. a \in Int /\ a < f * b + b
  BY <1>1 DEF Spent
<1>3. a \div b <= f
  <2> HIDE DEF a, b
  <2> QED
    BY <1>1, <1>2, DivBelow
<1> QED
  BY <1>3, AttemptsIsInt DEF Attempts

-----------------------------------------------------------------------------
(* The invariant: what each of the loop's states says of the token. *)

\* An attempt takes no longer than its time limit, and the token it may
\* replace is no younger than the attempt.
AttemptsTimely == Fetching => timer <= Timeout /\ life <= Lifetime - Elapsed

\* Only the first attempt comes before the loop, and no token before it.
BootsFirst == pc = "boot" => ~fetched

\* While fewer attempts failed than the count can tell, what is left of the
\* token when the timer is due is the margin less what failures have taken.
MarginKept ==
    fetched /\ fails < Attempts(0) =>
        /\ pc = "sleep" => life - timer >= Margin - Spent(fails, panics)
        /\ pc = "fetch" => life - timer >= Margin - Spent(fails, panics) - Timeout
        /\ pc = "panicked" =>
              life - timer >= Margin - Spent(fails, panics) + Retry

\* While no report is out, the token is not past its expiry, when the timer is
\* due, by more than the silence allows.
SilenceKept ==
    fetched /\ ~staleLogged =>
        /\ pc = "sleep" => life - timer >= Timeout - Silence(panics)
        /\ pc = "fetch" => life - timer >= -Silence(panics)
        /\ pc = "panicked" => life - timer >= Retry + Timeout - Silence(panics)

TokenInv == TypeOK /\ AttemptsTimely /\ BootsFirst /\ MarginKept /\ SilenceKept

\* The top of the loop: a pause until the margin, or of retryDelay.
LEMMA PauseLength ==
    ASSUME NEW has \in BOOLEAN, NEW left \in Int, left <= Lifetime
    PROVE  /\ Ttl(has, left) \in 0..(Lifetime + Retry + Timeout)
           /\ left - Ttl(has, left) = Margin \/ Ttl(has, left) = Retry
           /\ has /\ left > Margin => left - Ttl(has, left) = Margin
BY DEF Ttl

\* What is left when the pause is over.
LEMMA AfterPause ==
    ASSUME NEW left \in Int, NEW t \in Int, NEW floor \in Int,
           left - t = Margin \/ t = Retry,
           floor <= Margin, floor + Retry <= left
    PROVE  left - t >= floor
OBVIOUS

\* What a failed attempt leaves: one failure more, and a pause.  A token that
\* went unreported was not past its expiry.
LEMMA FailureKeeps ==
    ASSUME TokenInv, Fetching, NoteStale, Failed, Pause,
           late' \in SUBSET (0..Lifetime),
           UNCHANGED <<fetched, life, ctxDone, panics>>
    PROVE  TokenInv'
<1> USE DEF TokenInv
<1>1. /\ pc \in {"boot", "fetch"} /\ pc' = "sleep" /\ timer' = Ttl(fetched, life)
      /\ fetched \in BOOLEAN /\ life \in Int /\ life <= Lifetime /\ timer \in Nat
      /\ fails \in Nat /\ panics \in Nat
  BY OldestIsNat DEF TypeOK, Fetching, Pause
<1>2. /\ timer' \in 0..(Lifetime + Retry + Timeout)
      /\ life - timer' = Margin \/ timer' = Retry
  BY <1>1, PauseLength
<1>3. /\ Attempts(0) \in Nat /\ timer' \in Int
      /\ life \in Int /\ life <= Lifetime /\ timer \in Nat
      /\ fails \in Nat /\ panics \in Nat
  BY <1>1, <1>2, AttemptsIsInt
<1>4. /\ fails' \in 0..Attempts(0)
      /\ fails' < Attempts(0) => fails' = fails + 1 /\ fails < Attempts(0)
  BY <1>1, <1>3 DEF Failed, TypeOK
<1>5. TypeOK'
  <2>1. staleLogged' \in BOOLEAN /\ sinceLog' \in 0..Hour
    BY DEF NoteStale, TypeOK, ReportsStale, Stale
  <2> QED
    BY <1>1, <1>2, <1>4, <2>1 DEF TypeOK
<1>6. AttemptsTimely' /\ BootsFirst'
  BY <1>1 DEF AttemptsTimely, BootsFirst, Fetching
<1>7. MarginKept'
  <2> SUFFICES ASSUME fetched, fails' < Attempts(0)
               PROVE  life - timer' >= Margin - Spent(fails', panics)
    BY <1>1 DEF MarginKept
  <2>1. /\ pc = "fetch" /\ fails' = fails + 1 /\ fails < Attempts(0)
    BY <1>1, <1>4 DEF BootsFirst
  <2>2. life - timer >= Margin - Spent(fails, panics) - Timeout
    BY <2>1 DEF MarginKept
  <2>3. /\ Spent(fails, panics) \in Nat
        /\ Spent(fails + 1, panics) = Spent(fails, panics) + Timeout + Retry
    BY <1>1, SpentGrows
  <2> DEFINE floor == Margin - Spent(fails + 1, panics)
  <2>4. /\ life \in Int /\ timer' \in Int /\ floor \in Int
        /\ floor <= Margin /\ floor + Retry <= life
    BY <1>3, <2>2, <2>3
  <2>5. life - timer' >= floor
    <3> HIDE DEF floor
    <3> QED
      BY <1>2, <2>4, AfterPause
  <2> QED
    BY <2>1, <2>5
<1>8. SilenceKept'
  <2> SUFFICES ASSUME fetched, ~staleLogged'
               PROVE  life - timer' >= Timeout - Silence(panics)
    BY <1>1 DEF SilenceKept
  <2>1. ~(life < 0)
    BY DEF NoteStale, ReportsStale, Stale, TypeOK
  <2>2. Silence(panics) \in Nat /\ Silence(panics) >= Retry + Timeout
    BY <1>1, SilenceGrows
  <2> DEFINE floor == Timeout - Silence(panics)
  <2>3. /\ life \in Int /\ timer' \in Int /\ floor \in Int
        /\ floor <= Margin /\ floor + Retry <= life
    BY <1>3, <2>1, <2>2
  <2> HIDE DEF floor
  <2>4. life - timer' >= floor
    BY <1>2, <2>3, AfterPause
  <2> QED
    BY <2>4 DEF floor
<1> QED
  BY <1>5, <1>6, <1>7, <1>8

\* Every step keeps the invariant.
LEMMA TokenInvKept ==
    ASSUME TokenInv, [Next]_vars
    PROVE  TokenInv'
<1> USE DEF TokenInv
<1>1. /\ Oldest \in Nat /\ Attempts(0) \in Nat
      /\ life \in Int /\ life >= -Oldest /\ life <= Lifetime /\ timer \in Nat
      /\ fails \in Nat /\ panics \in Nat /\ fetched \in BOOLEAN
      /\ Spent(fails, panics) \in Nat
      /\ Silence(panics) \in Nat /\ Silence(panics) >= Retry + Timeout
  <2>1. Oldest \in Nat /\ Attempts(0) \in Nat
    BY OldestIsNat, AttemptsIsInt
  <2>2. /\ life \in Int /\ life >= -Oldest /\ life <= Lifetime /\ timer \in Nat
        /\ fails \in Nat /\ panics \in Nat /\ fetched \in BOOLEAN
    BY <2>1 DEF TypeOK
  <2> QED
    BY <2>1, <2>2, SpentGrows, SilenceGrows
<1>2. CASE Refresh
  <2>1. /\ pc = "sleep" /\ timer = 0 /\ pc' = "fetch" /\ timer' = Timeout
        /\ UNCHANGED <<fetched, life, late, staleLogged, sinceLog, ctxDone,
                       fails, panics>>
    BY <1>2 DEF Refresh
  <2>2. TypeOK'
    BY <2>1 DEF TypeOK
  <2>3. AttemptsTimely' /\ BootsFirst'
    BY <1>1, <2>1 DEF AttemptsTimely, BootsFirst, Elapsed
  <2>4. MarginKept'
    BY <1>1, <2>1 DEF MarginKept
  <2>5. SilenceKept'
    BY <1>1, <2>1 DEF SilenceKept
  <2> QED
    BY <2>2, <2>3, <2>4, <2>5
<1>3. CASE FetchOk
  <2>1. PICK age \in 0..Elapsed : life' = Lifetime - age
    BY <1>3 DEF FetchOk
  <2>2. /\ age \in Nat /\ age <= Timeout /\ life' \in Int
        /\ life' <= Lifetime /\ life' > Margin
    BY <1>1, <2>1 DEF Elapsed
  <2>3. /\ fetched' = TRUE /\ staleLogged' = FALSE /\ fails' = 0 /\ pc' = "sleep"
        /\ timer' = Ttl(fetched', life')
        /\ UNCHANGED <<late, sinceLog, ctxDone, panics>>
    BY <1>3 DEF FetchOk, Pause
  <2>4. timer' \in 0..(Lifetime + Retry + Timeout) /\ life' - timer' = Margin
    BY <2>2, <2>3, PauseLength
  <2>5. TypeOK'
    <3>1. life' \in (-Oldest)..Lifetime /\ fails' \in 0..Attempts(0)
      BY <1>1, <2>2, <2>3
    <3> QED
      BY <2>3, <2>4, <3>1 DEF TypeOK
  <2>6. AttemptsTimely' /\ BootsFirst'
    BY <2>3 DEF AttemptsTimely, BootsFirst, Fetching
  <2>7. MarginKept'
    <3>1. Spent(0, panics) \in Nat
      BY <1>1, SpentGrows
    <3>2. life' - timer' >= Margin - Spent(0, panics)
      BY <2>4, <3>1
    <3> QED
      BY <2>3, <3>2 DEF MarginKept
  <2>8. SilenceKept'
    <3>1. life' - timer' >= Timeout - Silence(panics)
      BY <1>1, <2>4
    <3> QED
      BY <2>3, <3>1 DEF SilenceKept
  <2> QED
    BY <2>5, <2>6, <2>7, <2>8
<1>4. CASE FetchFails
  BY <1>4, FailureKeeps DEF FetchFails, TypeOK
<1>5. CASE FetchTimesOut
  <2>1. PICK age \in 0..Elapsed : late' = late \cup {Lifetime - age}
    BY <1>5 DEF FetchTimesOut
  <2>2. Lifetime - age \in 0..Lifetime
    BY <1>1, <2>1 DEF Elapsed
  <2>3. late' \in SUBSET (0..Lifetime)
    BY <2>1, <2>2 DEF TypeOK
  <2> QED
    BY <1>5, <2>3, FailureKeeps DEF FetchTimesOut
<1>6. CASE LateAnswer
  <2>1. /\ late' \subseteq late
        /\ UNCHANGED <<pc, timer, fetched, life, staleLogged, sinceLog, ctxDone,
                       fails, panics>>
    BY <1>6 DEF LateAnswer
  <2>2. TypeOK'
    BY <2>1 DEF TypeOK
  <2>3. /\ AttemptsTimely' /\ BootsFirst' /\ MarginKept' /\ SilenceKept'
    BY <2>1 DEF AttemptsTimely, BootsFirst, MarginKept, SilenceKept, Fetching, Elapsed
  <2> QED
    BY <2>2, <2>3
<1>7. CASE LoopPanics
  <2>1. /\ pc = "fetch" /\ pc' = "panicked" /\ timer' = Retry
        /\ panics < MaxPanics /\ panics' = panics + 1
        /\ UNCHANGED <<fetched, life, late, staleLogged, sinceLog, ctxDone>>
    BY <1>7 DEF LoopPanics
  <2>2. /\ fails' \in 0..Attempts(0)
        /\ fails' < Attempts(0) => fails' = fails + 1 /\ fails < Attempts(0)
    BY <1>1, <1>7 DEF LoopPanics, Failed, TypeOK
  <2>3. TypeOK'
    <3>1. timer' \in 0..(Lifetime + Retry + Timeout) /\ panics' \in 0..MaxPanics
      BY <1>1, <2>1
    <3> QED
      BY <2>1, <2>2, <3>1 DEF TypeOK
  <2>4. AttemptsTimely' /\ BootsFirst'
    BY <2>1 DEF AttemptsTimely, BootsFirst, Fetching
  <2>5. MarginKept'
    <3> SUFFICES ASSUME fetched, fails' < Attempts(0)
                 PROVE  life - timer' >= Margin - Spent(fails', panics') + Retry
      BY <2>1 DEF MarginKept
    <3>1. Spent(fails', panics') = Spent(fails, panics) + Timeout + 2 * Retry
      BY <1>1, <2>1, <2>2, SpentGrows
    <3>2. life - timer >= Margin - Spent(fails, panics) - Timeout
      BY <2>1, <2>2 DEF MarginKept
    <3> QED
      BY <1>1, <2>1, <3>1, <3>2
  <2>6. SilenceKept'
    <3> SUFFICES ASSUME fetched, ~staleLogged
                 PROVE  life - timer' >= Retry + Timeout - Silence(panics')
      BY <2>1 DEF SilenceKept
    <3>1. Silence(panics') = Silence(panics) + 2 * Retry + Timeout
      BY <1>1, <2>1, SilenceGrows
    <3>2. life - timer >= -Silence(panics)
      BY <2>1 DEF SilenceKept
    <3> QED
      BY <1>1, <2>1, <3>1, <3>2
  <2> QED
    BY <2>3, <2>4, <2>5, <2>6
<1>8. ASSUME pc' \in {"sleep", "returned"}, pc' = "returned" => timer' = 0,
             pc' = "sleep" => pc = "panicked" /\ timer = 0 /\ Pause,
             UNCHANGED <<fetched, life, late, staleLogged, sinceLog, ctxDone,
                         fails, panics>>
      PROVE  TokenInv'
  <2>1. CASE pc' = "returned"
    <3>1. timer' \in 0..(Lifetime + Retry + Timeout)
      BY <1>8, <2>1
    <3>2. TypeOK'
      BY <1>8, <3>1 DEF TypeOK
    <3> QED
      BY <1>8, <2>1, <3>2
         DEF AttemptsTimely, BootsFirst, MarginKept, SilenceKept, Fetching
  <2>2. CASE pc' = "sleep"
    <3>1. pc = "panicked" /\ timer = 0 /\ timer' = Ttl(fetched, life)
      BY <1>8, <2>2 DEF Pause
    <3>2. /\ timer' \in 0..(Lifetime + Retry + Timeout)
          /\ life - timer' = Margin \/ timer' = Retry
      BY <1>1, <3>1, PauseLength
    <3>3. TypeOK'
      BY <1>8, <3>2 DEF TypeOK
    <3>4. /\ timer' \in Int /\ timer = 0 /\ life \in Int
          /\ Spent(fails, panics) \in Nat
          /\ Silence(panics) \in Nat /\ Silence(panics) >= Retry + Timeout
      BY <1>1, <3>1, <3>2
    <3>5. AttemptsTimely' /\ BootsFirst'
      BY <2>2 DEF AttemptsTimely, BootsFirst, Fetching
    <3>6. MarginKept'
      <4> SUFFICES ASSUME fetched, fails < Attempts(0)
                   PROVE  life - timer' >= Margin - Spent(fails, panics)
        BY <1>8, <2>2 DEF MarginKept
      <4>1. life - timer >= Margin - Spent(fails, panics) + Retry
        BY <3>1 DEF MarginKept
      <4> DEFINE floor == Margin - Spent(fails, panics)
      <4>2. /\ life \in Int /\ timer' \in Int /\ floor \in Int
            /\ floor <= Margin /\ floor + Retry <= life
        BY <3>4, <4>1
      <4> HIDE DEF floor
      <4>3. life - timer' >= floor
        BY <3>2, <4>2, AfterPause
      <4> QED
        BY <4>3 DEF floor
    <3>7. SilenceKept'
      <4> SUFFICES ASSUME fetched, ~staleLogged
                   PROVE  life - timer' >= Timeout - Silence(panics)
        BY <1>8, <2>2 DEF SilenceKept
      <4>1. life - timer >= Retry + Timeout - Silence(panics)
        BY <3>1 DEF SilenceKept
      <4> DEFINE floor == Timeout - Silence(panics)
      <4>2. /\ life \in Int /\ timer' \in Int /\ floor \in Int
            /\ floor <= Margin /\ floor + Retry <= life
        BY <3>4, <4>1
      <4> HIDE DEF floor
      <4>3. life - timer' >= floor
        BY <3>2, <4>2, AfterPause
      <4> QED
        BY <4>3 DEF floor
    <3> QED
      BY <3>3, <3>5, <3>6, <3>7
  <2> QED
    BY <1>8, <2>1, <2>2
<1>9. CASE Restart
  BY <1>8, <1>9 DEF Restart, Pause
<1>10. CASE Stop
  BY <1>8, <1>10 DEF Stop
<1>11. CASE Cancel
  <2>1. TypeOK'
    BY <1>11 DEF Cancel, TypeOK
  <2> QED
    BY <1>11, <2>1 DEF Cancel, AttemptsTimely, BootsFirst, MarginKept, SilenceKept,
                       Fetching, Elapsed
<1>12. CASE Tick
  <2>1. /\ pc = "returned" \/ timer > 0
        /\ timer' = IF timer > 0 THEN timer - 1 ELSE 0
        /\ life' = IF life > -Oldest THEN life - 1 ELSE life
        /\ late' = {IF token > 0 THEN token - 1 ELSE 0 : token \in late}
        /\ sinceLog' = IF sinceLog < Hour THEN sinceLog + 1 ELSE sinceLog
        /\ UNCHANGED <<pc, fetched, staleLogged, ctxDone, fails, panics>>
    BY <1>12 DEF Tick
  <2>2. /\ life' \in (-Oldest)..Lifetime /\ life' >= life - 1
        /\ timer' \in 0..(Lifetime + Retry + Timeout)
        /\ sinceLog' \in 0..Hour
    BY <1>1, <2>1 DEF TypeOK
  <2>3. late' \in SUBSET (0..Lifetime)
    <3>1. \A token \in late : (IF token > 0 THEN token - 1 ELSE 0) \in 0..Lifetime
      BY DEF TypeOK
    <3> QED
      BY <2>1, <3>1
  <2>4. TypeOK'
    BY <2>1, <2>2, <2>3 DEF TypeOK
  <2>5. AttemptsTimely'
    BY <1>1, <2>1 DEF AttemptsTimely, Fetching, Elapsed
  <2>6. BootsFirst'
    BY <2>1 DEF BootsFirst
  <2>7. pc # "returned" => life' - timer' >= life - timer
    BY <1>1, <2>1
  <2>8. life' - timer' \in Int
    BY <2>2
  <2>9. MarginKept'
    BY <1>1, <2>1, <2>7, <2>8 DEF MarginKept
  <2>10. SilenceKept'
    BY <1>1, <2>1, <2>7, <2>8 DEF SilenceKept
  <2> QED
    BY <2>4, <2>5, <2>6, <2>9, <2>10
<1>13. CASE UNCHANGED vars
  <2>1. TypeOK'
    BY <1>13 DEF vars, TypeOK
  <2> QED
    BY <1>13, <2>1 DEF vars, AttemptsTimely, BootsFirst, MarginKept, SilenceKept,
                       Fetching, Elapsed
<1> QED
  BY <1>2, <1>3, <1>4, <1>5, <1>6, <1>7, <1>9, <1>10, <1>11, <1>12, <1>13
     DEF Next, Step

\* The invariant holds throughout.
LEMMA TokenInvariant == Spec => []TokenInv
<1>1. Init => TokenInv
  <2> SUFFICES ASSUME Init PROVE TokenInv
    OBVIOUS
  <2>1. Oldest \in Nat /\ Attempts(0) \in Nat
    BY OldestIsNat, AttemptsIsInt
  <2>2. /\ Timeout \in 0..(Lifetime + Retry + Timeout) /\ 0 \in 0..Hour
        /\ -Oldest \in (-Oldest)..Lifetime /\ 0 \in 0..Attempts(0)
        /\ 0 \in 0..MaxPanics /\ {} \in SUBSET (0..Lifetime)
    BY <2>1
  <2>3. TypeOK
    BY <2>2 DEF Init, TypeOK
  <2> QED
    BY <2>1, <2>3 DEF Init, TokenInv, AttemptsTimely, BootsFirst, MarginKept,
                      SilenceKept, Elapsed
<1>2. TokenInv /\ [Next]_vars => TokenInv'
  BY TokenInvKept
<1> QED
  BY <1>1, <1>2, PTL DEF Spec

-----------------------------------------------------------------------------
(* The theorems. *)

\* Type correctness of the manager's state: the loop's timer, the token's
\* expiry and the abandoned calls stay in range (servicetoken/manager.go).
THEOREM TypeCorrect == Spec => []TypeOK
<1>1. TokenInv => TypeOK
  BY DEF TokenInv
<1> QED
  BY <1>1, TokenInvariant, PTL

\* The margin of 3 minutes covers a short outage: a running gateway holds an
\* expired token only after as many failed attempts of refresh as the margin
\* has room for, whatever the time limit, the retry delay and the panics.
THEOREM MarginCoversOutage == Spec => []FreshUnlessOutage
<1>1. TokenInv => FreshUnlessOutage
  <2> SUFFICES ASSUME TokenInv, fetched, life < 0, Running
               PROVE  fails >= Attempts(panics)
    BY DEF FreshUnlessOutage
  <2>1. /\ Oldest \in Nat /\ Attempts(0) \in Nat
    BY OldestIsNat, AttemptsIsInt
  <2>2. /\ life \in Int /\ timer \in Nat /\ fails \in Nat /\ panics \in Nat
        /\ fails <= Attempts(0)
    BY <2>1 DEF TokenInv, TypeOK
  <2>3. CASE fails < Attempts(0)
    <3>1. life - timer >= Margin - Spent(fails, panics) - Timeout
      <4>1. Spent(fails, panics) \in Nat
        BY <2>2, SpentGrows
      <4> QED
        BY <2>2, <2>3, <4>1 DEF TokenInv, MarginKept, Running
    <3>2. Spent(fails, panics) \in Nat
      BY <2>2, SpentGrows
    <3>3. Margin - Timeout < Spent(fails, panics)
      BY <2>2, <3>1, <3>2
    <3> QED
      BY <2>2, <3>3, MarginUsedUp
  <2>4. CASE fails = Attempts(0)
    BY <2>2, <2>4, AttemptsShrink, AttemptsIsInt
  <2> QED
    BY <2>1, <2>2, <2>3, <2>4
<1> QED
  BY <1>1, TokenInvariant, PTL

\* A stall of the refresh is never silent for longer than a pause and an
\* attempt, and two pauses and an attempt more for every panic of the loop:
\* noteStale has reported the expired token by then.
THEOREM StallsAreReported == Spec => []StallIsVisible
<1>1. TokenInv => StallIsVisible
  <2> SUFFICES ASSUME TokenInv, fetched, Running, ~staleLogged
               PROVE  ~(life < -Silence(panics))
    BY DEF StallIsVisible
  <2>1. life \in Int /\ timer \in Nat /\ panics \in Nat
    BY OldestIsNat DEF TokenInv, TypeOK
  <2>2. Silence(panics) \in Nat
    BY <2>1, SilenceGrows
  <2> QED
    BY <2>1, <2>2 DEF TokenInv, SilenceKept, Running
<1> QED
  BY <1>1, TokenInvariant, PTL

\* The expiry never moves back: refresh only ever installs a token that is no
\* older than the one it replaces, and the answer of an abandoned call, which
\* reaches a channel that nobody reads, installs none.
THEOREM ExpiryNeverMovesBack == Spec => ExpiryMonotone
<1>1. TokenInv /\ [Next]_vars => [life' >= life - 1]_vars
  <2> SUFFICES ASSUME TokenInv, Next PROVE life' >= life - 1
    OBVIOUS
  <2>1. life \in Int /\ timer \in Nat
    BY OldestIsNat DEF TokenInv, TypeOK
  <2>2. CASE FetchOk
    <3>1. PICK age \in 0..Elapsed : life' = Lifetime - age
      BY <2>2 DEF FetchOk
    <3>2. life <= Lifetime - Elapsed
      BY <2>2 DEF FetchOk, TokenInv, AttemptsTimely
    <3> QED
      BY <2>1, <3>1, <3>2 DEF Elapsed
  <2>3. CASE Tick
    BY <2>1, <2>3, OldestIsNat DEF Tick
  <2>4. CASE UNCHANGED life
    BY <2>1, <2>4
  <2> QED
    BY <2>2, <2>3, <2>4 DEF Next, Step, Refresh, FetchFails, FetchTimesOut, Restart,
                            Stop, LateAnswer, LoopPanics, Cancel
<1> QED
  BY <1>1, TokenInvariant, PTL DEF Spec, ExpiryMonotone

\* The reports of one stale episode are an hour apart: noteStale reports again
\* only what it last reported an hour ago, and no other step touches the time
\* of the last report.
THEOREM ReportsStayApart == Spec => ReportsApart
<1>1. TokenInv /\ [Next]_vars =>
         [staleLogged /\ sinceLog' < sinceLog => sinceLog = Hour]_vars
  <2> SUFFICES ASSUME TokenInv, Next, staleLogged, sinceLog' < sinceLog
               PROVE  sinceLog = Hour
    OBVIOUS
  <2>1. sinceLog \in Nat
    BY DEF TokenInv, TypeOK
  <2>2. CASE NoteStale
    BY <2>1, <2>2 DEF NoteStale, ReportsStale
  <2>3. CASE Tick
    BY <2>1, <2>3 DEF Tick
  <2>4. CASE UNCHANGED sinceLog
    BY <2>1, <2>4
  <2> QED
    BY <2>2, <2>3, <2>4 DEF Next, Step, Refresh, FetchOk, FetchFails, FetchTimesOut,
                            Restart, Stop, LateAnswer, LoopPanics, Cancel
<1> QED
  BY <1>1, TokenInvariant, PTL DEF Spec, ReportsApart
=============================================================================
