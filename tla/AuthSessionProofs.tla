-------------------------- MODULE AuthSessionProofs --------------------------
(***************************************************************************)
(* Theorems about AuthSession, for any number of tabs and of tokens.       *)
(***************************************************************************)
EXTENDS AuthSession, TLAPS

\* Tokens that the auth service has issued.
Known == 1..issued

Request == [phase : {"idle", "sent", "answered"}, op : Ops, jwt : BOOLEAN,
            cookie : Tokens, body : Issues \cup {None}, answer : Answers]

Kinds == {"tokens", "mfa", "loggedout", "done", "error"}

\* The refresh token that the browser remembers is the one in its jar.
HeldInJar ==
    /\ jar["access"]["/"] = held /\ jar["refresh"]["/refresh"] = held
    /\ held \in Known \cup {None}

\* An answer brings a token iff it is a pair, and clears the cookies iff it
\* answers a logout; a request that is not answered brings nothing.
AnswersHonest ==
    \A t \in Tabs :
        LET a == req[t].answer IN
        /\ a.kind = "tokens" => a.token \in Known
        /\ a.kind # "tokens" => a.token = None
        /\ a.clear <=> a.kind = "loggedout"
        /\ req[t].phase # "answered" => a = NoAnswer

\* What requests carry has been issued.
RequestsKnown ==
    \A t \in Tabs : /\ req[t].cookie \in Known \cup {None}
                    /\ req[t].body \in Known \cup {None}

\* A session began with a pair that was issued.
FamiliesKnown == \A n \in Known : family[n] \in Known

\* A pair on its way to the browser is seen by nobody yet: its token can be used
\* unless its session has ended, it is on its way once, and no request has it.
OnTheWay ==
    \A t \in Tabs : req[t].answer.kind = "tokens" =>
        LET n == req[t].answer.token IN
        /\ n \in valid \/ family[n] \in ended
        /\ n # held
        /\ \A u \in Tabs : /\ req[u].cookie # n /\ req[u].body # n
                           /\ u # t => req[u].answer.token # n

\* TypeOK, CookiesPaired and SessionKept follow from what is known of the
\* tokens in the jar, in requests and in answers.
SessionInv ==
    /\ TypeOK /\ HeldInJar /\ AnswersHonest /\ RequestsKnown /\ FamiliesKnown
    /\ OnTheWay /\ SessionKept

\* The tokens that have been issued are numbers.
LEMMA KnownIssues ==
    ASSUME TypeOK
    PROVE  Known \subseteq Issues /\ None \notin Known /\ Empty \notin Known
           /\ issued \in Nat /\ issued \notin Issues \ Known
BY SessionAssumption DEF TypeOK, Known, Issues

\* What Answer does to the requests.
LEMMA AnswerEffect ==
    ASSUME TypeOK, NEW t \in Tabs, NEW kind \in Kinds,
           NEW token \in Tokens, NEW clear \in BOOLEAN,
           Answer(t, kind, token, clear)
    PROVE  /\ req' \in [Tabs -> Request]
           /\ req'[t].phase = "answered"
           /\ req'[t].cookie = None /\ req'[t].body = None
           /\ req'[t].answer = [kind |-> kind, token |-> token, clear |-> clear]
           /\ \A u \in Tabs \ {t} : req'[u] = req[u]
<1> DEFINE a == [kind |-> kind, token |-> token, clear |-> clear]
           r == [NoRequest EXCEPT !.phase = "answered", !.answer = a]
<1>1. a \in Answers
  BY DEF Answers, Kinds
<1>2. r.phase = "answered" /\ r.cookie = None /\ r.body = None /\ r.answer = a
  <2> HIDE DEF a
  <2> QED
    BY DEF NoRequest
<1>3. r \in Request
  <2> HIDE DEF a
  <2>1. NoRequest \in Request
    BY DEF NoRequest, Request, NoAnswer, Answers, Ops, Tokens
  <2> QED
    BY <1>1, <2>1 DEF Request
<1>4. req \in [Tabs -> Request]
  BY DEF TypeOK, Request
<1>5. req' = [req EXCEPT ![t] = r]
  BY DEF Answer
<1>6. req'[t] = r /\ req' \in [Tabs -> Request]
      /\ \A u \in Tabs \ {t} : req'[u] = req[u]
  <2> HIDE DEF r
  <2> QED
    BY <1>3, <1>4, <1>5
<1> QED
  BY <1>2, <1>6

\* What the call of a handler does to the auth service: it may issue pairs,
\* sessions keep their names and once ended stay so, and a token that stops
\* being valid belongs to a session that ends, or is the one that the request
\* carries and has its successor in the answer.
Called(t, kind, token) ==
    /\ issued' \in 0..MaxIssues /\ issued <= issued'
    /\ family' \in [Issues -> Issues]
    /\ \A n \in Known : family'[n] = family[n]
    /\ \A n \in Known' : family'[n] \in Known'
    /\ valid' \subseteq Known'
    /\ ended \subseteq ended' /\ ended' \subseteq Known'
    /\ mfa' \in BOOLEAN /\ challenge' \in BOOLEAN
    /\ \A n \in valid \ valid' :
          \/ family[n] \in ended'
          \/ n = TokenOf(t) /\ kind = "tokens" /\ family'[token] = family[n]

\* Every handler keeps the invariant: it answers once, with a new pair or with
\* none, and its call leaves the auth service as Called says.
LEMMA ServedKeeps ==
    ASSUME SessionInv, NEW t \in Tabs, NEW kind \in Kinds,
           NEW token \in Tokens, NEW clear \in BOOLEAN,
           req[t].phase = "sent", Answer(t, kind, token, clear),
           UNCHANGED browserVars,
           clear <=> kind = "loggedout",
           kind # "tokens" => token = None,
           kind = "tokens" => token \in valid' \ Known,
           Called(t, kind, token)
    PROVE  SessionInv'
<1> USE DEF browserVars
<1>1. /\ req' \in [Tabs -> Request]
      /\ req'[t].phase = "answered"
      /\ req'[t].cookie = None /\ req'[t].body = None
      /\ req'[t].answer = [kind |-> kind, token |-> token, clear |-> clear]
      /\ \A u \in Tabs \ {t} : req'[u] = req[u]
  BY AnswerEffect DEF SessionInv
<1>2. req'[t].answer.kind = kind /\ req'[t].answer.token = token
      /\ req'[t].answer.clear = clear
  BY <1>1
<1>3. Known \subseteq Known' /\ Known' \subseteq Issues
  <2>1. MaxIssues \in Nat /\ issued \in 0..MaxIssues
        /\ issued' \in 0..MaxIssues /\ issued <= issued'
    BY SessionAssumption DEF SessionInv, TypeOK, Called
  <2> QED
    BY <2>1 DEF Known, Issues
<1>4. TokenOf(t) \in {req[t].cookie, req[t].body}
  BY DEF TokenOf
<1>5. TypeOK'
  <2>1. jar' = jar /\ held' = held /\ asked' = asked
    OBVIOUS
  <2>2. valid' \subseteq 1..issued' /\ ended' \subseteq 1..issued'
    BY DEF Called, Known
  <2> QED
    BY <1>1, <2>1, <2>2 DEF SessionInv, TypeOK, Called, Request
<1>6. HeldInJar'
  BY <1>3 DEF SessionInv, HeldInJar
<1>7. AnswersHonest'
  BY <1>1, <1>2, <1>3 DEF SessionInv, AnswersHonest, Called
<1>8. RequestsKnown'
  BY <1>1, <1>3 DEF SessionInv, RequestsKnown
<1>9. FamiliesKnown'
  BY DEF FamiliesKnown, Called
<1>10. OnTheWay'
  <2> SUFFICES ASSUME NEW u \in Tabs, req'[u].answer.kind = "tokens"
               PROVE  LET n == req'[u].answer.token IN
                      /\ n \in valid' \/ family'[n] \in ended'
                      /\ n # held'
                      /\ \A w \in Tabs : /\ req'[w].cookie # n
                                         /\ req'[w].body # n
                                         /\ w # u => req'[w].answer.token # n
    BY DEF OnTheWay
  <2> DEFINE n == req'[u].answer.token
  <2>1. CASE u = t
    <3>1. n = token /\ n \in valid' /\ n \notin Known /\ n # None
      BY <1>2, <2>1, <1>3, SessionAssumption DEF Called
    <3>2. n # held'
      BY <3>1 DEF SessionInv, HeldInJar
    <3>3. ASSUME NEW w \in Tabs
          PROVE  req'[w].cookie # n /\ req'[w].body # n
                 /\ (w # u => req'[w].answer.token # n)
      BY <3>1, <1>1, <2>1 DEF SessionInv, RequestsKnown, AnswersHonest
    <3> QED
      BY <3>1, <3>2, <3>3
  <2>2. CASE u # t
    <3>1. n = req[u].answer.token /\ req[u].answer.kind = "tokens"
      BY <1>1, <2>2
    <3>2. n \in Known
      BY <3>1 DEF SessionInv, AnswersHonest
    <3>3. n # TokenOf(t)
      BY <1>4, <3>1 DEF SessionInv, OnTheWay
    <3>4. n \in valid' \/ family'[n] \in ended'
      BY <3>1, <3>2, <3>3 DEF SessionInv, OnTheWay, Called
    <3>5. n # held'
      BY <3>1 DEF SessionInv, OnTheWay
    <3>6. n # None /\ n # token
      BY <3>2, <1>3, SessionAssumption
    <3>7. ASSUME NEW w \in Tabs
          PROVE  req'[w].cookie # n /\ req'[w].body # n
                 /\ (w # u => req'[w].answer.token # n)
      BY <1>1, <1>2, <3>1, <3>6 DEF SessionInv, OnTheWay
    <3> QED
      BY <3>4, <3>5, <3>7
  <2> QED
    BY <2>1, <2>2
<1>11. SessionKept'
  <2> SUFFICES ASSUME held' # None, family'[held'] \notin ended'
               PROVE  \E n \in valid' :
                        /\ family'[n] = family'[held']
                        /\ \/ jar'["refresh"]["/refresh"] = n
                           \/ \E u \in Tabs : req'[u].answer.token = n
    BY DEF SessionKept
  <2>1. held' = held /\ held \in Known /\ family'[held'] = family[held]
        /\ family[held] \notin ended
    BY DEF SessionInv, HeldInJar, Called
  <2>2. PICK n \in valid : /\ family[n] = family[held]
                           /\ \/ jar["refresh"]["/refresh"] = n
                              \/ \E u \in Tabs : req[u].answer.token = n
    BY <2>1 DEF SessionInv, SessionKept
  <2>3. n \in Known /\ family'[n] = family[n] /\ n # None
    BY <1>3, SessionAssumption DEF SessionInv, TypeOK, Called, Known
  <2>4. CASE n \in valid'
    <3>1. req[t].answer.token # n
      BY <2>3 DEF SessionInv, AnswersHonest, NoAnswer
    <3> QED
      BY <2>1, <2>2, <2>3, <2>4, <3>1, <1>1
  <2>5. CASE n \notin valid'
    <3>1. kind = "tokens" /\ family'[token] = family[n]
      BY <2>1, <2>2, <2>5 DEF Called
    <3> QED
      BY <3>1, <2>1, <2>2, <1>2
  <2> QED
    BY <2>4, <2>5
<1> QED
  BY <1>5, <1>6, <1>7, <1>8, <1>9, <1>10, <1>11 DEF SessionInv

\* A new pair: known from now on, valid, and of its own session or of the one
\* that the used token belongs to.
LEMMA IssueEffect ==
    ASSUME TypeOK, FamiliesKnown, NEW first \in BOOLEAN, NEW used,
           Issue(first, used), first \/ used \in valid
    PROVE  /\ issued' \in 0..MaxIssues /\ issued <= issued'
           /\ family' \in [Issues -> Issues]
           /\ \A n \in Known : family'[n] = family[n]
           /\ \A n \in Known' : family'[n] \in Known'
           /\ valid' \subseteq Known' /\ Known \subseteq Known'
           /\ issued + 1 \in valid' \ Known
           /\ issued + 1 \in Tokens
           /\ valid \ valid' \subseteq {used}
           /\ ~first => family'[issued + 1] = family[used]
<1>1. /\ MaxIssues \in Nat /\ issued \in 0..MaxIssues /\ issued < MaxIssues
      /\ issued' = issued + 1
  BY SessionAssumption DEF TypeOK, Issue
<1>2. /\ Known' = Known \cup {issued + 1} /\ issued + 1 \notin Known
      /\ issued + 1 \in Issues /\ Known' \subseteq Issues
  BY <1>1 DEF Known, Issues
<1>3. valid \subseteq Known /\ valid' = (valid \ {used}) \cup {issued + 1}
  BY DEF TypeOK, Known, Issue
<1> DEFINE name == IF first THEN issued + 1 ELSE family[used]
<1>4. name \in Issues /\ name \in Known'
  <2>1. CASE first
    BY <1>2, <2>1
  <2>2. CASE ~first
    BY <1>2, <1>3, <2>2 DEF FamiliesKnown
  <2> QED
    BY <2>1, <2>2
<1>5. family \in [Issues -> Issues] /\ family' = [family EXCEPT ![issued + 1] = name]
  BY DEF TypeOK, Issue
<1>6. ~first => name = family[used]
  OBVIOUS
<1> HIDE DEF name
<1>7. /\ family' \in [Issues -> Issues] /\ family'[issued + 1] = name
      /\ \A n \in Known : family'[n] = family[n]
  BY <1>2, <1>4, <1>5
<1>8. \A n \in Known' : family'[n] \in Known'
  BY <1>2, <1>4, <1>7 DEF FamiliesKnown
<1>9. issued' \in 0..MaxIssues /\ issued <= issued'
  BY <1>1
<1> QED
  BY <1>2, <1>3, <1>6, <1>7, <1>8, <1>9 DEF Tokens

\* Serving a request keeps the invariant.
LEMMA ServeKeeps ==
    ASSUME SessionInv, NEW t \in Tabs, Serve(t)
    PROVE  SessionInv'
<1> USE DEF Serves, authVars
<1>1. /\ TypeOK /\ FamiliesKnown
      /\ family \in [Issues -> Issues] /\ issued \in 0..MaxIssues
      /\ issued \in Nat /\ valid \subseteq Known /\ ended \subseteq Known
      /\ mfa \in BOOLEAN /\ challenge \in BOOLEAN
      /\ \A n \in Known : family[n] \in Known
  BY SessionAssumption DEF SessionInv, TypeOK, FamiliesKnown, Known
<1>2. None \in Tokens
  BY DEF Tokens
\* A call that issues nothing.
<1>3. ASSUME UNCHANGED <<issued, family>>, valid' \subseteq valid,
             ended \subseteq ended', ended' \subseteq Known,
             \A n \in valid \ valid' : family[n] \in ended',
             mfa' \in BOOLEAN, challenge' \in BOOLEAN, NEW kind \in Kinds
      PROVE  Called(t, kind, None)
  <2>1. Known' = Known
    BY <1>3 DEF Known
  <2>2. issued <= issued'
    BY <1>1, <1>3
  <2> QED
    BY <1>1, <1>3, <2>1, <2>2 DEF Called
\* A call that begins a session.
<1>4. ASSUME Issue(TRUE, None), UNCHANGED <<ended, mfa>>, challenge' \in BOOLEAN
      PROVE  /\ Called(t, "tokens", issued + 1)
             /\ issued + 1 \in valid' \ Known /\ issued + 1 \in Tokens
  <2>1. None \notin valid
    BY <1>1, KnownIssues
  <2>2. /\ issued' \in 0..MaxIssues /\ issued <= issued'
        /\ family' \in [Issues -> Issues]
        /\ \A n \in Known : family'[n] = family[n]
        /\ \A n \in Known' : family'[n] \in Known'
        /\ valid' \subseteq Known' /\ Known \subseteq Known'
        /\ issued + 1 \in valid' \ Known
        /\ issued + 1 \in Tokens
        /\ valid \ valid' \subseteq {None}
    BY <1>1, <1>4, IssueEffect
  <2> QED
    BY <1>1, <1>4, <2>1, <2>2 DEF Called
\* A call that rotates the token of the request.
<1>5. ASSUME Issue(FALSE, TokenOf(t)), TokenOf(t) \in valid,
             UNCHANGED <<mfa, challenge>>, NEW kind \in Kinds, NEW token \in Tokens,
             ended \subseteq ended', ended' \subseteq Known,
             \/ kind = "tokens" /\ token = issued + 1
             \/ family[TokenOf(t)] \in ended'
      PROVE  /\ Called(t, kind, token)
             /\ issued + 1 \in valid' \ Known /\ issued + 1 \in Tokens
  <2>1. /\ issued' \in 0..MaxIssues /\ issued <= issued'
        /\ family' \in [Issues -> Issues]
        /\ \A n \in Known : family'[n] = family[n]
        /\ \A n \in Known' : family'[n] \in Known'
        /\ valid' \subseteq Known' /\ Known \subseteq Known'
        /\ issued + 1 \in valid' \ Known
        /\ issued + 1 \in Tokens
        /\ valid \ valid' \subseteq {TokenOf(t)}
        /\ family'[issued + 1] = family[TokenOf(t)]
    BY <1>1, <1>5, IssueEffect
  <2> QED
    BY <1>1, <1>5, <2>1 DEF Called
<1>6. CASE Login(t)
  <2>1. CASE mfa
    <3>1. Called(t, "mfa", None)
      BY <1>1, <1>3, <1>6, <2>1 DEF Login, Kinds
    <3>2. Answer(t, "mfa", None, FALSE) /\ UNCHANGED browserVars
      BY <1>6, <2>1 DEF Login
    <3> QED
      BY <1>2, <1>6, <3>1, <3>2, ServedKeeps DEF Login, Kinds
  <2>2. CASE ~mfa
    <3>1. /\ Issue(TRUE, None) /\ UNCHANGED <<ended, mfa>>
          /\ challenge' = challenge /\ Answer(t, "tokens", issued + 1, FALSE)
          /\ UNCHANGED browserVars
      BY <1>6, <2>2 DEF Login
    <3>2. /\ Called(t, "tokens", issued + 1)
          /\ issued + 1 \in valid' \ Known /\ issued + 1 \in Tokens
      BY <1>1, <1>4, <3>1
    <3> QED
      BY <1>6, <3>1, <3>2, ServedKeeps DEF Login, Kinds
  <2> QED
    BY <2>1, <2>2
<1>7. CASE MfaVerify(t)
  <2>1. /\ Called(t, "tokens", issued + 1)
        /\ issued + 1 \in valid' \ Known /\ issued + 1 \in Tokens
    BY <1>4, <1>7 DEF MfaVerify
  <2> QED
    BY <1>7, <2>1, ServedKeeps DEF MfaVerify, Kinds
<1>8. CASE Refresh(t)
  <2>1. CASE TokenOf(t) \in valid
    <3>1. /\ Issue(FALSE, TokenOf(t)) /\ UNCHANGED <<ended, mfa, challenge>>
          /\ Answer(t, "tokens", issued + 1, FALSE) /\ UNCHANGED browserVars
      BY <1>8, <2>1 DEF Refresh
    <3>2. issued + 1 \in Tokens
      BY <1>1, <2>1, <3>1, IssueEffect
    <3>3. Called(t, "tokens", issued + 1) /\ issued + 1 \in valid' \ Known
      BY <1>1, <1>5, <2>1, <3>1, <3>2 DEF Kinds
    <3> QED
      BY <1>8, <3>1, <3>2, <3>3, ServedKeeps DEF Refresh, Kinds
  <2>2. CASE TokenOf(t) \notin valid
    <3>1. /\ UNCHANGED <<issued, family, valid, ended, mfa, challenge>>
          /\ Answer(t, "error", None, FALSE) /\ UNCHANGED browserVars
      BY <1>8, <2>2 DEF Refresh, Error
    <3>2. Called(t, "error", None)
      BY <1>1, <1>3, <3>1 DEF Kinds
    <3> QED
      BY <1>2, <1>8, <3>1, <3>2, ServedKeeps DEF Refresh, Kinds
  <2> QED
    BY <2>1, <2>2
<1>9. CASE Logout(t)
  <2>1. /\ UNCHANGED <<issued, family, mfa, challenge>>
        /\ valid' = valid \ {TokenOf(t)}
        /\ ended' = ended \cup {family[n] : n \in valid \cap {TokenOf(t)}}
        /\ Answer(t, "loggedout", None, TRUE) /\ UNCHANGED browserVars
    BY <1>9 DEF Logout
  <2>2. Called(t, "loggedout", None)
    BY <1>1, <1>3, <2>1 DEF Kinds
  <2> QED
    BY <1>2, <1>9, <2>1, <2>2, ServedKeeps DEF Logout, Kinds
<1>10. ASSUME NewPassword(t), req[t].phase = "sent"
       PROVE  SessionInv'
  <2>1. /\ UNCHANGED <<issued, family, mfa, challenge>>
        /\ Answer(t, "done", None, FALSE) /\ UNCHANGED browserVars
    BY <1>10 DEF NewPassword
  <2>2. PICK keep \in {valid, {}} :
           valid' = keep /\ ended' = ended \cup {family[n] : n \in valid \ keep}
    BY <1>10 DEF NewPassword
  <2>3. Called(t, "done", None)
    BY <1>1, <1>3, <2>1, <2>2 DEF Kinds
  <2> QED
    BY <1>2, <1>10, <2>1, <2>3, ServedKeeps DEF Kinds
<1>11. ASSUME NEW enabled \in BOOLEAN, SetMfa(t, enabled), req[t].phase = "sent"
       PROVE  SessionInv'
  <2>1. Called(t, "done", None)
    BY <1>1, <1>3, <1>11 DEF SetMfa, Kinds
  <2> QED
    BY <1>2, <1>11, <2>1, ServedKeeps DEF SetMfa, Kinds
<1>12. CASE Forward(t)
  <2>1. Called(t, "done", None)
    BY <1>1, <1>3, <1>12 DEF Forward, Kinds
  <2> QED
    BY <1>2, <1>12, <2>1, ServedKeeps DEF Forward, Kinds
<1>13. CASE Refused(t)
  <2>1. Called(t, "error", None)
    BY <1>1, <1>3, <1>13 DEF Refused, Kinds
  <2> QED
    BY <1>2, <1>13, <2>1, ServedKeeps DEF Refused, Error, Kinds
<1>14. CASE RefreshReplyLost(t)
  <2>1. /\ Issue(FALSE, TokenOf(t)) /\ UNCHANGED <<mfa, challenge>>
        /\ TokenOf(t) \in valid /\ ended' = ended \cup {family[TokenOf(t)]}
        /\ Answer(t, "error", None, FALSE) /\ UNCHANGED browserVars
    BY <1>14 DEF RefreshReplyLost, Error
  <2>2. Called(t, "error", None)
    BY <1>1, <1>2, <1>5, <2>1 DEF Kinds
  <2> QED
    BY <1>2, <1>14, <2>1, <2>2, ServedKeeps DEF RefreshReplyLost, Kinds
<1> QED
  BY <1>6, <1>7, <1>8, <1>9, <1>10, <1>11, <1>12, <1>13, <1>14
     DEF Serve, ChangePassword, ResetPassword, MfaEnable, MfaDisable

\* Sending a request keeps the invariant: what it carries is in the jar.
LEMMA SendKeeps ==
    ASSUME SessionInv, NEW t \in Tabs, NEW op \in Ops,
           NEW body \in {None, held}, Send(t, op, body)
    PROVE  SessionInv'
<1> DEFINE jwt == op \in JwtOps /\ CookieFor("access", op) \in Issues
           cookie == IF op \in TokenOps THEN CookieFor("refresh", op) ELSE None
           r == [phase |-> "sent", op |-> op, body |-> body, jwt |-> jwt,
                 cookie |-> cookie, answer |-> NoAnswer]
<1>1. /\ req[t].phase = "idle" /\ req[t].answer = NoAnswer
      /\ req \in [Tabs -> Request]
      /\ req' = [req EXCEPT ![t] = r]
      /\ UNCHANGED <<jar, held, asked, issued, family, valid, ended, mfa, challenge>>
  BY DEF Send, browserVars, authVars, SessionInv, AnswersHonest, TypeOK, Request
<1>2. Known' = Known
  BY <1>1 DEF Known
<1>3. cookie \in {None, held}
  BY DEF CookieFor, PathMatches, SessionInv, HeldInJar, TypeOK
<1>4. held \in Known \cup {None} /\ held \in Issues \cup {None} /\ jwt \in BOOLEAN
  BY DEF SessionInv, HeldInJar, TypeOK
<1> HIDE DEF jwt, cookie
<1>5. NoAnswer.token = None /\ NoAnswer.kind = "done" /\ NoAnswer.clear = FALSE
      /\ NoAnswer \in Answers
  BY DEF NoAnswer, Answers, Tokens
<1>6. r \in Request
  BY <1>3, <1>4, <1>5 DEF Request, Tokens
<1>7. r.phase = "sent" /\ r.cookie = cookie /\ r.body = body /\ r.answer = NoAnswer
  OBVIOUS
<1> HIDE DEF r
<1>8. req' \in [Tabs -> Request] /\ req'[t] = r
      /\ (\A u \in Tabs \ {t} : req'[u] = req[u])
  BY <1>1, <1>6
<1>9. \A u \in Tabs : req'[u].answer = req[u].answer
  BY <1>1, <1>7, <1>8
<1>10. TypeOK'
  BY <1>1, <1>8 DEF SessionInv, TypeOK, Request
<1>11. HeldInJar' /\ FamiliesKnown'
  BY <1>1, <1>2 DEF SessionInv, HeldInJar, FamiliesKnown
<1>12. AnswersHonest'
  BY <1>1, <1>2, <1>5, <1>7, <1>8 DEF SessionInv, AnswersHonest
<1>13. RequestsKnown'
  BY <1>2, <1>3, <1>4, <1>7, <1>8 DEF SessionInv, RequestsKnown
<1>14. OnTheWay'
  <2> SUFFICES ASSUME NEW u \in Tabs, req'[u].answer.kind = "tokens"
               PROVE  LET n == req'[u].answer.token IN
                      /\ n \in valid' \/ family'[n] \in ended'
                      /\ n # held'
                      /\ \A w \in Tabs : /\ req'[w].cookie # n
                                         /\ req'[w].body # n
                                         /\ w # u => req'[w].answer.token # n
    BY DEF OnTheWay
  <2> DEFINE n == req'[u].answer.token
  <2>1. n = req[u].answer.token /\ req[u].answer.kind = "tokens"
    BY <1>9
  <2>2. n # None
    BY <2>1, KnownIssues DEF SessionInv, AnswersHonest
  <2>3. /\ n \in valid \/ family[n] \in ended
        /\ n # held
        /\ \A w \in Tabs : /\ req[w].cookie # n /\ req[w].body # n
                           /\ w # u => req[w].answer.token # n
    BY <2>1 DEF SessionInv, OnTheWay
  <2> HIDE DEF n
  <2>4. ASSUME NEW w \in Tabs
        PROVE  req'[w].cookie # n /\ req'[w].body # n
    BY <1>3, <1>7, <1>8, <2>2, <2>3
  <2> QED
    BY <1>1, <1>9, <2>3, <2>4 DEF n
<1>15. SessionKept'
  BY <1>1, <1>9 DEF SessionInv, SessionKept
<1> QED
  BY <1>10, <1>11, <1>12, <1>13, <1>14, <1>15 DEF SessionInv

\* What it means that a tab has no request any more.
LEMMA DoneEffect ==
    ASSUME TypeOK, NEW t \in Tabs, req' = [req EXCEPT ![t] = NoRequest]
    PROVE  /\ req' \in [Tabs -> Request]
           /\ req'[t].phase = "idle" /\ req'[t].cookie = None
           /\ req'[t].body = None /\ req'[t].answer = NoAnswer
           /\ NoAnswer.token = None /\ NoAnswer.kind = "done"
           /\ NoAnswer.clear = FALSE
           /\ \A u \in Tabs \ {t} : req'[u] = req[u]
<1>1. NoAnswer.token = None /\ NoAnswer.kind = "done" /\ NoAnswer.clear = FALSE
      /\ NoAnswer \in Answers
  BY DEF NoAnswer, Answers, Tokens
<1>2. /\ NoRequest.phase = "idle" /\ NoRequest.cookie = None
      /\ NoRequest.body = None /\ NoRequest.answer = NoAnswer
  BY DEF NoRequest
<1>3. NoRequest \in Request
  BY <1>1 DEF NoRequest, Request, Ops, Tokens
<1>4. req \in [Tabs -> Request]
  BY DEF TypeOK, Request
<1> QED
  BY <1>1, <1>2, <1>3, <1>4

\* A lost request or answer keeps the invariant: the session whose pair is lost
\* counts as ended.
LEMMA LoseKeeps ==
    ASSUME SessionInv, NEW t \in Tabs, Lose(t)
    PROVE  SessionInv'
<1>1. /\ req' = [req EXCEPT ![t] = NoRequest]
      /\ ended' = ended \cup {family[n] : n \in Issues \cap {req[t].answer.token}}
      /\ UNCHANGED <<jar, held, asked, issued, family, valid, mfa, challenge>>
  BY DEF Lose, browserVars
<1>2. /\ req' \in [Tabs -> Request]
      /\ req'[t].phase = "idle" /\ req'[t].cookie = None
      /\ req'[t].body = None /\ req'[t].answer = NoAnswer
      /\ NoAnswer.token = None /\ NoAnswer.kind = "done"
      /\ NoAnswer.clear = FALSE
      /\ \A u \in Tabs \ {t} : req'[u] = req[u]
  BY <1>1, DoneEffect DEF SessionInv
<1>3. Known' = Known /\ Known \subseteq Issues /\ None \notin Issues
  BY <1>1, KnownIssues, SessionAssumption DEF Known, SessionInv
<1>4. req[t].answer.token \in Known \cup {None}
  BY DEF SessionInv, AnswersHonest
<1>5. ended \subseteq ended' /\ ended' \subseteq Known
  <2>1. ended \subseteq Known /\ \A n \in Known : family[n] \in Known
    BY DEF SessionInv, TypeOK, FamiliesKnown, Known
  <2> QED
    BY <1>1, <1>3, <1>4, <2>1
<1>6. TypeOK'
  <2>1. ended' \subseteq 1..issued'
    BY <1>3, <1>5 DEF Known
  <2> QED
    BY <1>1, <1>2, <2>1 DEF SessionInv, TypeOK, Request
<1>7. HeldInJar' /\ FamiliesKnown'
  BY <1>1, <1>3 DEF SessionInv, HeldInJar, FamiliesKnown
<1>8. AnswersHonest' /\ RequestsKnown'
  BY <1>1, <1>2, <1>3 DEF SessionInv, AnswersHonest, RequestsKnown
<1>9. OnTheWay'
  <2> SUFFICES ASSUME NEW u \in Tabs, req'[u].answer.kind = "tokens"
               PROVE  LET n == req'[u].answer.token IN
                      /\ n \in valid' \/ family'[n] \in ended'
                      /\ n # held'
                      /\ \A w \in Tabs : /\ req'[w].cookie # n
                                         /\ req'[w].body # n
                                         /\ w # u => req'[w].answer.token # n
    BY DEF OnTheWay
  <2>1. u # t /\ req'[u] = req[u]
    BY <1>2
  <2>2. req[u].answer.token # None
    BY <1>3, <2>1 DEF SessionInv, AnswersHonest
  <2> QED
    BY <1>1, <1>2, <1>5, <2>1, <2>2 DEF SessionInv, OnTheWay
<1>10. SessionKept'
  <2> SUFFICES ASSUME held' # None, family'[held'] \notin ended'
               PROVE  \E n \in valid' :
                        /\ family'[n] = family'[held']
                        /\ \/ jar'["refresh"]["/refresh"] = n
                           \/ \E u \in Tabs : req'[u].answer.token = n
    BY DEF SessionKept
  <2>1. PICK n \in valid : /\ family[n] = family[held]
                           /\ \/ jar["refresh"]["/refresh"] = n
                              \/ \E u \in Tabs : req[u].answer.token = n
    BY <1>1, <1>5 DEF SessionInv, SessionKept
  <2>2. n \in Known
    BY DEF SessionInv, TypeOK, Known
  <2>3. req[t].answer.token # n
    BY <1>1, <1>3, <2>1, <2>2
  <2> QED
    BY <1>1, <1>2, <2>1, <2>3
<1> QED
  BY <1>6, <1>7, <1>8, <1>9, <1>10 DEF SessionInv

\* An answer that arrives keeps the invariant: a pair replaces the whole jar, a
\* logout empties it, and any other answer leaves the session alone.
LEMMA ArriveKeeps ==
    ASSUME SessionInv, NEW t \in Tabs, Arrive(t)
    PROVE  SessionInv'
<1> DEFINE a == req[t].answer
<1>1. /\ req' = [req EXCEPT ![t] = NoRequest]
      /\ UNCHANGED <<issued, family, valid, ended, mfa, challenge>>
  BY DEF Arrive, authVars
<1>2. /\ req' \in [Tabs -> Request]
      /\ req'[t].phase = "idle" /\ req'[t].cookie = None
      /\ req'[t].body = None /\ req'[t].answer = NoAnswer
      /\ NoAnswer.token = None /\ NoAnswer.kind = "done"
      /\ NoAnswer.clear = FALSE
      /\ \A u \in Tabs \ {t} : req'[u] = req[u]
  BY <1>1, DoneEffect DEF SessionInv
<1>3. Known' = Known /\ Known \subseteq Issues /\ None \notin Issues
  BY <1>1, KnownIssues, SessionAssumption DEF Known, SessionInv
<1>4. /\ a.kind = "tokens" => a.token \in Known
      /\ a.kind # "tokens" => a.token = None
      /\ a.clear <=> a.kind = "loggedout"
  BY DEF SessionInv, AnswersHonest
\* The jar and what the browser remembers move together.
<1>5. /\ held' = IF a.kind = "tokens" THEN a.token
                 ELSE IF a.kind = "loggedout" THEN None ELSE held
      /\ jar' \in [Cookies -> [Paths -> Tokens]]
      /\ jar'["access"]["/refresh"] = None /\ jar'["refresh"]["/"] = None
      /\ jar'["access"]["/"] = held' /\ jar'["refresh"]["/refresh"] = held'
  <2>1. /\ jar \in [Cookies -> [Paths -> Tokens]]
        /\ jar["access"]["/refresh"] = None /\ jar["refresh"]["/"] = None
        /\ jar["access"]["/"] = held /\ jar["refresh"]["/refresh"] = held
    BY DEF SessionInv, TypeOK, HeldInJar
  <2>2. \A x \in Tokens :
          LET j == [jar EXCEPT !["access"]["/"] = x, !["refresh"]["/refresh"] = x]
          IN  /\ j \in [Cookies -> [Paths -> Tokens]]
              /\ j["access"]["/refresh"] = None /\ j["refresh"]["/"] = None
              /\ j["access"]["/"] = x /\ j["refresh"]["/refresh"] = x
    BY <2>1 DEF Cookies, Paths
  <2>3. CASE a.kind = "tokens"
    <3>1. jar' = [jar EXCEPT !["access"]["/"] = a.token,
                             !["refresh"]["/refresh"] = a.token]
          /\ held' = a.token /\ a.token \in Tokens
      BY <1>3, <1>4, <2>3 DEF Arrive, SetAuthCookies, Tokens
    <3> QED
      BY <2>2, <2>3, <3>1
  <2>4. CASE a.kind = "loggedout"
    <3>1. jar' = [jar EXCEPT !["access"]["/"] = None,
                             !["refresh"]["/refresh"] = None]
          /\ held' = None /\ None \in Tokens
      BY <1>3, <1>4, <2>4 DEF Arrive, ClearAuthCookies, Tokens
    <3> QED
      BY <2>2, <2>4, <3>1
  <2>5. CASE a.kind \notin {"tokens", "loggedout"}
    <3>1. jar' = jar /\ held' = held
      BY <1>3, <1>4, <2>5 DEF Arrive
    <3> QED
      BY <2>1, <2>5, <3>1
  <2> QED
    BY <2>3, <2>4, <2>5
<1>6. held' \in Known \cup {None}
  BY <1>4, <1>5 DEF SessionInv, HeldInJar
<1>7. TypeOK'
  <2>1. asked' \in BOOLEAN
    BY DEF Arrive, SessionInv, TypeOK
  <2> QED
    BY <1>1, <1>2, <1>3, <1>5, <1>6, <2>1 DEF SessionInv, TypeOK, Request
<1>8. HeldInJar' /\ FamiliesKnown'
  BY <1>1, <1>3, <1>5, <1>6 DEF SessionInv, HeldInJar, FamiliesKnown
<1>9. AnswersHonest' /\ RequestsKnown'
  BY <1>2, <1>3 DEF SessionInv, AnswersHonest, RequestsKnown
<1>10. OnTheWay'
  <2> SUFFICES ASSUME NEW u \in Tabs, req'[u].answer.kind = "tokens"
               PROVE  LET n == req'[u].answer.token IN
                      /\ n \in valid' \/ family'[n] \in ended'
                      /\ n # held'
                      /\ \A w \in Tabs : /\ req'[w].cookie # n
                                         /\ req'[w].body # n
                                         /\ w # u => req'[w].answer.token # n
    BY DEF OnTheWay
  <2>1. u # t /\ req'[u] = req[u]
    BY <1>2
  <2>2. req[u].answer.token # None /\ req[u].answer.token # a.token
    BY <1>3, <2>1 DEF SessionInv, AnswersHonest, OnTheWay
  <2>3. req[u].answer.token # held'
    BY <1>5, <2>1, <2>2 DEF SessionInv, OnTheWay
  <2> QED
    BY <1>1, <1>2, <2>1, <2>2, <2>3 DEF SessionInv, OnTheWay
<1>11. SessionKept'
  <2> SUFFICES ASSUME held' # None, family'[held'] \notin ended'
               PROVE  \E n \in valid' :
                        /\ family'[n] = family'[held']
                        /\ \/ jar'["refresh"]["/refresh"] = n
                           \/ \E u \in Tabs : req'[u].answer.token = n
    BY DEF SessionKept
  <2>1. CASE a.kind = "tokens"
    <3>1. held' \in valid
      BY <1>1, <1>5, <2>1 DEF SessionInv, OnTheWay
    <3> QED
      BY <1>1, <1>5, <3>1
  <2>2. CASE a.kind # "tokens"
    <3>1. held' = held
      BY <1>5, <2>2
    <3>2. PICK n \in valid : /\ family[n] = family[held]
                             /\ \/ jar["refresh"]["/refresh"] = n
                                \/ \E u \in Tabs : req[u].answer.token = n
      BY <1>1, <3>1 DEF SessionInv, SessionKept
    <3>3. n # None /\ a.token = None /\ jar["refresh"]["/refresh"] = held
      BY <1>3, <1>4, <2>2 DEF SessionInv, TypeOK, Known, HeldInJar
    <3> QED
      BY <1>1, <1>2, <1>5, <3>1, <3>2, <3>3
  <2> QED
    BY <2>1, <2>2
<1> QED
  BY <1>7, <1>8, <1>9, <1>10, <1>11 DEF SessionInv

\* SessionInv holds at the start.
LEMMA SessionInit == Init => SessionInv
<1> SUFFICES ASSUME Init
             PROVE  SessionInv
  OBVIOUS
<1>1. NoAnswer.token = None /\ NoAnswer.kind = "done" /\ NoAnswer.clear = FALSE
      /\ NoAnswer \in Answers
  BY DEF NoAnswer, Answers, Tokens
<1>2. /\ NoRequest.phase = "idle" /\ NoRequest.cookie = None
      /\ NoRequest.body = None /\ NoRequest.answer = NoAnswer
      /\ NoRequest \in Request
  BY <1>1 DEF NoRequest, Request, Ops, Tokens
<1>3. /\ req \in [Tabs -> Request] /\ \A t \in Tabs : req[t] = NoRequest
      /\ \A c \in Cookies, p \in Paths : jar[c][p] = None
      /\ jar \in [Cookies -> [Paths -> Tokens]]
  BY <1>2 DEF Init, Tokens
<1>4. Known = {} /\ issued \in 0..MaxIssues
  BY SessionAssumption DEF Init, Known
<1>5. TypeOK
  BY <1>3, <1>4, SessionAssumption DEF Init, TypeOK, Request, Cookies, Paths
<1>6. HeldInJar /\ FamiliesKnown /\ RequestsKnown /\ AnswersHonest
  BY <1>1, <1>2, <1>3, <1>4
     DEF Init, HeldInJar, FamiliesKnown, RequestsKnown, AnswersHonest, Cookies, Paths
<1>7. OnTheWay /\ SessionKept
  BY <1>1, <1>2, <1>3 DEF Init, OnTheWay, SessionKept
<1> QED
  BY <1>5, <1>6, <1>7 DEF SessionInv

\* Every step keeps SessionInv.
LEMMA SessionStep == SessionInv /\ [Next]_vars => SessionInv'
<1> SUFFICES ASSUME SessionInv, [Next]_vars
             PROVE  SessionInv'
  OBVIOUS
<1>1. CASE Next
  BY <1>1, SendKeeps, ServeKeeps, ArriveKeeps, LoseKeeps DEF Next
<1>2. CASE UNCHANGED vars
  BY <1>2 DEF vars, browserVars, authVars, SessionInv, TypeOK, HeldInJar, Known,
              AnswersHonest, RequestsKnown, FamiliesKnown, OnTheWay, SessionKept
<1> QED
  BY <1>1, <1>2

LEMMA SessionAlways == Spec => []SessionInv
BY SessionInit, SessionStep, PTL DEF Spec

-----------------------------------------------------------------------------

\* TypeOK, for any number of tabs and tokens: the tokens in use have been issued
\* and setAuthCookies and clearAuthCookies keep each cookie under its own path.
THEOREM TypeCorrect == Spec => []TypeOK
<1>1. SessionInv => TypeOK
  BY DEF SessionInv
<1> QED
  BY <1>1, SessionAlways, PTL

\* CookiesPaired: whatever the order in which the answers of the tabs arrive,
\* the jar holds both cookies of one issue or none, and never an empty token.
THEOREM PairsStayTogether == Spec => []CookiesPaired
<1>1. SessionInv => CookiesPaired
  <2> SUFFICES ASSUME SessionInv
               PROVE  CookiesPaired
    OBVIOUS
  <2>1. held # Empty /\ None # Empty
    BY SessionAssumption DEF SessionInv, TypeOK
  <2> QED
    BY <2>1 DEF SessionInv, TypeOK, HeldInJar, CookiesPaired, Cookies, Paths
<1> QED
  BY <1>1, SessionAlways, PTL

\* SessionKept: tabs that refresh at the same time with the same single-use
\* token do not cost the browser its session; the successor is in the jar or on
\* the way to it until the session is revoked or its newest pair is lost.
THEOREM RefreshRaceKeepsSession == Spec => []SessionKept
<1>1. SessionInv => SessionKept
  BY DEF SessionInv
<1> QED
  BY <1>1, SessionAlways, PTL

\* LogoutClears: the answer of Logout clears exactly the cookies that
\* setAuthCookies stored, so nothing is left under any path.
THEOREM LogoutLeavesNothing == Spec => LogoutClears
<1>1. SessionInv /\ [Next]_vars =>
        [\A t \in Tabs :
            req[t].answer.kind = "loggedout" /\ Arrive(t)
                => \A c \in Cookies, p \in Paths : jar'[c][p] = None]_vars
  <2> SUFFICES ASSUME SessionInv, NEW t \in Tabs,
                      req[t].answer.kind = "loggedout", Arrive(t),
                      NEW c \in Cookies, NEW p \in Paths
               PROVE  jar'[c][p] = None
    OBVIOUS
  <2>1. /\ jar \in [Cookies -> [Paths -> Tokens]]
        /\ jar["access"]["/refresh"] = None /\ jar["refresh"]["/"] = None
    BY DEF SessionInv, TypeOK
  <2>2. req[t].answer.clear
    BY DEF SessionInv, AnswersHonest
  <2>3. jar' = ClearAuthCookies
    BY <2>2 DEF Arrive
  <2> QED
    BY <2>1, <2>3 DEF ClearAuthCookies, Cookies, Paths
<1> QED
  BY <1>1, SessionAlways, PTL DEF Spec, LogoutClears
=============================================================================
