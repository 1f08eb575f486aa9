----------------------------- MODULE AuthSession -----------------------------
(***************************************************************************)
(* The cookie session of a browser (internal/handlers/auth.go): login,     *)
(* second factor, refresh and logout, and the other account operations,    *)
(* for one account and several tabs.  A request is sent with the cookies   *)
(* the browser holds at that moment, is served by a handler that makes one *)
(* call to the auth service, and its answer arrives later or never; the    *)
(* answers of different tabs overtake each other.                          *)
(*                                                                         *)
(* The auth service and the browser are external.  The auth service issues *)
(* access and refresh tokens in pairs, numbered here; a refresh token can  *)
(* be used once.  A session is what one login began: its family of pairs.  *)
(***************************************************************************)
EXTENDS Naturals

CONSTANTS
    Tabs,        \* requests that can be under way together
    MaxIssues,   \* bound on the pairs of tokens issued
    None,        \* no token
    Empty        \* the empty string in the place of a token

Issues == 1..MaxIssues

ASSUME SessionAssumption ==
    /\ MaxIssues \in Nat \ {0}
    /\ None \notin Issues
    /\ Empty \notin Issues \cup {None}

VARIABLES
    (* the browser *)
    jar,       \* jar[name][path]: the cookies
    held,      \* the refresh token of the last answer's body
    asked,     \* does it hold the challenge of a login that needs MFA?
    (* requests *)
    req,       \* req[t]: the request of the tab t
    (* the auth service *)
    issued,    \* pairs issued so far
    family,    \* family[n]: the first pair of n's session
    valid,     \* refresh tokens that can still be used
    ended,     \* history: families revoked, or whose newest pair was lost
    mfa,       \* is MFA enabled?
    challenge  \* is a login waiting for its second factor?

browserVars == <<jar, held, asked>>
authVars    == <<issued, family, valid, ended, mfa, challenge>>
vars        == <<browserVars, req, authVars>>

Ops == {"login", "verify", "refresh", "logout",
        "changePassword", "resetPassword", "mfaEnable", "mfaDisable", "other"}
TokenOps == {"refresh", "logout"}
JwtOps   == {"changePassword", "mfaEnable", "mfaDisable"}
Cookies == {"access", "refresh"}
Paths   == {"/", "/refresh"}
Tokens  == Issues \cup {None, Empty}

\* What an answer does to the browser: store a pair, clear the cookies, ask
\* for the second factor, or nothing.
Answers == [kind : {"tokens", "mfa", "loggedout", "done", "error"},
            token : Tokens, clear : BOOLEAN]
NoAnswer == [kind |-> "done", token |-> None, clear |-> FALSE]

NoRequest == [phase |-> "idle", op |-> "other", jwt |-> FALSE,
              cookie |-> None, body |-> None, answer |-> NoAnswer]

\* The types; tokens that are in use have been issued, and each cookie is
\* stored under its own path only.
TypeOK ==
    /\ jar \in [Cookies -> [Paths -> Tokens]]
    /\ jar["access"]["/refresh"] = None /\ jar["refresh"]["/"] = None
    /\ held \in Issues \cup {None}
    /\ asked \in BOOLEAN
    /\ req \in [Tabs -> [phase : {"idle", "sent", "answered"}, op : Ops,
                         jwt : BOOLEAN, cookie : Tokens,
                         body : Issues \cup {None}, answer : Answers]]
    /\ issued \in 0..MaxIssues
    /\ family \in [Issues -> Issues]
    /\ valid \subseteq 1..issued
    /\ ended \subseteq 1..issued
    /\ mfa \in BOOLEAN
    /\ challenge \in BOOLEAN

Init ==
    /\ jar = [c \in Cookies |-> [p \in Paths |-> None]]
    /\ held = None
    /\ asked = FALSE
    /\ req = [t \in Tabs |-> NoRequest]
    /\ issued = 0
    /\ family = [n \in Issues |-> n]
    /\ valid = {}
    /\ ended = {}
    /\ mfa \in BOOLEAN
    /\ challenge = FALSE

-----------------------------------------------------------------------------
(***************************************************************************)
(* The browser.                                                            *)
(***************************************************************************)

\* A cookie goes with the requests below its path.
PathMatches(path, op) == path = "/" \/ op = "refresh"

\* The most specific cookie of a name comes first.
CookieFor(name, op) ==
    IF PathMatches("/refresh", op) /\ jar[name]["/refresh"] # None
    THEN jar[name]["/refresh"] ELSE jar[name]["/"]

\* The body repeats the refresh token, or it does not.  The request records
\* the cookies its handler reads.
Send(t, op, body) ==
    /\ req[t].phase = "idle"
    /\ op = "verify" => asked
    /\ body # None => op \in TokenOps
    /\ req' = [req EXCEPT ![t] =
                 [phase |-> "sent", op |-> op, body |-> body,
                  jwt |-> op \in JwtOps /\ CookieFor("access", op) \in Issues,
                  cookie |-> IF op \in TokenOps
                             THEN CookieFor("refresh", op) ELSE None,
                  answer |-> NoAnswer]]
    /\ UNCHANGED <<browserVars, authVars>>

SetAuthCookiesOnePath(access, refresh) ==
    [jar EXCEPT !["access"]["/"] = access, !["refresh"]["/"] = refresh]

\* setAuthCookies: the access token for the site, the refresh token for the
\* refresh endpoint only.
SetAuthCookies(access, refresh) ==
    [jar EXCEPT !["access"]["/"] = access, !["refresh"]["/refresh"] = refresh]

\* clearAuthCookies: the same names and paths.
ClearAuthCookies ==
    [jar EXCEPT !["access"]["/"] = None, !["refresh"]["/refresh"] = None]

\* The answer arrives; the cookies it sets or clears take effect.
Arrive(t) ==
    LET answer == req[t].answer IN
    /\ req[t].phase = "answered"
    /\ req' = [req EXCEPT ![t] = NoRequest]
    /\ jar' = CASE answer.kind = "tokens" ->
                     SetAuthCookies(answer.token, answer.token)
                [] answer.clear -> ClearAuthCookies
                [] OTHER -> jar
    /\ held' = CASE answer.token \in Issues -> answer.token
                 [] answer.kind = "loggedout" -> None
                 [] OTHER -> held
    /\ asked' = (answer.kind = "mfa" \/ (asked /\ answer.kind # "tokens"))
    /\ UNCHANGED authVars

\* The request or its answer is lost.
Lose(t) ==
    /\ req[t].phase # "idle"
    /\ req' = [req EXCEPT ![t] = NoRequest]
    /\ ended' = ended \cup {family[n] : n \in Issues \cap {req[t].answer.token}}
    /\ UNCHANGED <<browserVars, issued, family, valid, mfa, challenge>>

-----------------------------------------------------------------------------
(***************************************************************************)
(* The handlers, each with its call to the auth service.                   *)
(***************************************************************************)

Answer(t, kind, token, clear) ==
    req' = [req EXCEPT ![t] = [NoRequest EXCEPT !.phase = "answered", !.answer =
              [kind |-> kind, token |-> token, clear |-> clear]]]

Serves(t, op) == req[t].phase = "sent" /\ req[t].op = op

\* writeError and its like: no cookie is touched.
Error(t) == Answer(t, "error", None, FALSE)

\* The auth service issues a pair; first begins a session of its own.
Issue(first, used) ==
    /\ issued < MaxIssues
    /\ issued' = issued + 1
    /\ family' = [family EXCEPT ![issued + 1] =
                    IF first THEN issued + 1 ELSE family[used]]
    /\ valid' = (valid \ {used}) \cup {issued + 1}

\* The body cannot be read, the auth service fails, or it refuses what the
\* request asks for.
Refused(t) ==
    /\ req[t].phase = "sent"
    /\ Error(t)
    /\ UNCHANGED <<browserVars, authVars>>

LoginIgnoringMfa(t) ==
    /\ Serves(t, "login")
    /\ IF mfa
       THEN /\ challenge' = TRUE
            /\ Answer(t, "tokens", Empty, FALSE)
            /\ UNCHANGED <<issued, family, valid>>
       ELSE /\ Issue(TRUE, None)
            /\ Answer(t, "tokens", issued + 1, FALSE)
            /\ UNCHANGED challenge
    /\ UNCHANGED <<browserVars, ended, mfa>>

\* Login with a correct password: a pair, or the challenge of the second
\* factor, with empty tokens that the handler drops.
Login(t) ==
    /\ Serves(t, "login")
    /\ IF mfa
       THEN /\ challenge' = TRUE
            /\ Answer(t, "mfa", None, FALSE)
            /\ UNCHANGED <<issued, family, valid>>
       ELSE /\ Issue(TRUE, None)
            /\ Answer(t, "tokens", issued + 1, FALSE)
            /\ UNCHANGED challenge
    /\ UNCHANGED <<browserVars, ended, mfa>>

\* MfaVerify with a correct code; the challenge can be used once.
MfaVerify(t) ==
    /\ Serves(t, "verify")
    /\ challenge
    /\ challenge' = FALSE
    /\ Issue(TRUE, None)
    /\ Answer(t, "tokens", issued + 1, FALSE)
    /\ UNCHANGED <<browserVars, ended, mfa>>

\* The token Refresh and Logout work with: the cookie before the body.
TokenOf(t) ==
    IF req[t].cookie \in {None, Empty} THEN req[t].body ELSE req[t].cookie

RefreshClearing(t) ==
    /\ Serves(t, "refresh")
    /\ IF TokenOf(t) \in valid
       THEN /\ Issue(FALSE, TokenOf(t))
            /\ Answer(t, "tokens", issued + 1, FALSE)
       ELSE /\ Answer(t, "error", None, TRUE)
            /\ UNCHANGED <<issued, family, valid>>
    /\ UNCHANGED <<browserVars, ended, mfa, challenge>>

\* Refresh: 400 without a token, 401 for one that was used or revoked, else
\* the next pair.
Refresh(t) ==
    /\ Serves(t, "refresh")
    /\ IF TokenOf(t) \in valid
       THEN /\ Issue(FALSE, TokenOf(t))
            /\ Answer(t, "tokens", issued + 1, FALSE)
       ELSE /\ Error(t)
            /\ UNCHANGED <<issued, family, valid>>
    /\ UNCHANGED <<browserVars, ended, mfa, challenge>>

\* The auth service rotates the token, but its reply does not reach the
\* gateway in time.
RefreshReplyLost(t) ==
    /\ Serves(t, "refresh")
    /\ TokenOf(t) \in valid
    /\ Issue(FALSE, TokenOf(t))
    /\ Error(t)
    /\ ended' = ended \cup {family[TokenOf(t)]}
    /\ UNCHANGED <<browserVars, mfa, challenge>>

LogoutKeepingCookies(t) ==
    /\ Serves(t, "logout")
    /\ valid' = valid \ {TokenOf(t)}
    /\ ended' = ended \cup {family[n] : n \in valid \cap {TokenOf(t)}}
    /\ Answer(t, "loggedout", None, FALSE)
    /\ UNCHANGED <<browserVars, issued, family, mfa, challenge>>

\* Logout: unlike Refresh it also makes its call without a token; what the
\* auth service says to that, or to a token it does not know, is open (its
\* refusal is Refused).
Logout(t) ==
    /\ Serves(t, "logout")
    /\ valid' = valid \ {TokenOf(t)}
    /\ ended' = ended \cup {family[n] : n \in valid \cap {TokenOf(t)}}
    /\ Answer(t, "loggedout", None, TRUE)
    /\ UNCHANGED <<browserVars, issued, family, mfa, challenge>>

\* security.GetJwt: the access token that Auth has verified (Refused stands
\* for one that has expired).
Jwt(t) == req[t].jwt

\* A new password; the auth service may revoke the sessions.
NewPassword(t) ==
    /\ \E keep \in {valid, {}} :
         /\ valid' = keep
         /\ ended' = ended \cup {family[n] : n \in valid \ keep}
    /\ Answer(t, "done", None, FALSE)
    /\ UNCHANGED <<browserVars, issued, family, mfa, challenge>>

ChangePassword(t) == Serves(t, "changePassword") /\ Jwt(t) /\ NewPassword(t)

\* With the token of the emailed link instead of a session.
ResetPassword(t) == Serves(t, "resetPassword") /\ NewPassword(t)

SetMfa(t, enabled) ==
    /\ Jwt(t)
    /\ mfa' = enabled
    /\ Answer(t, "done", None, FALSE)
    /\ UNCHANGED <<browserVars, issued, family, valid, ended, challenge>>

MfaEnable(t) == Serves(t, "mfaEnable") /\ SetMfa(t, TRUE)

MfaDisable(t) == Serves(t, "mfaDisable") /\ SetMfa(t, FALSE)

\* The rest (register, reset and verification mails, status, who am I) passes
\* one call on and neither sets nor clears a cookie.
Forward(t) ==
    /\ Serves(t, "other")
    /\ Answer(t, "done", None, FALSE)
    /\ UNCHANGED <<browserVars, authVars>>

-----------------------------------------------------------------------------

Serve(t) ==
    \/ Login(t) \/ MfaVerify(t) \/ Refresh(t) \/ Logout(t)
    \/ ChangePassword(t) \/ ResetPassword(t) \/ MfaEnable(t) \/ MfaDisable(t)
    \/ Forward(t) \/ Refused(t) \/ RefreshReplyLost(t)

Next ==
    \E t \in Tabs : \/ \E op \in Ops, body \in {None, held} : Send(t, op, body)
                    \/ Serve(t)
                    \/ Arrive(t)
                    \/ Lose(t)

Spec == Init /\ [][Next]_vars

-----------------------------------------------------------------------------
(***************************************************************************)
(* Properties.                                                             *)
(***************************************************************************)

\* The browser holds both cookies of one issue or none, in whatever order the
\* answers of several tabs arrive: no access token of one session beside the
\* refresh token of another, no rotated token beside its successor, and
\* nothing from a login that still needs its second factor ("No cookies"),
\* which takes nothing away either that an earlier login left there.
CookiesPaired ==
    /\ jar["access"]["/"] = jar["refresh"]["/refresh"]
    /\ \A c \in Cookies, p \in Paths : jar[c][p] # Empty

\* Refresh tokens can be used once, and tabs refresh at the same time with the
\* same cookie.  As long as no pair is lost on its way and the session is not
\* revoked, the loser's error does not cost the browser the session: its next
\* token is in the jar or on the way.
SessionKept ==
    held # None /\ family[held] \notin ended =>
        \E n \in valid :
            /\ family[n] = family[held]
            /\ \/ jar["refresh"]["/refresh"] = n
               \/ \E t \in Tabs : req[t].answer.token = n

\* An answered logout leaves no cookie behind, under any path.
LogoutClears ==
    [][\A t \in Tabs :
          req[t].answer.kind = "loggedout" /\ Arrive(t)
              => \A c \in Cookies, p \in Paths : jar'[c][p] = None]_vars

\* No request but t's is under way.
Alone(t) == \A u \in Tabs \ {t} : req[u] = NoRequest

\* API.md: logout will "Invalidate the current refresh token", "Request
\* (cookie): No body needed": when such a logout is served, and nothing else is
\* under way, the refresh token in the browser's jar can no longer be used.
LogoutInvalidates ==
    [][\A t \in Tabs :
          Logout(t) /\ req[t].body = None /\ Alone(t)
              => jar["refresh"]["/refresh"] \notin valid']_vars
=============================================================================
