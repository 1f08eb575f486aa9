------------------------------ MODULE Gateway ------------------------------
(***************************************************************************)
(* One request on its way through the gateway: the proxies in front of it, *)
(* the middleware chain auth -> rateLimit -> bodyLimit -> mux, and the     *)
(* guard of the endpoint, which is built in or configured as an extension  *)
(* route.  The rate limiter is a count of requests per key within one      *)
(* window; RateLimiter, MemoryLimiter and RedisWindow say how it is kept.  *)
(*                                                                         *)
(* A path is the sequence of its segments: "/web/x" is <<"web", "x">>, and *)
(* a trailing slash is an empty last segment.  The path of a request is    *)
(* the decoded URL.Path; the slashes that were written %2F in the URL are  *)
(* kept beside it, each by the number of the segment that follows it.      *)
(***************************************************************************)
EXTENDS Integers, Bags, SequencesExt

CONSTANTS
    TrustedProxies,  \* addresses in the CIDRs of TRUSTED_PROXIES
    Clients,         \* the addresses that requests come from
    Verify,          \* the key cache: the claims of each token, None if invalid
    Requests,        \* the requests that are made, with the way they take
    RouteFiles,      \* contents of EXTENSION_ROUTES_FILE
    UserLimit,       \* per class: requests of a signed-in user in a window
    IPLimit,         \* requests of an address: "auth", "public", or "api", which
                     \* stands for all classes that are per user
    MaxBodyBytes,    \* MAX_BODY_BYTES
    MaxRequests,     \* bound on the requests of a behaviour
    None

ASSUME GatewayAssumption ==
    /\ Clients \cap TrustedProxies = {}
    /\ "" \notin Clients \cup TrustedProxies
    /\ Clients \cup TrustedProxies \subseteq STRING
    /\ MaxRequests \in Nat /\ MaxBodyBytes \in Int
    /\ UserLimit \in [{"api", "expensive", "reroute", "tiles"} -> Nat]
    /\ IPLimit \in [{"auth", "public", "api"} -> Nat]

\* The users that tokens name.
Subjects == {Verify[t].subject : t \in {t \in DOMAIN Verify : Verify[t] # None}}

\* A request and the way it takes: through proxies that are trusted, with
\* whatever header the client has written.
Request ==
    [from: Clients, via: Seq(TrustedProxies), forwardedFor: Seq(STRING),
     bearer: DOMAIN Verify \cup {None}, cookie: DOMAIN Verify \cup {None},
     method: STRING, path: Seq(STRING), escaped: SUBSET Nat, size: Nat]

\* What a proxy or the gateway receives.
Message ==
    [from: Clients, peer: Clients \cup TrustedProxies,
     via: Seq(TrustedProxies), forwardedFor: Seq(STRING),
     bearer: DOMAIN Verify \cup {None}, cookie: DOMAIN Verify \cup {None},
     method: STRING, path: Seq(STRING), escaped: SUBSET Nat, size: Nat]

\* A route of an extension file, as it is parsed.
RouteConfig ==
    [name: STRING, path: Seq(STRING), methods: Seq(STRING), auth: STRING,
     forward: BOOLEAN, maxBody: Int, user: Int, ip: Int]

\* A user's id is not an address.
ASSUME InputAssumption ==
    /\ Requests \subseteq Request
    /\ RouteFiles \subseteq Seq(RouteConfig)
    /\ Subjects \cap Clients = {}

VARIABLES
    state,     \* of the process: "down", "up", or "refused" to start
    routes,    \* the extension routes
    msg,       \* the request under way, None between requests
    counted,   \* the limiter's window: a bag of keys
    last,      \* what became of the last request
    asked      \* history: a bag of what callers asked for, by their true names

vars == <<state, routes, msg, counted, last, asked>>

Init ==
    /\ state = "down"
    /\ routes = << >>
    /\ msg = None
    /\ counted = EmptyBag
    /\ last = None
    /\ asked = EmptyBag

-----------------------------------------------------------------------------
(***************************************************************************)
(* The route table.                                                        *)
(***************************************************************************)

api(segments) == <<"api", "v1">> \o segments

Endpoint(method, path, auth, class) ==
    [method |-> method, path |-> path, auth |-> auth, class |-> class,
     ext |-> FALSE]

\* registerRoutes: an endpoint of each kind.  class is the one that the
\* endpoint summary of API.md gives it.
BuiltIn ==
    { Endpoint("GET",  <<"health">>,                  "none",  "public"),
      Endpoint("POST", api(<<"auth", "login">>),      "none",  "auth"),
      Endpoint("POST", api(<<"auth", "refresh">>),    "none",  "api"),
      Endpoint("POST", api(<<"auth", "admin", "whois">>), "admin", "api"),
      Endpoint("POST", api(<<"route">>),              "user",  "expensive"),
      Endpoint("POST", api(<<"route", "reroute">>),   "user",  "reroute"),
      Endpoint("POST", api(<<"search", "reverse">>),  "user",  "expensive"),
      Endpoint("POST", api(<<"region", "search-box">>), "user", "api"),
      Endpoint("any",  <<"v1", "tiles", "">>,         "user",  "tiles"),
      Endpoint("any",  <<"web", "">>,                 "none",  "api") }

\* Set.Register: one pattern for each method of each extension route.
Registered(file) ==
    UNION { { [method |-> m, path |-> file[i].path, auth |-> file[i].auth,
               class |-> <<"ext", file[i].name>>, ext |-> TRUE]
              : m \in ToSet(file[i].methods) }
          : i \in DOMAIN file }

IsTree(pattern) == Last(pattern) = ""

\* A pattern that ends with a slash matches every path under it.
MatchesPath(pattern, path) ==
    IF IsTree(pattern) THEN /\ Len(path) >= Len(pattern)
                            /\ IsPrefix(Front(pattern), path)
    ELSE path = pattern

\* Of two patterns that match one path, the longer string.
Width(pattern) == 2 * Len(pattern) - (IF IsTree(pattern) THEN 1 ELSE 0)

\* The mux splits the URL at the slashes that are written as such and only then
\* decodes the segments, so none that the pattern spells out may be escaped.
\* GET patterns serve HEAD as well.
Handles(p, m) ==
    /\ MatchesPath(p.path, m.path)
    /\ m.escaped \cap (1..Len(p.path)) = {}
    /\ \/ p.method \in {"any", m.method}
       \/ p.method = "GET" /\ m.method = "HEAD"

\* The router: the most specific pattern.
Dispatch(patterns, m) ==
    LET fit == {p \in patterns : Handles(p, m)}
    IN IF fit = {} THEN None
       ELSE CHOOSE p \in fit : \A q \in fit : Width(q.path) <= Width(p.path)

-----------------------------------------------------------------------------
(***************************************************************************)
(* Starting: extension.Load, Validate and Register.                        *)
(***************************************************************************)

Reserved ==
    { api(<<"auth">>), api(<<"route">>), api(<<"search">>), api(<<"region">>),
      <<"v1", "tiles">>, <<"web">>, <<"health">>, <<"api", "openapi.yaml">> }

ValidPathAlways(path) == TRUE

\* validatePath; the characters of a segment are left out.
ValidPath(path) ==
    /\ IsPrefix(api(<< >>), path)
    /\ path \notin {api(<< >>), api(<<"">>)}
    /\ \A p \in Reserved : ~IsPrefix(p, path)

ValidLimits(r) ==
    /\ r.auth \in {"none", "user", "admin"}
    /\ r.forward => r.auth # "none"
    /\ r.maxBody > 0
    /\ r.ip > 0
    /\ r.auth # "none" => r.user > 0

\* The form of the upstream's URL is left out.
Validate(file) ==
    /\ \A i \in DOMAIN file :
          /\ file[i].name # ""
          /\ ValidPath(file[i].path)
          /\ file[i].methods # << >>
          /\ ToSet(file[i].methods) \subseteq {"GET", "POST", "PUT", "DELETE"}
          /\ Cardinality(ToSet(file[i].methods)) = Len(file[i].methods)
          /\ ValidLimits(file[i])
    /\ \A i, j \in DOMAIN file : i # j =>
          /\ file[i].name # file[j].name
          /\ \/ file[i].path # file[j].path
             \/ ToSet(file[i].methods) \cap ToSet(file[j].methods) = {}

\* Registering a pattern that is already there panics, and Register makes that
\* an error.
Clashes(file) ==
    \E p \in Registered(file), q \in BuiltIn :
        p.path = q.path /\ p.method = q.method

\* An invalid file is fatal.
Start ==
    /\ state = "down"
    /\ routes' \in RouteFiles
    /\ state' = IF Validate(routes') /\ ~Clashes(routes') THEN "up"
                ELSE "refused"
    /\ UNCHANGED <<msg, counted, last, asked>>

-----------------------------------------------------------------------------
(***************************************************************************)
(* A request and the proxies on its way.                                   *)
(***************************************************************************)

\* The client sends a request, with whatever headers it likes.
Send(r) ==
    /\ state = "up"
    /\ msg = None
    /\ BagCardinality(asked) < MaxRequests
    /\ msg' = [from |-> r.from, peer |-> r.from, via |-> r.via,
               forwardedFor |-> r.forwardedFor, bearer |-> r.bearer,
               cookie |-> r.cookie, method |-> r.method, path |-> r.path,
               escaped |-> r.escaped, size |-> r.size]
    /\ last' = None
    /\ UNCHANGED <<state, routes, counted, asked>>

\* A proxy appends the peer it sees and passes the request on.
Forward ==
    /\ msg # None
    /\ msg.via # << >>
    /\ msg' = [msg EXCEPT !.forwardedFor = Append(@, msg.peer),
                          !.peer = Head(msg.via), !.via = Tail(msg.via)]
    /\ UNCHANGED <<state, routes, counted, last, asked>>

-----------------------------------------------------------------------------
(***************************************************************************)
(* middleware.Auth.                                                        *)
(***************************************************************************)

LastAmong(list, indices) == list[CHOOSE i \in indices : \A j \in indices : j <= i]

ClientIPFromTheLeft(m) ==
    LET others == {i \in DOMAIN m.forwardedFor :
                      m.forwardedFor[i] \notin TrustedProxies \cup {""}}
    IN IF m.peer \notin TrustedProxies \/ others = {} THEN m.peer
       ELSE m.forwardedFor[CHOOSE i \in others : \A j \in others : i <= j]

ClientIPLastEntry(m) ==
    IF m.peer \notin TrustedProxies \/ m.forwardedFor = << >> THEN m.peer
    ELSE Last(m.forwardedFor)

\* clientIP: behind a trusted proxy, the rightmost address that is not one.
ClientIP(m) ==
    LET others == {i \in DOMAIN m.forwardedFor :
                      m.forwardedFor[i] \notin TrustedProxies \cup {""}}
    IN IF m.peer \notin TrustedProxies \/ others = {} THEN m.peer
       ELSE LastAmong(m.forwardedFor, others)

\* The bearer token goes before the cookie, also when it is not valid.
Token(m) == IF m.bearer # None THEN m.bearer ELSE m.cookie

Claims(m) == IF Token(m) = None THEN None ELSE Verify[Token(m)]

\* The token as a handler finds it in the context: verified.
Jwt(m) == IF Claims(m) = None THEN None ELSE Token(m)

RequireVerifiedUser(m) ==
    IF Claims(m) = None THEN "unauthorized"
    ELSE IF Claims(m).verified THEN "ok" ELSE "forbidden"

RequireAdmin(m) ==
    IF Claims(m) = None THEN "unauthorized"
    ELSE IF Claims(m).admin THEN "ok" ELSE "forbidden"

\* The guard around an endpoint, for the level it asks for.
Guard(auth, m) ==
    CASE auth = "none"  -> "ok"
      [] auth = "user"  -> RequireVerifiedUser(m)
      [] auth = "admin" -> RequireAdmin(m)

-----------------------------------------------------------------------------
(***************************************************************************)
(* middleware.RateLimit and BodyLimitWith.                                 *)
(***************************************************************************)

\* The routes that take the request, by their place in the file: matchesPath,
\* on the decoded path, and hasMethod.
Candidates(m) ==
    {i \in DOMAIN routes : /\ MatchesPath(routes[i].path, m.path)
                           /\ m.method \in ToSet(routes[i].methods)}

MatchFirst(m) ==
    LET fit == Candidates(m)
    IN IF fit = {} THEN None
       ELSE routes[CHOOSE i \in fit : \A j \in fit : i <= j]

\* Set.Match: the longest path of the routes that have the method.
Match(m) ==
    LET fit == Candidates(m)
    IN IF fit = {} THEN None
       ELSE routes[CHOOSE i \in fit :
                      \A j \in fit : \/ Width(routes[j].path) < Width(routes[i].path)
                                     \/ /\ Width(routes[j].path) = Width(routes[i].path)
                                        /\ i <= j]

LimitsOf(r) ==
    [name |-> r.name, user |-> r.user, ip |-> r.ip, perIPOnly |-> r.auth = "none"]

\* Set.RateClass: the limits that go with it.
RateClass(m) == IF Match(m) = None THEN None ELSE LimitsOf(Match(m))

\* Segments that begin with "route"; as a prefix, "/api/v1/route" also covers
\* a longer word.
RouteLike == {"route", "routes"}

\* endpointClass.
EndpointClass(path) ==
    CASE path = api(<<"auth", "login">>)                    -> "auth"
      [] path = <<"health">>                                -> "public"
      [] MatchesPath(<<"v1", "tiles", "">>, path)           -> "tiles"
      [] path = api(<<"route", "reroute">>)                 -> "reroute"
      [] /\ path # api(<<"route", "reroute">>)
         /\ Len(path) >= 3 /\ IsPrefix(api(<< >>), path)
         /\ path[3] \in RouteLike \cup {"search"}           -> "expensive"
      [] OTHER                                              -> "api"

PerUser(class) == class \notin {"auth", "public"}

\* Without a user, the classes that are per user have one limit.
AddressLimit(class) == IPLimit[IF PerUser(class) THEN "api" ELSE class]

Key(class, by, id) == [class |-> class, by |-> by, id |-> id]

\* The key a request is counted under, and the limit for that key.
RateKey(m) ==
    LET ext == RateClass(m)
        builtin == EndpointClass(m.path)
        class == IF ext # None THEN <<"ext", ext.name>> ELSE <<"built-in", builtin>>
        perUser == IF ext # None THEN ~ext.perIPOnly ELSE PerUser(builtin)
    IN IF perUser /\ Claims(m) # None
       THEN [key   |-> Key(class, "user", Claims(m).subject),
             limit |-> IF ext # None THEN ext.user ELSE UserLimit[builtin]]
       ELSE [key   |-> Key(class, "ip", ClientIP(m)),
             limit |-> IF ext # None THEN ext.ip ELSE AddressLimit(builtin)]

\* Zero or less is no limit.
BodyLimit(m) == IF Match(m) # None THEN Match(m).maxBody ELSE MaxBodyBytes

\* The extension route that a registered pattern belongs to: the one its
\* handler was made for.
Owner(p) == CHOOSE r \in ToSet(routes) : p.class = <<"ext", r.name>>

\* prepareUpstreamRequest: the upstream sees the verified token or none.
Forwarded(p, m) == IF p.ext /\ Owner(p).forward THEN Jwt(m) ELSE None

Patterns == BuiltIn \cup Registered(routes)

\* None is none of the things it stands beside.
ASSUME NoneAssumption ==
    /\ None \notin Message /\ None \notin BuiltIn /\ None \notin DOMAIN Verify
    /\ \A file \in RouteFiles :
          /\ None \notin Registered(file)
          /\ \A r \in ToSet(file) : None \notin {r, LimitsOf(r)}

\* What the mux and the endpoint's guard and handler make of an admitted
\* request.  (What the handler or the upstream answers is left out.)
Outcome(m) ==
    LET p == Dispatch(Patterns, m) IN
    CASE p = None                             -> "not found"
      [] p # None /\ Guard(p.auth, m) # "ok"  -> Guard(p.auth, m)
      [] p # None /\ Guard(p.auth, m) = "ok"  ->
            IF BodyLimit(m) > 0 /\ m.size > BodyLimit(m) THEN "too large"
            ELSE "served"

Report(status, m) ==
    [status |-> status, msg |-> m, key |-> RateKey(m).key,
     bodyLimit |-> BodyLimit(m),
     forwarded |-> LET p == Dispatch(Patterns, m) IN
                   IF status = "served" THEN Forwarded(p, m) ELSE None]

-----------------------------------------------------------------------------
(***************************************************************************)
(* Who asks for what, told apart from how the gateway finds it out: by the *)
(* address the request really came from, the user of the verified token,   *)
(* and the endpoint that its decoded path names.                           *)
(***************************************************************************)

Unescaped(m) == [m EXCEPT !.escaped = {}]

\* The endpoint for the request's path, however its slashes were written.
Asked(m) == Dispatch(Patterns, Unescaped(m))

\* (The router serves HEAD with the GET pattern of an extension route, and Match
\* does not see such a request: it is asked of the general class.)
Account(m) ==
    LET p == Asked(m)
        ext == p # None /\ p.ext /\ m.method # "HEAD"
        name == IF p # None /\ ~p.ext THEN p.class ELSE EndpointClass(m.path)
        class == IF ext THEN p.class ELSE <<"built-in", name>>
        perUser == IF ext THEN p.auth # "none" ELSE PerUser(name)
    IN IF perUser /\ Claims(m) # None
       THEN [caller |-> Claims(m).subject, class |-> class,
             budget |-> IF ext THEN Owner(p).user ELSE UserLimit[name]]
       ELSE [caller |-> m.from, class |-> class,
             budget |-> IF ext THEN Owner(p).ip ELSE AddressLimit(name)]

\* How often a bag holds x.
Copies(x, bag) == IF x \in BagToSet(bag) THEN bag[x] ELSE 0

Arrived == msg # None /\ msg.via = << >>

\* The limiter counts the request and decides; the chain goes on or ends.
Serve ==
    /\ Arrived
    /\ counted' = counted (+) SetToBag({RateKey(msg).key})
    /\ asked' = asked (+) SetToBag({Account(msg)})
    /\ last' = Report(IF Copies(RateKey(msg).key, counted') <= RateKey(msg).limit
                      THEN Outcome(msg) ELSE "rate limited", msg)
    /\ msg' = None
    /\ UNCHANGED <<state, routes>>

\* The limiter returns an error (deny mode): the request is refused, uncounted.
LimiterFails ==
    /\ Arrived
    /\ last' = Report("limiter error", msg)
    /\ msg' = None
    /\ UNCHANGED <<state, routes, counted, asked>>

\* The bound is reached, or there is no gateway.
Finished ==
    /\ \/ state = "refused"
       \/ state = "up" /\ msg = None /\ BagCardinality(asked) >= MaxRequests
    /\ UNCHANGED vars

Next ==
    \/ Start
    \/ \E r \in Requests : Send(r)
    \/ Forward
    \/ Serve
    \/ LimiterFails
    \/ Finished

Spec == Init /\ [][Next]_vars

-----------------------------------------------------------------------------

\* The limiter has counted under key k what was asked of account a.
SameCount(k, a) ==
    /\ k.class = a.class /\ k.id = a.caller
    /\ Copies(k, counted) = Copies(a, asked)

\* Requests are counted under a user, or under an address: never a proxy's,
\* and never a blank in a header; and what is counted is what was asked.
TypeOK ==
    /\ state \in {"down", "up", "refused"}
    /\ routes \in RouteFiles \cup {<< >>}
    /\ msg \in Message \cup {None}
    /\ \A k \in BagToSet(counted) :
          k.id \in IF k.by = "user" THEN Subjects ELSE Clients
    /\ \A a \in BagToSet(asked) : a.caller \in Subjects \cup Clients
    /\ \A k \in BagToSet(counted) : \E a \in BagToSet(asked) : SameCount(k, a)
    /\ \A a \in BagToSet(asked) : \E k \in BagToSet(counted) : SameCount(k, a)

\* A caller is turned away by the rate limit exactly when it has used up its
\* own budget for what it asks: nobody gets more by writing addresses into
\* X-Forwarded-For, coming by another proxy or presenting bad tokens, nobody
\* uses up what is another's, and planning routes leaves the budget for
\* reroutes alone.
BudgetIsOwn ==
    [][Arrived /\ msg' = None /\ last'.status # "limiter error"
       => (last'.status = "rate limited" <=>
              Copies(Account(msg), asked) >= Account(msg).budget)]_vars

\* Extension routes take no request away from a built-in endpoint, whichever
\* file passed Validate.
BuiltInsStay ==
    msg # None /\ Dispatch(BuiltIn, msg) # None =>
        Dispatch(Patterns, msg) = Dispatch(BuiltIn, msg)

\* A request that reaches an extension's upstream passed under the limits of the
\* route that its decoded path names, which is what Match compares.  That is the
\* route that serves it, and the token it carries there is the verified one of
\* the caller who was charged, unless a slash is escaped: then the request may
\* be served by a tree around that route, and by nothing else.  (HEAD, which the
\* router serves with GET patterns and hasMethod compares exactly, is excepted.)
LimitsOfTheRoute ==
    last # None /\ last.status = "served" /\ last.msg.method # "HEAD" =>
        LET p == Dispatch(Patterns, last.msg)
            q == Asked(last.msg)
        IN p.ext =>
              /\ last.key.class = q.class
              /\ last.msg.size <= Owner(q).maxBody
              /\ q # p => IsTree(p.path) /\ Width(p.path) < Width(q.path)
              /\ q = p /\ last.forwarded # None =>
                    /\ last.key.by = "user"
                    /\ Verify[last.forwarded].subject = last.key.id
=============================================================================
