----------------------------- MODULE MCGateway -----------------------------
(* An instance of Gateway for TLC. *)
EXTENDS Gateway

User(name, verified, admin) ==
    [subject |-> name, verified |-> verified, admin |-> admin]

\* A rider, one who has not verified the email yet, an administrator, and a
\* token that has expired.
Tokens ==
    "rider" :> User("rider", TRUE, FALSE) @@ "new" :> User("new", FALSE, FALSE)
    @@ "root" :> User("root", TRUE, TRUE) @@ "expired" :> None

UserLimits ==
    [class \in {"api", "expensive", "reroute", "tiles"} |->
        IF class = "expensive" THEN 1 ELSE 2]

IPLimits == [class \in {"auth", "public", "api"} |->
                IF class = "public" THEN 2 ELSE 1]

Route(name, path, methods, auth, forward, body) ==
    [name |-> name, path |-> path, methods |-> methods, auth |-> auth,
     forward |-> forward, maxBody |-> body, user |-> 1, ip |-> 1]

FuelPrices == api(<<"fuel", "prices", "today">>)

\* A tree, an endpoint inside it, the same name or the same pattern again,
\* paths that are not for extensions, and a route without a body limit.
Fuel   == Route("fuel", api(<<"fuel", "">>), <<"GET", "POST">>, "none", FALSE, 1)
Prices == Route("prices", FuelPrices, <<"POST">>, "user", TRUE, 3)
Same   == Route("fuel", api(<<"routes">>), <<"GET">>, "admin", TRUE, 1)
Twice  == Route("other", api(<<"fuel", "">>), <<"POST">>, "none", FALSE, 1)
Tiles  == Route("tiles", <<"v1", "tiles", "free">>, <<"GET">>, "none", FALSE, 1)
Open   == Route("open", api(<<"open">>), <<"GET">>, "none", TRUE, 1)

Files ==
    { << >>, <<Fuel, Prices>>, <<Prices, Fuel>>, <<Same>>,
      <<Fuel, Same>>, <<Fuel, Twice>>, <<Tiles>>, <<Open>> }

Ask(from, via, header, bearer, cookie, endpoint, escaped, size) ==
    [from |-> from, via |-> via, forwardedFor |-> header, bearer |-> bearer,
     cookie |-> cookie, method |-> endpoint[1], path |-> endpoint[2],
     escaped |-> escaped, size |-> size]

Login == <<"POST", api(<<"auth", "login">>)>>
Tile  == <<"GET", <<"v1", "tiles", "free">>>>

\* The same two endpoints by every way and with every header.
ByEveryWay ==
    { Ask(from, via, header, bearer, None, endpoint, {}, 1)
      : from \in {"a1", "a2"},
        via \in {<< >>, <<"p1">>, <<"p2", "p1">>},
        header \in {<< >>, <<"a2", "">>, <<"a1", "p1">>},
        bearer \in {None, "rider"},
        endpoint \in {Login, Tile} }

\* Every endpoint, with every kind of token.
EveryEndpoint ==
    { Ask("a1", << >>, << >>, token[1], token[2], <<use[1], use[2]>>, {}, use[3])
      : token \in { <<None, None>>, <<"rider", None>>, <<None, "rider">>,
                    <<"expired", "rider">>, <<"new", None>>, <<"root", None>> },
        use \in { <<"HEAD", <<"health">>, 1>>,
                  <<"POST", api(<<"auth", "refresh">>), 1>>,
                  <<"POST", api(<<"auth", "admin", "whois">>), 1>>,
                  <<"POST", api(<<"route">>), 1>>,
                  <<"POST", api(<<"route", "reroute">>), 1>>,
                  <<"GET", api(<<"routes">>), 1>>,
                  <<"GET", FuelPrices, 1>>,
                  <<"HEAD", api(<<"fuel", "">>), 1>>,
                  <<"POST", FuelPrices, 1>>,
                  <<"POST", FuelPrices, 3>> } }

\* "/api/v1/fuel%2Fprices/today" is nowhere, and "/api/v1/fuel/prices%2Ftoday"
\* is in the tree and not the endpoint inside it.
Escaped ==
    { Ask("a1", << >>, << >>, bearer, None, <<"POST", FuelPrices>>, {slash}, 1)
      : bearer \in {None, "rider"}, slash \in {4, 5} }

SomeRequests == ByEveryWay \cup EveryEndpoint \cup Escaped
=============================================================================
