--------------------------- MODULE GatewayProofs ---------------------------
(***************************************************************************)
(* Theorems about Gateway, for every set of clients, proxies, tokens,      *)
(* requests and route files and every limit.                               *)
(***************************************************************************)
EXTENDS Gateway, SequenceTheorems, WellFoundedInduction, TLAPS

-----------------------------------------------------------------------------
(***************************************************************************)
(* Paths and patterns.                                                     *)
(***************************************************************************)

\* The words of the built-in paths.  (They are strings, which the provers do
\* not know.)
Word ==
    STRING \cup { "", "api", "v1", "health", "auth", "login", "refresh", "admin",
                  "whois", "route", "reroute", "search", "reverse", "region",
                  "search-box", "tiles", "web", "openapi.yaml" }

Path == Seq(Word)

\* Of some numbers one is the least.
LEMMA LeastOf ==
    ASSUME NEW T, T \subseteq Nat, T # {}
    PROVE  \E x \in T : \A y \in T : x <= y
<1> DEFINE R == OpToRel(<, Nat)
<1>1. \A x, y \in Nat : x < y => <<x, y>> \in R
  BY SMT DEF OpToRel
<1>2. IsWellFoundedOn(R, Nat)
  BY NatLessThanWellFounded, Zenon
<1> HIDE DEF R
<1>3. PICK x \in T : \A y \in T : ~(<<y, x>> \in R)
  BY <1>2, WFMin
<1>4. ASSUME NEW y \in T
      PROVE  x <= y
  <2>1. x \in Nat /\ y \in Nat /\ ~(y < x)
    BY <1>1, <1>3
  <2> QED
    BY <2>1
<1> QED
  BY <1>4

\* A prefix, by its elements.
LEMMA PrefixElements ==
    ASSUME NEW S, NEW s \in Seq(S), NEW t \in Seq(S)
    PROVE  IsPrefix(s, t) <=>
              (Len(s) <= Len(t) /\ \A i \in 1..Len(s) : s[i] = t[i])
BY DEF IsPrefix

\* What api puts in front of a path.
LEMMA ApiPath ==
    ASSUME NEW s \in Path
    PROVE  /\ api(s) \in Path
           /\ Len(api(s)) = Len(s) + 2
           /\ api(s)[1] = "api" /\ api(s)[2] = "v1"
           /\ \A i \in 1..Len(s) : api(s)[i + 2] = s[i]
<1> DEFINE b == <<"api", "v1">>
<1>1. b \in Path /\ Len(b) = 2 /\ b[1] = "api" /\ b[2] = "v1"
  <2>1. "api" \in Word /\ "v1" \in Word
    BY Zenon DEF Word
  <2> QED
    BY <2>1 DEF Path
<1>2. api(s) = b \o s
  BY DEF api
<1> HIDE DEF b
<1>3. /\ b \o s \in Path
      /\ Len(b \o s) = Len(b) + Len(s)
      /\ \A i \in 1..Len(b) + Len(s) : (b \o s)[i] =
            IF i <= Len(b) THEN b[i] ELSE s[i - Len(b)]
  BY <1>1, ConcatProperties DEF Path
<1>4. Len(s) \in Nat
  BY DEF Path
<1> QED
  BY <1>1, <1>2, <1>3, <1>4

\* Which paths a pattern matches, by their elements.
LEMMA MatchElements ==
    ASSUME NEW p \in Path, p # << >>, NEW path \in Path, MatchesPath(p, path)
    PROVE  /\ Len(p) \in Nat /\ Len(p) >= 1 /\ Len(path) \in Nat
           /\ IsTree(p) => /\ Len(path) >= Len(p)
                           /\ \A i \in 1..Len(p) - 1 : path[i] = p[i]
           /\ ~IsTree(p) => path = p
<1>1. Len(p) \in Nat /\ Len(p) >= 1 /\ Len(path) \in Nat
  BY DEF Path
<1>2. CASE IsTree(p)
  <2> DEFINE f == Front(p)
  <2>1. IsPrefix(f, path) /\ Len(path) >= Len(p)
    BY <1>2 DEF MatchesPath
  <2>2. f \in Path /\ Len(f) = Len(p) - 1 /\ \A i \in 1..Len(p) - 1 : f[i] = p[i]
    <3> DEFINE n == Len(p) - 1
    <3>1. n \in Int /\ n >= 0 /\ f = SubSeq(p, 1, n)
      BY <1>1 DEF Front
    <3>2. \A i \in 1..n : p[i] \in Word
      BY <1>1 DEF Path
    <3> HIDE DEF n, f
    <3>3. /\ SubSeq(p, 1, n) \in Seq(Word)
          /\ Len(SubSeq(p, 1, n)) = IF 1 <= n THEN n - 1 + 1 ELSE 0
          /\ \A i \in 1..n - 1 + 1 : SubSeq(p, 1, n)[i] = p[1 + i - 1]
      BY <3>1, <3>2, SubSeqProperties
    <3>4. f \in Path /\ Len(f) = n
      BY <3>1, <3>3 DEF Path
    <3>5. \A i \in 1..n : f[i] = p[i]
      BY <3>1, <3>3
    <3> QED
      BY <3>4, <3>5 DEF n
  <2> HIDE DEF f
  <2>3. \A i \in 1..Len(f) : f[i] = path[i]
    BY <2>1, <2>2, PrefixElements DEF Path
  <2> QED
    BY <1>1, <1>2, <2>1, <2>2, <2>3
<1>3. CASE ~IsTree(p)
  BY <1>1, <1>3 DEF MatchesPath
<1> QED
  BY <1>1, <1>2, <1>3

\* Width, without IF.
LEMMA WidthCases ==
    ASSUME NEW p \in Path
    PROVE  /\ Len(p) \in Nat
           /\ IsTree(p) => Width(p) = 2 * Len(p) - 1
           /\ ~IsTree(p) => Width(p) = 2 * Len(p)
<1>1. Len(p) \in Nat
  BY DEF Path
<1> QED
  BY <1>1 DEF Width

\* The width of a pattern that matches a path is bounded by the path's.
LEMMA WidthBound ==
    ASSUME NEW p \in Path, p # << >>, NEW path \in Path, MatchesPath(p, path)
    PROVE  /\ Width(p) \in Nat
           /\ 2 * Len(path) - Width(p) \in Nat
<1>1. /\ Len(p) \in Nat /\ Len(p) >= 1 /\ Len(path) \in Nat
      /\ IsTree(p) => Len(path) >= Len(p)
      /\ ~IsTree(p) => path = p
  BY MatchElements
<1>2. /\ IsTree(p) => Width(p) = 2 * Len(p) - 1
      /\ ~IsTree(p) => Width(p) = 2 * Len(p)
  BY WidthCases
<1>3. CASE IsTree(p)
  BY <1>1, <1>2, <1>3
<1>4. CASE ~IsTree(p)
  BY <1>1, <1>2, <1>4
<1> QED
  BY <1>3, <1>4

\* Two patterns of one width that match the same path are the same: what the
\* router and Set.Match call the most specific pattern is unique.
LEMMA WidthDecides ==
    ASSUME NEW p \in Path, p # << >>, NEW q \in Path, q # << >>,
           NEW path \in Path, MatchesPath(p, path), MatchesPath(q, path),
           Width(p) = Width(q)
    PROVE  p = q
<1>1. /\ Len(p) \in Nat /\ Len(p) >= 1 /\ Len(path) \in Nat
      /\ IsTree(p) => /\ Len(path) >= Len(p)
                      /\ \A i \in 1..Len(p) - 1 : path[i] = p[i]
      /\ ~IsTree(p) => path = p
  BY MatchElements
<1>2. /\ Len(q) \in Nat /\ Len(q) >= 1
      /\ IsTree(q) => /\ Len(path) >= Len(q)
                      /\ \A i \in 1..Len(q) - 1 : path[i] = q[i]
      /\ ~IsTree(q) => path = q
  BY MatchElements
<1>3. /\ IsTree(p) => Width(p) = 2 * Len(p) - 1
      /\ ~IsTree(p) => Width(p) = 2 * Len(p)
      /\ IsTree(q) => Width(q) = 2 * Len(q) - 1
      /\ ~IsTree(q) => Width(q) = 2 * Len(q)
  BY WidthCases
<1>4. (IsTree(p) <=> IsTree(q)) /\ Len(p) = Len(q)
  BY <1>1, <1>2, <1>3
<1>5. CASE ~IsTree(p)
  BY <1>1, <1>2, <1>4, <1>5
<1>6. CASE IsTree(p)
  <2>1. ASSUME NEW i \in 1..Len(p)
        PROVE  p[i] = q[i]
    <3>1. CASE i = Len(p)
      BY <1>4, <1>6, <3>1 DEF IsTree, Last
    <3>2. CASE i # Len(p)
      <4>1. i \in 1..Len(p) - 1 /\ i \in 1..Len(q) - 1
        BY <1>1, <1>4, <3>2
      <4> QED
        BY <1>1, <1>2, <1>4, <1>6, <4>1
    <3> QED
      BY <3>1, <3>2
  <2> QED
    BY <1>4, <2>1, SeqEqual DEF Path
<1> QED
  BY <1>5, <1>6

\* Among patterns that match a path one is the widest.
LEMMA WidestExists ==
    ASSUME NEW fit, NEW path \in Path, fit # {},
           \A p \in fit : /\ p.path \in Path /\ p.path # << >>
                          /\ MatchesPath(p.path, path)
    PROVE  \E p \in fit : \A q \in fit : Width(q.path) <= Width(p.path)
<1> DEFINE T == {2 * Len(path) - Width(p.path) : p \in fit}
<1>1. \A p \in fit : /\ Width(p.path) \in Nat
                     /\ 2 * Len(path) - Width(p.path) \in Nat
  BY WidthBound
<1>2. T \subseteq Nat /\ T # {}
  BY <1>1
<1>3. PICK x \in T : \A y \in T : x <= y
  BY <1>2, LeastOf
<1>4. PICK p \in fit : x = 2 * Len(path) - Width(p.path)
  BY <1>3
<1>5. Len(path) \in Nat
  BY DEF Path
<1>6. ASSUME NEW q \in fit
      PROVE  Width(q.path) <= Width(p.path)
  <2>1. 2 * Len(path) - Width(p.path) <= 2 * Len(path) - Width(q.path)
    BY <1>3, <1>4
  <2> QED
    BY <1>1, <1>5, <2>1
<1> QED
  BY <1>6

-----------------------------------------------------------------------------
(***************************************************************************)
(* The built-in paths, and those that Validate leaves to extensions.       *)
(***************************************************************************)

\* A path of one word under "/api/v1".
LEMMA ApiWord ==
    ASSUME NEW w \in Word
    PROVE  /\ api(<<w>>) \in Path /\ Len(api(<<w>>)) = 3
           /\ api(<<w>>)[1] = "api" /\ api(<<w>>)[2] = "v1" /\ api(<<w>>)[3] = w
<1> DEFINE s == <<w>>
<1>1. s \in Path /\ Len(s) = 1 /\ s[1] = w
  BY DEF Path
<1> HIDE DEF s
<1>2. /\ api(s) \in Path /\ Len(api(s)) = Len(s) + 2
      /\ api(s)[1] = "api" /\ api(s)[2] = "v1"
      /\ \A i \in 1..Len(s) : api(s)[i + 2] = s[i]
  BY <1>1, ApiPath
<1>3. Len(api(s)) = 3 /\ api(s)[3] = s[1]
  BY <1>1, <1>2
<1> QED
  BY <1>1, <1>2, <1>3 DEF s

\* Two words.
LEMMA ApiWords ==
    ASSUME NEW v \in Word, NEW w \in Word
    PROVE  /\ api(<<v, w>>) \in Path /\ Len(api(<<v, w>>)) = 4
           /\ api(<<v, w>>)[1] = "api" /\ api(<<v, w>>)[2] = "v1"
           /\ api(<<v, w>>)[3] = v /\ api(<<v, w>>)[4] = w
<1> DEFINE s == <<v, w>>
<1>1. s \in Path /\ Len(s) = 2 /\ s[1] = v /\ s[2] = w
  BY DEF Path
<1> HIDE DEF s
<1>2. /\ api(s) \in Path /\ Len(api(s)) = Len(s) + 2
      /\ api(s)[1] = "api" /\ api(s)[2] = "v1"
      /\ \A i \in 1..Len(s) : api(s)[i + 2] = s[i]
  BY <1>1, ApiPath
<1>3. Len(api(s)) = 4 /\ api(s)[3] = s[1] /\ api(s)[4] = s[2]
  BY <1>1, <1>2
<1> QED
  BY <1>1, <1>2, <1>3 DEF s

\* A path that has a word under "/api/v1".
LEMMA UnderApi ==
    ASSUME NEW w \in Word, NEW path \in Path, Len(path) >= 3,
           path[1] = "api", path[2] = "v1", path[3] = w
    PROVE  IsPrefix(api(<<w>>), path)
<1> DEFINE s == api(<<w>>)
<1>1. s \in Path /\ Len(s) = 3 /\ s[1] = "api" /\ s[2] = "v1" /\ s[3] = w
  BY ApiWord
<1> HIDE DEF s
<1>2. \A i \in 1..3 : i = 1 \/ i = 2 \/ i = 3
  OBVIOUS
<1>3. \A i \in 1..3 : s[i] = path[i]
  BY <1>1, <1>2
<1>4. Len(s) <= Len(path) /\ \A i \in 1..Len(s) : s[i] = path[i]
  BY <1>1, <1>3
<1>5. IsPrefix(s, path)
  BY <1>1, <1>4, PrefixElements DEF Path
<1> QED
  BY <1>5 DEF s

\* The paths an extension may have: below "/api/v1", and not among the
\* built-in ones.
Free(path) ==
    /\ path[1] = "api" /\ path[2] = "v1"
    /\ path[3] \notin {"auth", "route", "search", "region"}

\* What validatePath leaves.
LEMMA ValidPathIsFree ==
    ASSUME NEW p \in Path, ValidPath(p)
    PROVE  Len(p) >= 3 /\ Free(p) /\ (Len(p) = 3 => ~IsTree(p))
<1> DEFINE e == << >>
<1>1. e \in Path /\ Len(e) = 0
  BY DEF Path
<1>2. api(e) \in Path /\ Len(api(e)) = 2
      /\ api(e)[1] = "api" /\ api(e)[2] = "v1"
  <2>1. /\ api(e) \in Path /\ Len(api(e)) = Len(e) + 2
        /\ api(e)[1] = "api" /\ api(e)[2] = "v1"
    BY <1>1, ApiPath
  <2> QED
    BY <1>1, <2>1
<1>3. IsPrefix(api(e), p) /\ p # api(e) /\ p # api(<<"">>)
  BY DEF ValidPath
<1>4. \A q \in Reserved : ~IsPrefix(q, p)
  BY DEF ValidPath
<1> HIDE DEF e
<1> DEFINE a == api(e)
<1>5. a \in Path /\ Len(a) = 2 /\ IsPrefix(a, p) /\ p # a
  BY <1>2, <1>3
<1> HIDE DEF a
<1>6. Len(p) \in Nat /\ Len(p) >= 2 /\ \A i \in 1..2 : a[i] = p[i]
  <2>1. Len(a) <= Len(p) /\ \A i \in 1..Len(a) : a[i] = p[i]
    BY <1>5, PrefixElements DEF Path
  <2>2. Len(p) \in Nat
    BY DEF Path
  <2> QED
    BY <1>5, <2>1, <2>2
<1>7. Len(p) >= 3
  <2>1. ASSUME Len(p) = 2
        PROVE  FALSE
    <3>1. Len(a) = Len(p) /\ \A i \in 1..Len(p) : p[i] = a[i]
      BY <1>5, <1>6, <2>1
    <3>2. p = a
      BY <1>5, <3>1, SeqEqual DEF Path
    <3> QED
      BY <1>5, <3>2
  <2>2. \A n \in Nat : n >= 2 => n = 2 \/ n >= 3
    OBVIOUS
  <2> QED
    BY <1>6, <2>1, <2>2
<1>8. p[1] = "api" /\ p[2] = "v1"
  <2>1. p[1] = a[1] /\ p[2] = a[2]
    BY <1>6
  <2> QED
    BY <1>2, <2>1 DEF a
<1>9. ASSUME NEW w \in {"auth", "route", "search", "region"}
      PROVE  p[3] # w
  <2>1. w \in Word
    BY Zenon DEF Word
  <2>2. api(<<w>>) \in Reserved
    BY DEF Reserved
  <2>3. ~IsPrefix(api(<<w>>), p)
    BY <1>4, <2>2
  <2> QED
    BY <1>7, <1>8, <2>1, <2>3, UnderApi
<1>10. ASSUME Len(p) = 3, IsTree(p)
       PROVE  FALSE
  <2> DEFINE s == api(<<"">>)
  <2>1. "" \in Word
    BY Zenon DEF Word
  <2>2. s \in Path /\ Len(s) = 3 /\ s[1] = "api" /\ s[2] = "v1" /\ s[3] = ""
    BY <2>1, ApiWord
  <2> HIDE DEF s
  <2>3. p[3] = ""
    BY <1>10 DEF IsTree, Last
  <2>4. \A i \in 1..3 : i = 1 \/ i = 2 \/ i = 3
    OBVIOUS
  <2>5. \A i \in 1..3 : s[i] = p[i]
    BY <1>8, <2>2, <2>3, <2>4
  <2>6. p = s
    BY <1>10, <2>2, <2>5, SeqEqual DEF Path
  <2> QED
    BY <1>3, <2>6 DEF s
<1>11. Free(p)
  BY <1>8, <1>9 DEF Free
<1> QED
  BY <1>7, <1>10, <1>11

\* Whatever an extension's pattern matches is such a path.
LEMMA ExtensionMatchesFree ==
    ASSUME NEW p \in Path, ValidPath(p), NEW path \in Path, MatchesPath(p, path)
    PROVE  p # << >> /\ Len(path) >= 3 /\ Free(path)
<1>1. Len(p) >= 3 /\ (Len(p) = 3 => ~IsTree(p))
  BY ValidPathIsFree
<1>2. Free(p)
  BY ValidPathIsFree
<1>3. p # << >>
  BY <1>1
<1>4. /\ Len(p) \in Nat /\ Len(p) >= 1 /\ Len(path) \in Nat
      /\ IsTree(p) => /\ Len(path) >= Len(p)
                      /\ \A i \in 1..Len(p) - 1 : path[i] = p[i]
      /\ ~IsTree(p) => path = p
  BY <1>3, MatchElements
<1>5. CASE ~IsTree(p)
  BY <1>1, <1>2, <1>3, <1>4, <1>5
<1>6. CASE IsTree(p)
  <2>1. Len(p) >= 4
    <3>1. \A n \in Nat : n >= 3 => n = 3 \/ n >= 4
      OBVIOUS
    <3> QED
      BY <1>1, <1>4, <1>6, <3>1
  <2>2. 1 \in 1..Len(p) - 1 /\ 2 \in 1..Len(p) - 1 /\ 3 \in 1..Len(p) - 1
    BY <1>4, <2>1
  <2>3. path[1] = p[1] /\ path[2] = p[2] /\ path[3] = p[3]
    BY <1>4, <1>6, <2>2
  <2>4. Free(path)
    BY <1>2, <2>3 DEF Free
  <2>5. Len(path) >= 3
    BY <1>4, <1>6, <2>1
  <2> QED
    BY <1>3, <2>4, <2>5
<1> QED
  BY <1>5, <1>6

\* The endpoints of registerRoutes.
LEMMA BuiltInCases ==
    ASSUME NEW b \in BuiltIn
    PROVE  /\ b.ext = FALSE /\ b.auth \in {"none", "user", "admin"}
           /\ \/ b.path = <<"health">> /\ b.class = "public"
              \/ b.path = api(<<"auth", "login">>) /\ b.class = "auth"
              \/ b.path = api(<<"auth", "refresh">>) /\ b.class = "api"
              \/ b.path = api(<<"auth", "admin", "whois">>) /\ b.class = "api"
              \/ b.path = api(<<"route">>) /\ b.class = "expensive"
              \/ b.path = api(<<"route", "reroute">>) /\ b.class = "reroute"
              \/ b.path = api(<<"search", "reverse">>) /\ b.class = "expensive"
              \/ b.path = api(<<"region", "search-box">>) /\ b.class = "api"
              \/ b.path = <<"v1", "tiles", "">> /\ b.class = "tiles"
              \/ b.path = <<"web", "">> /\ b.class = "api"
<1>1. \/ b = Endpoint("GET",  <<"health">>, "none", "public")
      \/ b = Endpoint("POST", api(<<"auth", "login">>), "none", "auth")
      \/ b = Endpoint("POST", api(<<"auth", "refresh">>), "none", "api")
      \/ b = Endpoint("POST", api(<<"auth", "admin", "whois">>), "admin", "api")
      \/ b = Endpoint("POST", api(<<"route">>), "user", "expensive")
      \/ b = Endpoint("POST", api(<<"route", "reroute">>), "user", "reroute")
      \/ b = Endpoint("POST", api(<<"search", "reverse">>), "user", "expensive")
      \/ b = Endpoint("POST", api(<<"region", "search-box">>), "user", "api")
      \/ b = Endpoint("any",  <<"v1", "tiles", "">>, "user", "tiles")
      \/ b = Endpoint("any",  <<"web", "">>, "none", "api")
  BY Zenon DEF BuiltIn
<1>2. CASE b = Endpoint("GET",  <<"health">>, "none", "public")
  BY <1>2 DEF Endpoint
<1>3. CASE b = Endpoint("POST", api(<<"auth", "login">>), "none", "auth")
  BY <1>3 DEF Endpoint
<1>4. CASE b = Endpoint("POST", api(<<"auth", "refresh">>), "none", "api")
  BY <1>4 DEF Endpoint
<1>5. CASE b = Endpoint("POST", api(<<"auth", "admin", "whois">>), "admin", "api")
  BY <1>5 DEF Endpoint
<1>6. CASE b = Endpoint("POST", api(<<"route">>), "user", "expensive")
  BY <1>6 DEF Endpoint
<1>7. CASE b = Endpoint("POST", api(<<"route", "reroute">>), "user", "reroute")
  BY <1>7 DEF Endpoint
<1>8. CASE b = Endpoint("POST", api(<<"search", "reverse">>), "user", "expensive")
  BY <1>8 DEF Endpoint
<1>9. CASE b = Endpoint("POST", api(<<"region", "search-box">>), "user", "api")
  BY <1>9 DEF Endpoint
<1>10. CASE b = Endpoint("any",  <<"v1", "tiles", "">>, "user", "tiles")
  BY <1>10 DEF Endpoint
<1>11. CASE b = Endpoint("any",  <<"web", "">>, "none", "api")
  BY <1>11 DEF Endpoint
<1> QED
  BY <1>1, <1>2, <1>3, <1>4, <1>5, <1>6, <1>7, <1>8, <1>9, <1>10, <1>11, Zenon

\* The words that the built-in paths are made of.
LEMMA Words ==
    /\ "" \in Word /\ "api" \in Word /\ "v1" \in Word /\ "health" \in Word
    /\ "auth" \in Word /\ "login" \in Word /\ "refresh" \in Word
    /\ "admin" \in Word /\ "whois" \in Word /\ "route" \in Word
    /\ "reroute" \in Word /\ "search" \in Word /\ "reverse" \in Word
    /\ "region" \in Word /\ "search-box" \in Word /\ "tiles" \in Word
    /\ "web" \in Word
BY Zenon DEF Word

\* "/health", the two trees, and the one path of three words.
LEMMA OtherPaths ==
    /\ <<"health">> \in Path /\ Len(<<"health">>) = 1 /\ <<"health">>[1] = "health"
    /\ <<"v1", "tiles", "">> \in Path /\ Len(<<"v1", "tiles", "">>) = 3
    /\ <<"v1", "tiles", "">>[1] = "v1" /\ <<"v1", "tiles", "">>[3] = ""
    /\ <<"web", "">> \in Path /\ Len(<<"web", "">>) = 2
    /\ <<"web", "">>[1] = "web" /\ <<"web", "">>[2] = ""
<1>1. \A w \in Word : <<w>> \in Path /\ Len(<<w>>) = 1 /\ <<w>>[1] = w
  BY DEF Path
<1>2. \A v, w \in Word : /\ <<v, w>> \in Path /\ Len(<<v, w>>) = 2
                         /\ <<v, w>>[1] = v /\ <<v, w>>[2] = w
  BY DEF Path
<1>3. \A u, v, w \in Word : /\ <<u, v, w>> \in Path /\ Len(<<u, v, w>>) = 3
                            /\ <<u, v, w>>[1] = u /\ <<u, v, w>>[3] = w
  BY DEF Path
<1> QED
  BY <1>1, <1>2, <1>3, Words, Zenon

LEMMA WhoisPath ==
    LET q == api(<<"auth", "admin", "whois">>) IN
    /\ q \in Path /\ Len(q) = 5 /\ q[1] = "api" /\ q[3] = "auth" /\ q[5] = "whois"
<1> DEFINE s == <<"auth", "admin", "whois">>
<1>1. \A u, v, w \in Word : /\ <<u, v, w>> \in Path /\ Len(<<u, v, w>>) = 3
                            /\ <<u, v, w>>[1] = u /\ <<u, v, w>>[3] = w
  BY DEF Path
<1>2. s \in Path /\ Len(s) = 3 /\ s[1] = "auth" /\ s[3] = "whois"
  BY <1>1, Words, Zenon
<1> HIDE DEF s
<1>3. /\ api(s) \in Path /\ Len(api(s)) = Len(s) + 2 /\ api(s)[1] = "api"
      /\ \A i \in 1..Len(s) : api(s)[i + 2] = s[i]
  BY <1>2, ApiPath
<1>4. Len(s) = 3
  BY <1>2
<1>5. Len(api(s)) = 5 /\ api(s)[3] = s[1] /\ api(s)[5] = s[3]
  BY <1>3, <1>4
<1> QED
  BY <1>2, <1>3, <1>5 DEF s

\* The guards of endpointClass, by the words of the path.
LEMMA ClassGuards ==
    ASSUME NEW path \in Path
    PROVE  /\ path = api(<<"auth", "login">>) => path[1] = "api" /\ path[3] = "auth"
           /\ path = <<"health">> => path[1] = "health"
           /\ MatchesPath(<<"v1", "tiles", "">>, path) => path[1] = "v1"
           /\ path = api(<<"route", "reroute">>) =>
                 path[1] = "api" /\ path[3] = "route"
           /\ Len(path) >= 3 /\ IsPrefix(api(<< >>), path) => path[1] = "api"
<1>1. path = api(<<"auth", "login">>) => path[1] = "api" /\ path[3] = "auth"
  <2>1. "auth" \in Word /\ "login" \in Word
    BY Words
  <2>2. /\ api(<<"auth", "login">>)[1] = "api"
        /\ api(<<"auth", "login">>)[3] = "auth"
    BY <2>1, ApiWords
  <2> QED
    BY <2>2, Zenon
<1>2. path = <<"health">> => path[1] = "health"
  BY OtherPaths
<1>3. ASSUME MatchesPath(<<"v1", "tiles", "">>, path)
      PROVE  path[1] = "v1"
  <2> DEFINE q == <<"v1", "tiles", "">>
  <2>1. q \in Path /\ Len(q) = 3 /\ q[1] = "v1" /\ q[3] = ""
    BY OtherPaths
  <2>2. IsTree(q)
    BY <2>1 DEF IsTree, Last
  <2>3. q \in Path /\ Len(q) = 3 /\ q # << >> /\ MatchesPath(q, path)
    BY <1>3, <2>1
  <2> HIDE DEF q
  <2>4. \A i \in 1..Len(q) - 1 : path[i] = q[i]
    BY <2>2, <2>3, MatchElements
  <2>5. path[1] = q[1]
    BY <2>3, <2>4
  <2> QED
    BY <2>1, <2>5
<1>4. path = api(<<"route", "reroute">>) => path[1] = "api" /\ path[3] = "route"
  <2>1. "route" \in Word /\ "reroute" \in Word
    BY Words
  <2>2. /\ api(<<"route", "reroute">>)[1] = "api"
        /\ api(<<"route", "reroute">>)[3] = "route"
    BY <2>1, ApiWords
  <2> QED
    BY <2>2, Zenon
<1>5. ASSUME IsPrefix(api(<< >>), path)
      PROVE  path[1] = "api"
  <2> DEFINE e == << >>
  <2>1. e \in Path /\ Len(e) = 0
    BY DEF Path
  <2> DEFINE a == api(e)
  <2>2. a \in Path /\ Len(a) = Len(e) + 2 /\ a[1] = "api"
    BY <2>1, ApiPath
  <2>3. IsPrefix(a, path)
    BY <1>5
  <2> HIDE DEF a, e
  <2>4. \A i \in 1..Len(a) : a[i] = path[i]
    BY <2>2, <2>3, PrefixElements DEF Path
  <2>5. Len(a) = 2
    BY <2>1, <2>2
  <2>6. a[1] = path[1]
    BY <2>4, <2>5
  <2> QED
    BY <2>2, <2>6
<1> QED
  BY <1>1, <1>2, <1>3, <1>4, <1>5

\* What endpointClass makes of a path.
LEMMA ClassOf ==
    ASSUME NEW path \in Path
    PROVE  /\ path = api(<<"auth", "login">>) => EndpointClass(path) = "auth"
           /\ path = <<"health">> => EndpointClass(path) = "public"
           /\ MatchesPath(<<"v1", "tiles", "">>, path) =>
                 EndpointClass(path) = "tiles"
           /\ path = api(<<"route", "reroute">>) => EndpointClass(path) = "reroute"
           /\ (/\ Len(path) >= 3 /\ IsPrefix(api(<< >>), path)
               /\ path[3] \in {"route", "search"}
               /\ path # api(<<"route", "reroute">>)) =>
                 EndpointClass(path) = "expensive"
           /\ (/\ path[1] = "api" /\ path[3] \in {"auth", "region"}
               /\ path # api(<<"auth", "login">>)) =>
                 EndpointClass(path) = "api"
           /\ path[1] = "web" => EndpointClass(path) = "api"
           /\ EndpointClass(path) \in {"auth", "public", "tiles", "reroute",
                                       "expensive", "api"}
<1> DEFINE g1 == path = api(<<"auth", "login">>)
           g2 == path = <<"health">>
           g3 == MatchesPath(<<"v1", "tiles", "">>, path)
           g4 == path = api(<<"route", "reroute">>)
           g5 == /\ path # api(<<"route", "reroute">>)
                 /\ Len(path) >= 3 /\ IsPrefix(api(<< >>), path)
                 /\ path[3] \in RouteLike \cup {"search"}
           v == EndpointClass(path)
<1>1. v = CASE g1 -> "auth" [] g2 -> "public" [] g3 -> "tiles" [] g4 -> "reroute"
            [] g5 -> "expensive" [] OTHER -> "api"
  BY DEF EndpointClass
<1>2. /\ g1 => path[1] = "api" /\ path[3] = "auth"
      /\ g2 => path[1] = "health"
      /\ g3 => path[1] = "v1"
      /\ g4 => path[1] = "api" /\ path[3] = "route"
      /\ Len(path) >= 3 /\ IsPrefix(api(<< >>), path) => path[1] = "api"
  BY ClassGuards
<1>3. g5 => path[1] = "api" /\ path[3] \in {"route", "routes", "search"} /\ ~g4
  BY <1>2 DEF RouteLike
<1>4. (/\ Len(path) >= 3 /\ IsPrefix(api(<< >>), path)
       /\ path[3] \in {"route", "search"} /\ ~g4) => g5
  BY DEF RouteLike
<1> HIDE DEF g1, g2, g3, g4, g5, v
<1>5. /\ g1 => ~g2 /\ ~g3 /\ ~g4 /\ ~g5
      /\ g2 => ~g3 /\ ~g4 /\ ~g5
      /\ g3 => ~g4 /\ ~g5
      /\ g4 => ~g5
  BY <1>2, <1>3
<1>6. /\ g1 => v = "auth"
      /\ g2 => v = "public"
      /\ g3 => v = "tiles"
      /\ g4 => v = "reroute"
      /\ g5 => v = "expensive"
      /\ ~g1 /\ ~g2 /\ ~g3 /\ ~g4 /\ ~g5 => v = "api"
  BY <1>1, <1>5
<1>7. path[1] = "api" /\ path[3] \in {"auth", "region"} /\ ~g1 =>
         ~g2 /\ ~g3 /\ ~g4 /\ ~g5
  BY <1>2, <1>3
<1>8. path[1] = "web" => ~g1 /\ ~g2 /\ ~g3 /\ ~g4 /\ ~g5
  BY <1>2, <1>3
<1>9. v \in {"auth", "public", "tiles", "reroute", "expensive", "api"}
  BY <1>6
<1>10. (/\ Len(path) >= 3 /\ IsPrefix(api(<< >>), path)
        /\ path[3] \in {"route", "search"} /\ ~g4) => v = "expensive"
  BY <1>4, <1>6
<1>11. /\ path[1] = "api" /\ path[3] \in {"auth", "region"} /\ ~g1 => v = "api"
       /\ path[1] = "web" => v = "api"
  BY <1>6, <1>7, <1>8
<1> QED
  BY <1>6, <1>9, <1>10, <1>11 DEF g1, g2, g3, g4, v

\* A pattern that is not a tree matches itself.
LEMMA OnlyItself ==
    ASSUME NEW q, NEW n, Len(q) = n, q[n] # "", NEW path, MatchesPath(q, path)
    PROVE  path = q
BY DEF MatchesPath, IsTree, Last

\* Under "/api/v1", one of the reserved words.
LEMMA ReservedWord ==
    ASSUME NEW q, NEW n, Len(q) = n, q[n] # "",
           q[3] \in {"auth", "route", "search", "region"},
           NEW path, MatchesPath(q, path)
    PROVE  path = q /\ ~Free(path)
BY OnlyItself DEF Free

LEMMA ApiIsPrefix ==
    ASSUME NEW s \in Path
    PROVE  IsPrefix(api(<< >>), api(s))
<1> DEFINE e == << >>
           a == api(e)
           b == api(s)
<1>1. e \in Path /\ Len(e) = 0 /\ Len(s) \in Nat
  BY DEF Path
<1>2. a \in Path /\ Len(a) = Len(e) + 2 /\ a[1] = "api" /\ a[2] = "v1"
  BY <1>1, ApiPath
<1>3. b \in Path /\ Len(b) = Len(s) + 2 /\ b[1] = "api" /\ b[2] = "v1"
  BY <1>1, ApiPath
<1> HIDE DEF a, b, e
<1>4. Len(a) = 2 /\ Len(b) >= 2
  <2>1. Len(a) = Len(e) + 2 /\ Len(b) = Len(s) + 2
    BY <1>2, <1>3
  <2> QED
    BY <1>1, <2>1
<1>5. a[1] = b[1] /\ a[2] = b[2]
  BY <1>2, <1>3
<1>6. \A i \in 1..2 : i = 1 \/ i = 2
  OBVIOUS
<1>7. \A i \in 1..2 : a[i] = b[i]
  BY <1>5, <1>6
<1>8. Len(a) <= Len(b) /\ \A i \in 1..Len(a) : a[i] = b[i]
  BY <1>4, <1>7
<1>9. IsPrefix(a, b)
  BY <1>2, <1>3, <1>8, PrefixElements DEF Path
<1> QED
  BY <1>9 DEF a, b, e

\* A path that a built-in endpoint serves is not free for extensions, and
\* endpointClass gives it the class that the endpoint summary has.
LEMMA BuiltInMatch ==
    ASSUME NEW b \in BuiltIn, NEW path \in Path
    PROVE  /\ b.path \in Path /\ b.path # << >>
           /\ MatchesPath(b.path, path) =>
                 ~Free(path) /\ EndpointClass(path) = b.class
<1> DEFINE q == b.path
           login == api(<<"auth", "login">>)
           reroute == api(<<"route", "reroute">>)
<1>a. /\ login \in Path /\ Len(login) = 4 /\ login[3] = "auth" /\ login[4] = "login"
      /\ reroute \in Path /\ Len(reroute) = 4 /\ reroute[3] = "route"
      /\ reroute[4] = "reroute"
  <2>1. "auth" \in Word /\ "login" \in Word /\ "route" \in Word /\ "reroute" \in Word
    BY Words
  <2> QED
    BY <2>1, ApiWords
<1>1. CASE q = <<"health">> /\ b.class = "public"
  <2>1. q \in Path /\ Len(q) = 1 /\ q[1] = "health"
    BY <1>1, OtherPaths
  <2>2. q # << >>
    BY <2>1
  <2>3. ASSUME MatchesPath(q, path)
        PROVE  path = q
    BY <2>1, <2>3, OnlyItself
  <2>4. ~Free(q)
    BY <2>1 DEF Free
  <2>5. path = q => EndpointClass(path) = b.class
    BY <1>1, ClassOf
  <2> QED
    BY <2>1, <2>2, <2>3, <2>4, <2>5
<1>2. CASE q = api(<<"auth", "login">>) /\ b.class = "auth"
  <2>1. "auth" \in Word /\ "login" \in Word
    BY Words
  <2>2. q \in Path /\ Len(q) = 4 /\ q[1] = "api" /\ q[3] = "auth" /\ q[4] = "login"
    BY <1>2, <2>1, ApiWords
  <2>3. MatchesPath(q, path) => path = q /\ ~Free(path)
    BY <2>2, ReservedWord
  <2>5. path = q => EndpointClass(path) = b.class
    BY <1>2, ClassOf
  <2>6. q # << >>
    <3>1. Len(q) >= 3
      BY <2>2
    <3> QED
      BY <3>1
  <2> QED
    BY <2>2, <2>3, <2>5, <2>6
<1>3. CASE q = api(<<"auth", "refresh">>) /\ b.class = "api"
  <2>1. "auth" \in Word /\ "refresh" \in Word
    BY Words
  <2>2. q \in Path /\ Len(q) = 4 /\ q[1] = "api" /\ q[3] = "auth" /\ q[4] = "refresh"
    BY <1>3, <2>1, ApiWords
  <2>3. MatchesPath(q, path) => path = q /\ ~Free(path)
    BY <2>2, ReservedWord
  <2>4. q # login
    BY <1>a, <2>2
  <2>5. path = q => EndpointClass(path) = b.class
    BY <1>3, <2>2, <2>4, ClassOf
  <2>6. q # << >>
    <3>1. Len(q) >= 3
      BY <2>2
    <3> QED
      BY <3>1
  <2> QED
    BY <2>2, <2>3, <2>5, <2>6
<1>4. CASE q = api(<<"auth", "admin", "whois">>) /\ b.class = "api"
  <2>2. q \in Path /\ Len(q) = 5 /\ q[1] = "api" /\ q[3] = "auth" /\ q[5] = "whois"
    BY <1>4, WhoisPath
  <2>3. MatchesPath(q, path) => path = q /\ ~Free(path)
    BY <2>2, ReservedWord
  <2>4. q # login
    BY <1>a, <2>2
  <2>5. path = q => EndpointClass(path) = b.class
    BY <1>4, <2>2, <2>4, ClassOf
  <2>6. q # << >>
    <3>1. Len(q) >= 3
      BY <2>2
    <3> QED
      BY <3>1
  <2> QED
    BY <2>2, <2>3, <2>5, <2>6
<1>5. CASE q = api(<<"route">>) /\ b.class = "expensive"
  <2>1. "route" \in Word /\ <<"route">> \in Path
    <3>1. "route" \in Word
      BY Words
    <3> QED
      BY <3>1 DEF Path
  <2>2. q \in Path /\ Len(q) = 3 /\ q[1] = "api" /\ q[3] = "route"
    BY <1>5, <2>1, ApiWord
  <2>3. MatchesPath(q, path) => path = q /\ ~Free(path)
    BY <2>2, ReservedWord
  <2>4. q # reroute /\ IsPrefix(api(<< >>), q) /\ Len(q) >= 3
    BY <1>a, <1>5, <2>1, <2>2, ApiIsPrefix
  <2>5. path = q => EndpointClass(path) = b.class
    BY <1>5, <2>2, <2>4, ClassOf
  <2>6. q # << >>
    <3>1. Len(q) >= 3
      BY <2>2
    <3> QED
      BY <3>1
  <2> QED
    BY <2>2, <2>3, <2>5, <2>6
<1>6. CASE q = api(<<"route", "reroute">>) /\ b.class = "reroute"
  <2>1. "route" \in Word /\ "reroute" \in Word
    BY Words
  <2>2. q \in Path /\ Len(q) = 4 /\ q[1] = "api" /\ q[3] = "route" /\ q[4] = "reroute"
    BY <1>6, <2>1, ApiWords
  <2>3. MatchesPath(q, path) => path = q /\ ~Free(path)
    BY <2>2, ReservedWord
  <2>5. path = q => EndpointClass(path) = b.class
    BY <1>6, ClassOf
  <2>6. q # << >>
    <3>1. Len(q) >= 3
      BY <2>2
    <3> QED
      BY <3>1
  <2> QED
    BY <2>2, <2>3, <2>5, <2>6
<1>7. CASE q = api(<<"search", "reverse">>) /\ b.class = "expensive"
  <2>1. "search" \in Word /\ "reverse" \in Word
    BY Words
  <2>2. q \in Path /\ Len(q) = 4 /\ q[1] = "api" /\ q[3] = "search" /\ q[4] = "reverse"
    BY <1>7, <2>1, ApiWords
  <2>3. MatchesPath(q, path) => path = q /\ ~Free(path)
    BY <2>2, ReservedWord
  <2>4. q # reroute /\ IsPrefix(api(<< >>), q) /\ Len(q) >= 3
    <3>1. <<"search", "reverse">> \in Path
      BY <2>1 DEF Path
    <3> QED
      BY <1>a, <1>7, <2>2, <3>1, ApiIsPrefix
  <2>5. path = q => EndpointClass(path) = b.class
    BY <1>7, <2>2, <2>4, ClassOf
  <2>6. q # << >>
    <3>1. Len(q) >= 3
      BY <2>2
    <3> QED
      BY <3>1
  <2> QED
    BY <2>2, <2>3, <2>5, <2>6
<1>8. CASE q = api(<<"region", "search-box">>) /\ b.class = "api"
  <2>1. "region" \in Word /\ "search-box" \in Word
    BY Words
  <2>2. q \in Path /\ Len(q) = 4 /\ q[1] = "api" /\ q[3] = "region" /\ q[4] = "search-box"
    BY <1>8, <2>1, ApiWords
  <2>3. MatchesPath(q, path) => path = q /\ ~Free(path)
    BY <2>2, ReservedWord
  <2>4. q # login
    BY <1>a, <2>2
  <2>5. path = q => EndpointClass(path) = b.class
    BY <1>8, <2>2, <2>4, ClassOf
  <2>6. q # << >>
    <3>1. Len(q) >= 3
      BY <2>2
    <3> QED
      BY <3>1
  <2> QED
    BY <2>2, <2>3, <2>5, <2>6
<1>9. CASE q = <<"v1", "tiles", "">> /\ b.class = "tiles"
  <2>1. q \in Path /\ Len(q) = 3 /\ q[1] = "v1"
    BY <1>9, OtherPaths
  <2>2. q # << >>
    BY <2>1
  <2>3. ASSUME MatchesPath(q, path)
        PROVE  path[1] = "v1"
    BY <1>9, <2>3, ClassGuards
  <2>4. MatchesPath(q, path) => ~Free(path)
    BY <2>3 DEF Free
  <2>5. MatchesPath(q, path) => EndpointClass(path) = b.class
    BY <1>9, ClassOf
  <2> QED
    BY <2>1, <2>2, <2>4, <2>5
<1>10. CASE q = <<"web", "">> /\ b.class = "api"
  <2>1. q \in Path /\ Len(q) = 2 /\ q[1] = "web" /\ q[2] = ""
    BY <1>10, OtherPaths
  <2>2. q # << >>
    <3>1. Len(<< >>) # 2
      OBVIOUS
    <3> QED
      BY <2>1, <3>1, Zenon
  <2>3. IsTree(q)
    BY <2>1 DEF IsTree, Last
  <2>4. ASSUME MatchesPath(q, path)
        PROVE  path[1] = "web"
    <3>1. q \in Path /\ Len(q) = 2
      BY <2>1
    <3>2. \A i \in 1..Len(q) - 1 : path[i] = q[i]
      BY <2>2, <2>3, <2>4, <3>1, MatchElements
    <3>3. path[1] = q[1]
      BY <3>1, <3>2
    <3> QED
      BY <2>1, <3>3
  <2>5. MatchesPath(q, path) => ~Free(path)
    BY <2>4 DEF Free
  <2>6. MatchesPath(q, path) => EndpointClass(path) = b.class
    BY <1>10, <2>4, ClassOf
  <2> QED
    BY <2>1, <2>2, <2>5, <2>6
<1> HIDE DEF login, reroute
<1> QED
  BY <1>1, <1>2, <1>3, <1>4, <1>5, <1>6, <1>7, <1>8, <1>9, <1>10, BuiltInCases

-----------------------------------------------------------------------------
(***************************************************************************)
(* The router and Set.Match.                                               *)
(***************************************************************************)

\* A file of extension routes that the gateway has started with.
Accepted(file) == file \in RouteFiles /\ Validate(file)

\* A request path is made of words.
LEMMA MessagePath ==
    ASSUME NEW m \in Message
    PROVE  m.path \in Path
<1>1. m.path \in Seq(STRING)
  BY DEF Message
<1>2. STRING \subseteq Word
  BY Zenon DEF Word
<1> QED
  BY <1>1, <1>2, SeqMonotonic DEF Path

\* So is the path of an extension route, and it is valid.
LEMMA RoutePath ==
    ASSUME NEW file, Accepted(file), NEW i \in DOMAIN file
    PROVE  /\ file[i] \in RouteConfig
           /\ file[i].path \in Path /\ file[i].path # << >>
           /\ ValidPath(file[i].path)
<1>1. file \in Seq(RouteConfig)
  BY InputAssumption DEF Accepted
<1>2. file[i] \in RouteConfig
  BY <1>1
<1>3. file[i].path \in Seq(STRING)
  BY <1>2 DEF RouteConfig
<1>4. STRING \subseteq Word
  BY Zenon DEF Word
<1>5. file[i].path \in Path
  BY <1>3, <1>4, SeqMonotonic DEF Path
<1>6. ValidPath(file[i].path)
  BY DEF Accepted, Validate
<1>7. Len(file[i].path) >= 3
  BY <1>5, <1>6, ValidPathIsFree
<1>8. file[i].path # << >>
  BY <1>7
<1> QED
  BY <1>2, <1>5, <1>6, <1>8

\* The pattern of one method of a route.
PatternOf(r, method) ==
    [method |-> method, path |-> r.path, auth |-> r.auth,
     class |-> <<"ext", r.name>>, ext |-> TRUE]

LEMMA RegisteredIs ==
    ASSUME NEW file
    PROVE  \A p : p \in Registered(file) <=>
              \E i \in DOMAIN file : \E a \in ToSet(file[i].methods) :
                 p = PatternOf(file[i], a)
<1>1. Registered(file) =
         UNION { {PatternOf(file[i], a) : a \in ToSet(file[i].methods)}
               : i \in DOMAIN file }
  BY DEF Registered, PatternOf
<1> QED
  BY <1>1

\* The fields of a pattern.
LEMMA PatternFields ==
    ASSUME NEW r, NEW a
    PROVE  /\ PatternOf(r, a).method = a /\ PatternOf(r, a).path = r.path
           /\ PatternOf(r, a).auth = r.auth
           /\ PatternOf(r, a).class = <<"ext", r.name>>
           /\ PatternOf(r, a).ext = TRUE
BY DEF PatternOf

\* Register has nothing to report after Validate: a file that is valid has no
\* pattern that is already on the mux, and the gateway starts with it.
THEOREM ValidFilesRegister ==
    ASSUME NEW file, Accepted(file)
    PROVE  ~Clashes(file)
<1>1. SUFFICES ASSUME NEW p \in Registered(file), NEW b \in BuiltIn,
                      p.path = b.path
               PROVE  FALSE
  BY DEF Clashes
<1>2. PICK i \in DOMAIN file : \E a \in ToSet(file[i].methods) :
         p = PatternOf(file[i], a)
  BY RegisteredIs
<1>3. PICK a \in ToSet(file[i].methods) : p = PatternOf(file[i], a)
  BY <1>2
<1>4. b.path = file[i].path
  BY <1>1, <1>3, PatternFields
<1>5. b.path \in Path /\ b.path # << >> /\ ValidPath(b.path)
  BY <1>4, RoutePath
<1>6. MatchesPath(b.path, b.path)
  <2> DEFINE q == b.path
  <2>1. Len(q) \in Nat /\ Len(q) >= 1
    BY <1>5 DEF Path
  <2>2. /\ Front(q) \in Path /\ Len(Front(q)) = Len(q) - 1
        /\ \A j \in 1..Len(q) - 1 : Front(q)[j] = q[j]
    BY <1>5, <2>1 DEF Path, Front
  <2>3. Len(Front(q)) <= Len(q) /\ \A j \in 1..Len(Front(q)) : Front(q)[j] = q[j]
    BY <2>1, <2>2
  <2>4. IsPrefix(Front(q), q)
    BY <1>5, <2>2, <2>3, PrefixElements DEF Path
  <2> QED
    BY <2>1, <2>4 DEF MatchesPath
<1>7. ~Free(b.path)
  BY <1>5, <1>6, BuiltInMatch
<1>8. Free(b.path)
  BY <1>5, ValidPathIsFree
<1> QED
  BY <1>7, <1>8

\* Every pattern of the router has a path.
LEMMA PatternPath ==
    ASSUME Accepted(routes), NEW p \in Patterns
    PROVE  p.path \in Path /\ p.path # << >>
<1>1. CASE p \in BuiltIn
  <2>1. << >> \in Path
    BY DEF Path
  <2> QED
    BY <1>1, <2>1, BuiltInMatch
<1>2. CASE p \in Registered(routes)
  <2>1. PICK i \in DOMAIN routes : \E a \in ToSet(routes[i].methods) :
           p = PatternOf(routes[i], a)
    BY <1>2, RegisteredIs
  <2>2. p.path = routes[i].path
    <3>1. PICK a \in ToSet(routes[i].methods) : p = PatternOf(routes[i], a)
      BY <2>1
    <3> QED
      BY <3>1, PatternFields
  <2> QED
    BY <2>2, RoutePath
<1> QED
  BY <1>1, <1>2 DEF Patterns

\* None is not a pattern.
LEMMA NoneIsNoPattern ==
    ASSUME Accepted(routes)
    PROVE  None \notin Patterns
BY NoneAssumption DEF Accepted, Patterns

\* The router takes the widest pattern that handles the request, if any does.
LEMMA DispatchChooses ==
    ASSUME NEW patterns, NEW m \in Message, None \notin patterns,
           \A p \in patterns : p.path \in Path /\ p.path # << >>
    PROVE  /\ Dispatch(patterns, m) = None => \A p \in patterns : ~Handles(p, m)
           /\ Dispatch(patterns, m) # None =>
                 /\ Dispatch(patterns, m) \in patterns
                 /\ Handles(Dispatch(patterns, m), m)
                 /\ \A q \in patterns : Handles(q, m) =>
                       Width(q.path) <= Width(Dispatch(patterns, m).path)
<1> DEFINE fit == {p \in patterns : Handles(p, m)}
           d == Dispatch(patterns, m)
<1>1. d = IF fit = {} THEN None
          ELSE CHOOSE p \in fit : \A q \in fit : Width(q.path) <= Width(p.path)
  BY DEF Dispatch
<1>2. CASE fit = {}
  BY <1>1, <1>2
<1>3. CASE fit # {}
  <2>1. m.path \in Path
    BY MessagePath
  <2>2. \A p \in fit : /\ p.path \in Path /\ p.path # << >>
                       /\ MatchesPath(p.path, m.path)
    BY DEF Handles
  <2> HIDE DEF fit, d
  <2>3. \E p \in fit : \A q \in fit : Width(q.path) <= Width(p.path)
    BY <1>3, <2>1, <2>2, WidestExists
  <2>4. d \in fit /\ \A q \in fit : Width(q.path) <= Width(d.path)
    BY <1>1, <1>3, <2>3
  <2> QED
    BY <2>4 DEF fit, d
<1> QED
  BY <1>2, <1>3

\* What a pattern takes when no slash is escaped.
Fits(p, m) ==
    /\ MatchesPath(p.path, m.path)
    /\ \/ p.method \in {"any", m.method}
       \/ p.method = "GET" /\ m.method = "HEAD"

\* The endpoint that a path names is that of the widest pattern that fits.
LEMMA AskedChooses ==
    ASSUME Accepted(routes), NEW m \in Message
    PROVE  /\ Asked(m) = None => \A p \in Patterns : ~Fits(p, m)
           /\ Asked(m) # None =>
                 /\ Asked(m) \in Patterns
                 /\ Fits(Asked(m), m)
                 /\ \A q \in Patterns : Fits(q, m) =>
                       Width(q.path) <= Width(Asked(m).path)
<1> DEFINE u == Unescaped(m)
<1>1. u \in Message
  BY DEF Unescaped, Message
<1>2. u.path = m.path /\ u.method = m.method /\ u.escaped = {}
  BY DEF Unescaped, Message
<1>3. Asked(m) = Dispatch(Patterns, u)
  BY DEF Asked
<1> HIDE DEF u
<1>4. \A p : Handles(p, u) <=> Fits(p, m)
  BY <1>2 DEF Handles, Fits
<1>5. /\ Dispatch(Patterns, u) = None => \A p \in Patterns : ~Handles(p, u)
      /\ Dispatch(Patterns, u) # None =>
            /\ Dispatch(Patterns, u) \in Patterns
            /\ Handles(Dispatch(Patterns, u), u)
            /\ \A q \in Patterns : Handles(q, u) =>
                  Width(q.path) <= Width(Dispatch(Patterns, u).path)
  BY <1>1, NoneIsNoPattern, PatternPath, DispatchChooses
<1> QED
  BY <1>3, <1>4, <1>5

\* An extension takes no request that a built-in endpoint handles.
LEMMA BuiltInOrExtension ==
    ASSUME Accepted(routes), NEW m \in Message,
           NEW b \in BuiltIn, MatchesPath(b.path, m.path),
           NEW i \in DOMAIN routes, MatchesPath(routes[i].path, m.path)
    PROVE  FALSE
<1>1. m.path \in Path
  BY MessagePath
<1>2. ~Free(m.path)
  BY <1>1, BuiltInMatch
<1>3. Free(m.path)
  BY <1>1, RoutePath, ExtensionMatchesFree
<1> QED
  BY <1>2, <1>3

\* With the patterns of the extensions, the router chooses the same built-in
\* endpoint as without.
LEMMA DispatchStays ==
    ASSUME Accepted(routes), NEW m \in Message, Dispatch(BuiltIn, m) # None
    PROVE  Dispatch(Patterns, m) = Dispatch(BuiltIn, m)
<1> DEFINE f == {p \in BuiltIn : Handles(p, m)}
           g == {p \in Patterns : Handles(p, m)}
<1>1. f # {}
  BY DEF Dispatch
<1>2. PICK b \in BuiltIn : Handles(b, m)
  BY <1>1
<1>3. ASSUME NEW p \in Registered(routes), Handles(p, m)
      PROVE  FALSE
  <2>1. PICK i \in DOMAIN routes : \E a \in ToSet(routes[i].methods) :
           p = PatternOf(routes[i], a)
    BY <1>3, RegisteredIs
  <2>2. p.path = routes[i].path
    <3>1. PICK a \in ToSet(routes[i].methods) : p = PatternOf(routes[i], a)
      BY <2>1
    <3> QED
      BY <3>1, PatternFields
  <2>3. MatchesPath(routes[i].path, m.path) /\ MatchesPath(b.path, m.path)
    BY <1>2, <1>3, <2>2 DEF Handles
  <2> QED
    BY <1>2, <2>3, BuiltInOrExtension
<1>4. f = g
  BY <1>3 DEF Patterns
<1>5. /\ Dispatch(BuiltIn, m) = IF f = {} THEN None
           ELSE CHOOSE p \in f : \A q \in f : Width(q.path) <= Width(p.path)
      /\ Dispatch(Patterns, m) = IF g = {} THEN None
           ELSE CHOOSE p \in g : \A q \in g : Width(q.path) <= Width(p.path)
  BY DEF Dispatch
<1> HIDE DEF f, g
<1> QED
  BY <1>4, <1>5

\* A method of a path is in one route of an accepted file.
LEMMA RouteUnique ==
    ASSUME Accepted(routes), NEW i \in DOMAIN routes, NEW j \in DOMAIN routes,
           routes[i].path = routes[j].path,
           NEW a, a \in ToSet(routes[i].methods), a \in ToSet(routes[j].methods)
    PROVE  i = j
BY DEF Accepted, Validate

\* A name too: the handler of a pattern works for the route it came from.
LEMMA OwnerIs ==
    ASSUME Accepted(routes), NEW i \in DOMAIN routes,
           NEW p, p.class = <<"ext", routes[i].name>>
    PROVE  Owner(p) = routes[i]
<1>1. routes[i] \in ToSet(routes)
  BY DEF ToSet
<1>2. ASSUME NEW r \in ToSet(routes), p.class = <<"ext", r.name>>
      PROVE  r = routes[i]
  <2>1. PICK j \in DOMAIN routes : r = routes[j]
    BY <1>2 DEF ToSet
  <2>2. r.name = routes[i].name
    BY <1>2
  <2>3. j = i
    BY <2>1, <2>2 DEF Accepted, Validate
  <2> QED
    BY <2>1, <2>3
<1> QED
  BY <1>1, <1>2 DEF Owner

\* Set.Match takes the widest route that takes the request.
LEMMA MatchChooses ==
    ASSUME Accepted(routes), NEW m \in Message, Candidates(m) # {}
    PROVE  \E k \in Candidates(m) :
              /\ Match(m) = routes[k]
              /\ \A j \in Candidates(m) :
                    Width(routes[j].path) <= Width(routes[k].path)
<1> DEFINE fit == Candidates(m)
           rs == {routes[i] : i \in fit}
           Best(i) == \A j \in fit :
                         \/ Width(routes[j].path) < Width(routes[i].path)
                         \/ /\ Width(routes[j].path) = Width(routes[i].path)
                            /\ i <= j
<1>1. \A i \in fit : /\ i \in DOMAIN routes
                     /\ m.method \in ToSet(routes[i].methods)
                     /\ MatchesPath(routes[i].path, m.path)
  BY DEF Candidates
<1>2. \A i \in fit : routes[i].path \in Path /\ routes[i].path # << >>
  BY <1>1, RoutePath
<1>3. m.path \in Path
  BY MessagePath
<1>4. \A i \in fit : Width(routes[i].path) \in Nat /\ i \in Nat
  <2>1. \A i \in fit : Width(routes[i].path) \in Nat
    BY <1>1, <1>2, <1>3, WidthBound
  <2>2. routes \in Seq(RouteConfig)
    BY InputAssumption DEF Accepted
  <2>3. \A i \in fit : i \in Nat
    BY <1>1, <2>2
  <2> QED
    BY <2>1, <2>3
<1>5. Match(m) = routes[CHOOSE i \in fit : Best(i)]
  BY DEF Match
<1>6. rs # {} /\ \A r \in rs : /\ r.path \in Path /\ r.path # << >>
                               /\ MatchesPath(r.path, m.path)
  BY <1>1, <1>2
<1> HIDE DEF fit
<1>7. \E r \in rs : \A q \in rs : Width(q.path) <= Width(r.path)
  <2> HIDE DEF rs
  <2> QED
    BY <1>3, <1>6, WidestExists
<1>8. PICK k \in fit : \A j \in fit :
                          Width(routes[j].path) <= Width(routes[k].path)
  BY <1>7
<1>9. ASSUME NEW j \in fit, Width(routes[j].path) = Width(routes[k].path)
      PROVE  j = k
  <2>1. routes[j].path = routes[k].path
    BY <1>1, <1>2, <1>3, <1>9, WidthDecides
  <2> QED
    BY <1>1, <2>1, RouteUnique
<1>10. Best(k)
  <2>1. ASSUME NEW j \in fit
        PROVE  \/ Width(routes[j].path) < Width(routes[k].path)
               \/ Width(routes[j].path) = Width(routes[k].path) /\ k <= j
    <3>1. CASE Width(routes[j].path) = Width(routes[k].path)
      <4>1. j = k
        BY <1>9, <3>1
      <4> QED
        BY <1>4, <3>1, <4>1
    <3>2. CASE Width(routes[j].path) # Width(routes[k].path)
      BY <1>4, <1>8, <3>2
    <3> QED
      BY <3>1, <3>2
  <2> QED
    BY <2>1
<1>11. (CHOOSE i \in fit : Best(i)) \in fit /\ Best(CHOOSE i \in fit : Best(i))
  <2> HIDE DEF Best
  <2> QED
    BY <1>10
<1>12. PICK c \in fit : c = (CHOOSE i \in fit : Best(i)) /\ Best(c)
  BY <1>11
<1>13. \A j \in fit : Width(routes[j].path) <= Width(routes[c].path)
  BY <1>4, <1>12
<1> QED
  BY <1>5, <1>12, <1>13 DEF fit

\* A candidate of Set.Match has a pattern in the router, which fits the
\* request.
LEMMA CandidateFits ==
    ASSUME NEW m, NEW i \in Candidates(m)
    PROVE  /\ PatternOf(routes[i], m.method) \in Patterns
           /\ Fits(PatternOf(routes[i], m.method), m)
<1>1. /\ i \in DOMAIN routes /\ m.method \in ToSet(routes[i].methods)
      /\ MatchesPath(routes[i].path, m.path)
  BY DEF Candidates
<1>2. PatternOf(routes[i], m.method) \in Registered(routes)
  BY <1>1, RegisteredIs
<1> QED
  BY <1>1, <1>2, PatternFields DEF Patterns, Fits

\* Set.Match sees nothing when the path names no extension, or with HEAD.
LEMMA MatchesNothing ==
    ASSUME Accepted(routes), NEW m \in Message,
           \/ Asked(m) = None
           \/ Asked(m) \in BuiltIn
           \/ m.method = "HEAD"
    PROVE  Match(m) = None
<1> DEFINE d == Asked(m)
<1>1. SUFFICES ASSUME Candidates(m) # {} PROVE FALSE
  BY DEF Match
<1>2. PICK i \in Candidates(m) : TRUE
  BY <1>1
<1>3. /\ i \in DOMAIN routes /\ m.method \in ToSet(routes[i].methods)
      /\ MatchesPath(routes[i].path, m.path)
  BY <1>2 DEF Candidates
<1>4. m.method # "HEAD"
  BY <1>3 DEF Accepted, Validate
<1>5. /\ d = None => \A p \in Patterns : ~Fits(p, m)
      /\ d # None => MatchesPath(d.path, m.path)
  BY AskedChooses DEF Fits
<1>6. d # None
  BY <1>2, <1>5, CandidateFits
<1>7. d \in BuiltIn
  BY <1>4, <1>6
<1> QED
  BY <1>3, <1>5, <1>6, <1>7, BuiltInOrExtension

\* Set.Match sees the route that the path names: when the router goes by the
\* same path, the class and the limits are those of the handler that runs.
LEMMA MatchServes ==
    ASSUME Accepted(routes), NEW m \in Message, m.method # "HEAD",
           Asked(m) # None, Asked(m) \notin BuiltIn
    PROVE  \E i \in DOMAIN routes :
              /\ Match(m) = routes[i]
              /\ Owner(Asked(m)) = routes[i]
              /\ Asked(m).class = <<"ext", routes[i].name>>
              /\ Asked(m).auth = routes[i].auth
              /\ Asked(m).ext = TRUE
<1> DEFINE d == Asked(m)
<1>1. /\ d \in Patterns /\ Fits(d, m)
      /\ \A q \in Patterns : Fits(q, m) => Width(q.path) <= Width(d.path)
  BY AskedChooses
<1>2. d \notin BuiltIn
  OBVIOUS
<1> HIDE DEF d
<1>3. PICK i \in DOMAIN routes : \E a \in ToSet(routes[i].methods) :
         d = PatternOf(routes[i], a)
  BY <1>1, <1>2, RegisteredIs DEF Patterns
<1>4. PICK a \in ToSet(routes[i].methods) : d = PatternOf(routes[i], a)
  BY <1>3
<1>5. /\ d.method = a /\ d.path = routes[i].path /\ d.auth = routes[i].auth
      /\ d.class = <<"ext", routes[i].name>> /\ d.ext = TRUE
  BY <1>4, PatternFields
<1>6. a # "any" /\ a = m.method
  <2>1. a \in {"GET", "POST", "PUT", "DELETE"}
    BY <1>3, <1>4 DEF Accepted, Validate
  <2> QED
    BY <1>1, <1>5, <2>1 DEF Fits
<1>7. i \in Candidates(m)
  BY <1>1, <1>4, <1>5, <1>6 DEF Fits, Candidates
<1>8. PICK k \in Candidates(m) :
         /\ Match(m) = routes[k]
         /\ \A j \in Candidates(m) : Width(routes[j].path) <= Width(routes[k].path)
  BY <1>7, MatchChooses
<1>9. /\ k \in DOMAIN routes /\ m.method \in ToSet(routes[k].methods)
      /\ MatchesPath(routes[k].path, m.path)
  BY <1>8 DEF Candidates
<1>10. MatchesPath(routes[i].path, m.path)
  BY <1>7 DEF Candidates
<1>11. Width(routes[k].path) <= Width(routes[i].path)
  <2> DEFINE q == PatternOf(routes[k], m.method)
  <2>1. q \in Patterns /\ Fits(q, m)
    BY <1>8, CandidateFits
  <2>2. q.path = routes[k].path
    BY PatternFields
  <2> HIDE DEF q
  <2>3. Width(q.path) <= Width(d.path)
    BY <1>1, <2>1
  <2> QED
    BY <1>5, <2>2, <2>3
<1>12. Width(routes[i].path) <= Width(routes[k].path)
  BY <1>7, <1>8
<1>13. /\ m.path \in Path
       /\ routes[i].path \in Path /\ routes[i].path # << >>
       /\ routes[k].path \in Path /\ routes[k].path # << >>
  BY <1>9, MessagePath, RoutePath
<1>14. Width(routes[i].path) = Width(routes[k].path)
  <2>1. Width(routes[i].path) \in Nat /\ Width(routes[k].path) \in Nat
    BY <1>9, <1>10, <1>13, WidthBound
  <2> QED
    BY <1>11, <1>12, <2>1
<1>15. routes[i].path = routes[k].path
  BY <1>9, <1>10, <1>13, <1>14, WidthDecides
<1>16. i = k
  BY <1>4, <1>6, <1>9, <1>15, RouteUnique
<1>17. Owner(d) = routes[i]
  BY <1>5, OwnerIs
<1> QED
  BY <1>5, <1>8, <1>16, <1>17 DEF d

-----------------------------------------------------------------------------
(***************************************************************************)
(* Who is charged.                                                         *)
(***************************************************************************)

\* Where a request on its way comes from: it has met no proxy yet, or the proxy
\* that has it is trusted, and so are those behind the client's address in the
\* header.
Traced(m) ==
    \/ m.peer = m.from
    \/ /\ m.peer \in TrustedProxies
       /\ \E k \in DOMAIN m.forwardedFor :
             /\ m.forwardedFor[k] = m.from
             /\ \A j \in DOMAIN m.forwardedFor :
                   j > k => m.forwardedFor[j] \in TrustedProxies

\* clientIP finds the address the request really came from, whatever the client
\* wrote into the header.
LEMMA TrueAddress ==
    ASSUME NEW m \in Message, Traced(m)
    PROVE  ClientIP(m) = m.from
<1> DEFINE ff == m.forwardedFor
           others == {i \in DOMAIN ff : ff[i] \notin TrustedProxies \cup {""}}
<1>1. m.from \in Clients /\ m.from \notin TrustedProxies \cup {""}
  BY GatewayAssumption DEF Message
<1>2. CASE m.peer = m.from
  BY <1>1, <1>2 DEF ClientIP
<1>3. CASE m.peer # m.from
  <2>1. m.peer \in TrustedProxies
    BY <1>3 DEF Traced
  <2>2. PICK k \in DOMAIN ff :
           /\ ff[k] = m.from
           /\ \A j \in DOMAIN ff : j > k => ff[j] \in TrustedProxies
    BY <1>3 DEF Traced
  <2>3. ff \in Seq(STRING)
    BY DEF Message
  <2>4. k \in others
    BY <1>1, <2>2
  <2>5. \A j \in others : j \in Nat /\ k \in Nat /\ ~(j > k)
    <3>1. \A j \in DOMAIN ff : j \in Nat
      BY <2>3
    <3> QED
      BY <2>2, <3>1
  <2> HIDE DEF others
  <2>6. \A j \in others : j <= k
    BY <2>5
  <2>7. ASSUME NEW i \in others, \A j \in others : j <= i
        PROVE  i = k
    <3>1. k <= i /\ i <= k /\ i \in Nat /\ k \in Nat
      BY <2>4, <2>5, <2>6, <2>7
    <3> QED
      BY <3>1
  <2>8. (CHOOSE i \in others : \A j \in others : j <= i) = k
    BY <2>4, <2>6, <2>7
  <2>9. LastAmong(ff, others) = ff[k]
    BY <2>8 DEF LastAmong
  <2>10. ClientIP(m) = LastAmong(ff, others)
    BY <2>1, <2>4 DEF ClientIP, others
  <2> QED
    BY <2>2, <2>9, <2>10
<1> QED
  BY <1>2, <1>3

\* The budget that goes with a key, and the account that it stands for.
BudgetOf(k) ==
    IF k.class[1] = "ext"
    THEN IF k.by = "user" THEN Owner(k).user ELSE Owner(k).ip
    ELSE IF k.by = "user" THEN UserLimit[k.class[2]] ELSE AddressLimit(k.class[2])

AccountOf(k) == [caller |-> k.id, class |-> k.class, budget |-> BudgetOf(k)]

\* A key is of a user or of a client's address.
GoodKey(k) ==
    /\ k = Key(k.class, k.by, k.id)
    /\ k.by \in {"user", "ip"}
    /\ k.id \in IF k.by = "user" THEN Subjects ELSE Clients

\* Different keys stand for different accounts.
LEMMA AccountsDiffer ==
    ASSUME NEW j, GoodKey(j), NEW k, GoodKey(k), AccountOf(j) = AccountOf(k)
    PROVE  j = k
<1>1. j.id = k.id /\ j.class = k.class
  BY DEF AccountOf
<1>2. j.by = k.by
  BY <1>1, InputAssumption DEF GoodKey
<1> QED
  BY <1>1, <1>2 DEF GoodKey

\* A verified token names a user.
LEMMA ClaimsSubject ==
    ASSUME NEW m \in Message, Claims(m) # None
    PROVE  /\ Claims(m).subject \in Subjects
           /\ Token(m) # None /\ Token(m) \in DOMAIN Verify
           /\ Claims(m) = Verify[Token(m)]
<1>1. Token(m) # None /\ Claims(m) = Verify[Token(m)]
  BY DEF Claims
<1>2. Token(m) \in DOMAIN Verify
  BY <1>1 DEF Token, Message
<1> QED
  BY <1>1, <1>2 DEF Subjects

\* Route files have no None.
LEMMA RouteIsNotNone ==
    ASSUME Accepted(routes), NEW i \in DOMAIN routes
    PROVE  routes[i] # None /\ LimitsOf(routes[i]) # None
<1>1. routes[i] \in ToSet(routes)
  BY DEF ToSet
<1> QED
  BY <1>1, NoneAssumption DEF Accepted

\* A key and its parts.
LEMMA KeyParts ==
    ASSUME NEW c, NEW b \in {"user", "ip"}, NEW x
    PROVE  /\ Key(c, b, x).class = c /\ Key(c, b, x).by = b /\ Key(c, b, x).id = x
           /\ x \in (IF b = "user" THEN Subjects ELSE Clients) => GoodKey(Key(c, b, x))
           /\ AccountOf(Key(c, b, x)) =
                 [caller |-> x, class |-> c, budget |-> BudgetOf(Key(c, b, x))]
BY DEF Key, GoodKey, AccountOf

\* A request whose path names an extension is charged to the extension's class
\* and under its limits.
LEMMA ChargedByExtension ==
    ASSUME Accepted(routes), NEW m \in Message, Traced(m), m.method # "HEAD",
           Asked(m) # None, Asked(m) \notin BuiltIn
    PROVE  /\ GoodKey(RateKey(m).key)
           /\ Account(m) = AccountOf(RateKey(m).key)
           /\ RateKey(m).limit = Account(m).budget
           /\ Account(m).budget \in Int
<1> DEFINE d == Asked(m)
           s == Claims(m).subject
<1>1. PICK i \in DOMAIN routes :
         /\ Match(m) = routes[i] /\ Owner(d) = routes[i]
         /\ d.class = <<"ext", routes[i].name>> /\ d.auth = routes[i].auth
         /\ d.ext = TRUE
  BY MatchServes
<1> DEFINE r == routes[i]
           class == <<"ext", r.name>>
<1>2. d # None /\ m.method # "HEAD"
  OBVIOUS
<1>3. RateClass(m) = LimitsOf(r) /\ LimitsOf(r) # None
  BY <1>1, RouteIsNotNone DEF RateClass
<1>4. /\ LimitsOf(r).name = r.name /\ LimitsOf(r).user = r.user
      /\ LimitsOf(r).ip = r.ip /\ (LimitsOf(r).perIPOnly <=> r.auth = "none")
  BY DEF LimitsOf
<1>5. r.user \in Int /\ r.ip \in Int
  BY RoutePath DEF RouteConfig
<1>6. ClientIP(m) = m.from /\ m.from \in Clients
  BY TrueAddress DEF Message
<1>7. \A k : k.class = class => Owner(k) = r
  BY OwnerIs
<1> HIDE DEF d, r
<1>8. CASE r.auth # "none" /\ Claims(m) # None
  <2> DEFINE k == Key(class, "user", s)
  <2>1. RateKey(m) = [key |-> k, limit |-> r.user]
    BY <1>3, <1>4, <1>8 DEF RateKey
  <2>2. Account(m) = [caller |-> s, class |-> class, budget |-> r.user]
    BY <1>1, <1>2, <1>8 DEF Account, d, r
  <2>3. s \in Subjects
    BY <1>8, ClaimsSubject
  <2>4. k.class = class /\ k.by = "user" /\ k.id = s /\ GoodKey(k)
        /\ AccountOf(k) = [caller |-> s, class |-> class, budget |-> BudgetOf(k)]
    BY <2>3, KeyParts
  <2>5. BudgetOf(k) = r.user
    BY <1>7, <2>4 DEF BudgetOf
  <2> HIDE DEF k
  <2> QED
    BY <1>5, <2>1, <2>2, <2>4, <2>5
<1>9. CASE ~(r.auth # "none" /\ Claims(m) # None)
  <2> DEFINE k == Key(class, "ip", m.from)
  <2>1. RateKey(m) = [key |-> k, limit |-> r.ip]
    BY <1>3, <1>4, <1>6, <1>9 DEF RateKey
  <2>2. Account(m) = [caller |-> m.from, class |-> class, budget |-> r.ip]
    BY <1>1, <1>2, <1>9 DEF Account, d, r
  <2>4. k.class = class /\ k.by = "ip" /\ k.id = m.from /\ GoodKey(k)
        /\ AccountOf(k) = [caller |-> m.from, class |-> class, budget |-> BudgetOf(k)]
    BY <1>6, KeyParts
  <2>5. BudgetOf(k) = r.ip
    BY <1>7, <2>4 DEF BudgetOf
  <2> HIDE DEF k
  <2> QED
    BY <1>5, <2>1, <2>2, <2>4, <2>5
<1> QED
  BY <1>8, <1>9

\* Any other request is charged to the class that endpointClass gives its path,
\* which is that of the endpoint.
LEMMA ChargedByClass ==
    ASSUME Accepted(routes), NEW m \in Message, Traced(m),
           \/ Asked(m) = None
           \/ Asked(m) \in BuiltIn
           \/ m.method = "HEAD"
    PROVE  /\ GoodKey(RateKey(m).key)
           /\ Account(m) = AccountOf(RateKey(m).key)
           /\ RateKey(m).limit = Account(m).budget
           /\ Account(m).budget \in Int
<1> DEFINE d == Asked(m)
           s == Claims(m).subject
           e == EndpointClass(m.path)
           class == <<"built-in", e>>
<1>1. RateClass(m) = None
  BY MatchesNothing DEF RateClass
<1>2. m.path \in Path
  BY MessagePath
<1>3. d # None => d \in Patterns /\ Fits(d, m)
  BY AskedChooses
<1>4. d # None /\ d \in BuiltIn => d.class = e /\ d.ext = FALSE
  BY <1>2, <1>3, BuiltInMatch, BuiltInCases DEF Fits
<1>5. ASSUME d # None, d \notin BuiltIn
      PROVE  d.ext = TRUE
  <2>1. d \in Registered(routes)
    BY <1>3, <1>5 DEF Patterns
  <2>2. PICK i \in DOMAIN routes : \E a \in ToSet(routes[i].methods) :
           d = PatternOf(routes[i], a)
    BY <2>1, RegisteredIs
  <2>3. PICK a \in ToSet(routes[i].methods) : d = PatternOf(routes[i], a)
    BY <2>2
  <2>4. PatternOf(routes[i], a).ext = TRUE
    BY PatternFields
  <2> QED
    BY <2>3, <2>4, Zenon
<1>6. e \in {"auth", "public", "tiles", "reroute", "expensive", "api"}
  BY <1>2, ClassOf
<1>7. ClientIP(m) = m.from /\ m.from \in Clients
  BY TrueAddress DEF Message
<1>8. ~(d # None /\ d.ext /\ m.method # "HEAD")
  BY <1>4
<1>9. (IF d # None /\ ~d.ext THEN d.class ELSE e) = e
  BY <1>4, <1>5
<1>10. ASSUME PerUser(e)
       PROVE  UserLimit[e] \in Int
  <2>1. UserLimit \in [{"api", "expensive", "reroute", "tiles"} -> Nat]
    BY GatewayAssumption
  <2>2. e \in {"api", "expensive", "reroute", "tiles"}
    BY <1>6, <1>10 DEF PerUser
  <2>3. UserLimit[e] \in Nat
    BY <2>1, <2>2, Zenon
  <2> QED
    BY <2>3
<1>11. AddressLimit(e) \in Int
  <2>1. IPLimit \in [{"auth", "public", "api"} -> Nat]
    BY GatewayAssumption
  <2>2. (IF PerUser(e) THEN "api" ELSE e) \in {"auth", "public", "api"}
    BY <1>6 DEF PerUser
  <2>3. AddressLimit(e) \in Nat
    BY <2>1, <2>2 DEF AddressLimit
  <2> QED
    BY <2>3
<1>12. class[1] = "built-in" /\ class[2] = e
  OBVIOUS
<1>13. Account(m) =
          IF PerUser(e) /\ Claims(m) # None
          THEN [caller |-> s, class |-> class, budget |-> UserLimit[e]]
          ELSE [caller |-> m.from, class |-> class, budget |-> AddressLimit(e)]
  BY <1>8, <1>9 DEF Account
<1>14. RateKey(m) =
          IF PerUser(e) /\ Claims(m) # None
          THEN [key |-> Key(class, "user", s), limit |-> UserLimit[e]]
          ELSE [key |-> Key(class, "ip", m.from), limit |-> AddressLimit(e)]
  BY <1>1, <1>7 DEF RateKey
<1> HIDE DEF e, class, d
<1>15. CASE PerUser(e) /\ Claims(m) # None
  <2> DEFINE k == Key(class, "user", s)
  <2>1. s \in Subjects
    BY <1>15, ClaimsSubject
  <2>2. k.class = class /\ k.by = "user" /\ k.id = s /\ GoodKey(k)
        /\ AccountOf(k) = [caller |-> s, class |-> class, budget |-> BudgetOf(k)]
    BY <2>1, KeyParts
  <2>3. BudgetOf(k) = UserLimit[e]
    BY <1>12, <2>2 DEF BudgetOf
  <2> HIDE DEF k
  <2>4. /\ RateKey(m) = [key |-> k, limit |-> UserLimit[e]]
        /\ Account(m) = [caller |-> s, class |-> class, budget |-> UserLimit[e]]
    BY <1>13, <1>14, <1>15 DEF k
  <2> QED
    BY <1>10, <1>15, <2>2, <2>3, <2>4
<1>16. CASE ~(PerUser(e) /\ Claims(m) # None)
  <2> DEFINE k == Key(class, "ip", m.from)
  <2>2. k.class = class /\ k.by = "ip" /\ k.id = m.from /\ GoodKey(k)
        /\ AccountOf(k) = [caller |-> m.from, class |-> class, budget |-> BudgetOf(k)]
    BY <1>7, KeyParts
  <2>3. BudgetOf(k) = AddressLimit(e)
    BY <1>12, <2>2 DEF BudgetOf
  <2> HIDE DEF k
  <2>4. /\ RateKey(m) = [key |-> k, limit |-> AddressLimit(e)]
        /\ Account(m) = [caller |-> m.from, class |-> class,
                         budget |-> AddressLimit(e)]
    BY <1>13, <1>14, <1>16 DEF k
  <2> QED
    BY <1>11, <1>16, <2>2, <2>3, <2>4
<1> QED
  BY <1>15, <1>16

\* The limiter's key and its limit are those of the account the request is to
\* be charged to.
LEMMA Charged ==
    ASSUME Accepted(routes), NEW m \in Message, Traced(m)
    PROVE  /\ GoodKey(RateKey(m).key)
           /\ Account(m) = AccountOf(RateKey(m).key)
           /\ RateKey(m).limit = Account(m).budget
           /\ Account(m).budget \in Int
BY ChargedByExtension, ChargedByClass

-----------------------------------------------------------------------------
(***************************************************************************)
(* The limiter's window.                                                   *)
(***************************************************************************)

\* One more of x in a bag.
LEMMA OneMore ==
    ASSUME NEW b, NEW x
    PROVE  /\ BagToSet(b (+) SetToBag({x})) = BagToSet(b) \cup {x}
           /\ \A e \in BagToSet(b) : e # x => (b (+) SetToBag({x}))[e] = b[e] + 0
           /\ (b (+) SetToBag({x}))[x] = Copies(x, b) + 1
<1> DEFINE o == SetToBag({x})
<1>1. DOMAIN o = {x} /\ o[x] = 1
  BY DEF SetToBag
<1> HIDE DEF o
<1>2. b (+) o = [e \in (DOMAIN b) \cup (DOMAIN o) |->
                   (IF e \in DOMAIN b THEN b[e] ELSE 0)
                 + (IF e \in DOMAIN o THEN o[e] ELSE 0)]
  BY DEF (+)
<1>3. BagToSet(b (+) o) = BagToSet(b) \cup {x}
  BY <1>1, <1>2 DEF BagToSet
<1>4. ASSUME NEW e \in BagToSet(b), e # x
      PROVE  (b (+) o)[e] = b[e] + 0
  BY <1>1, <1>2, <1>4 DEF BagToSet
<1>5. (b (+) o)[x] = Copies(x, b) + 1
  BY <1>1, <1>2 DEF BagToSet, Copies
<1> QED
  BY <1>3, <1>4, <1>5 DEF o

-----------------------------------------------------------------------------
(***************************************************************************)
(* The inductive invariant.                                                *)
(***************************************************************************)

\* The gateway is up with an accepted file, and does nothing before.
StartInv ==
    /\ state \in {"down", "up", "refused"}
    /\ routes \in RouteFiles \cup {<< >>}
    /\ state = "up" => Accepted(routes)
    /\ state # "up" => /\ msg = None /\ last = None
                       /\ BagToSet(counted) = {} /\ BagToSet(asked) = {}

\* The header of a request under way tells where it comes from.
WayInv == msg # None => msg \in Message /\ Traced(msg)

\* The limiter's counters are the accounts, under other names.
CountInv ==
    /\ \A k \in BagToSet(counted) :
          /\ GoodKey(k) /\ counted[k] \in Nat
          /\ AccountOf(k) \in BagToSet(asked) /\ asked[AccountOf(k)] = counted[k]
    /\ \A a \in BagToSet(asked) : \E k \in BagToSet(counted) : a = AccountOf(k)

\* What is reported of the last request is what the chain made of it.
LastInv ==
    last # None => \E m \in {last.msg} :
        /\ m \in Message /\ Traced(m)
        /\ last.key = RateKey(m).key
        /\ last.status = "served" =>
              /\ Outcome(m) = "served"
              /\ last.forwarded = Forwarded(Dispatch(Patterns, m), m)

\* The type invariant and the properties follow from it, and none of them is
\* inductive without it: the key depends on the header that proxies have
\* written and on the file that was checked at the start.
GatewayInv == StartInv /\ WayInv /\ CountInv /\ LastInv

\* As long as the routes stay, keys and accounts do.
LEMMA RoutesStay ==
    ASSUME routes' = routes
    PROVE  /\ \A k : AccountOf(k)' = AccountOf(k)
           /\ \A m : RateKey(m)' = RateKey(m)
           /\ \A m : Outcome(m)' = Outcome(m)
           /\ \A m : Forwarded(Dispatch(Patterns, m), m)' =
                        Forwarded(Dispatch(Patterns, m), m)
<1>1. \A k : AccountOf(k)' = AccountOf(k)
  BY DEF AccountOf, BudgetOf, Owner
<1>2. \A m : Match(m)' = Match(m)
  BY DEF Match, Candidates
<1>3. \A m : RateKey(m)' = RateKey(m)
  BY <1>2 DEF RateKey, RateClass
<1>4. \A m : Dispatch(Patterns, m)' = Dispatch(Patterns, m)
  BY DEF Patterns
<1>5. \A m : BodyLimit(m)' = BodyLimit(m)
  BY <1>2 DEF BodyLimit
<1>6. \A m : Outcome(m)' = Outcome(m)
  BY <1>4, <1>5 DEF Outcome
<1>7. \A m : Forwarded(Dispatch(Patterns, m), m)' =
                Forwarded(Dispatch(Patterns, m), m)
  BY DEF Forwarded, Owner, Patterns
<1> QED
  BY <1>1, <1>3, <1>6, <1>7

LEMMA GatewayInvInit ==
    ASSUME Init
    PROVE  GatewayInv
<1>1. BagToSet(EmptyBag) = {}
  BY DEF BagToSet, EmptyBag, SetToBag
<1> QED
  BY <1>1 DEF Init, GatewayInv, StartInv, WayInv, CountInv, LastInv

\* Nothing has been counted, or nothing changes.
LEMMA CountStays ==
    ASSUME CountInv, UNCHANGED <<counted, asked>>,
           routes' = routes \/ (BagToSet(counted) = {} /\ BagToSet(asked) = {})
    PROVE  CountInv'
<1>1. CASE routes' = routes
  <2>1. \A k : AccountOf(k)' = AccountOf(k)
    BY <1>1, RoutesStay
  <2> QED
    BY <2>1 DEF CountInv
<1>2. CASE BagToSet(counted) = {} /\ BagToSet(asked) = {}
  BY <1>2 DEF CountInv
<1> QED
  BY <1>1, <1>2

LEMMA LastStays ==
    ASSUME LastInv, UNCHANGED <<last, routes>>
    PROVE  LastInv'
<1>1. /\ \A m : RateKey(m)' = RateKey(m)
      /\ \A m : Outcome(m)' = Outcome(m)
      /\ \A m : Forwarded(Dispatch(Patterns, m), m)' =
                   Forwarded(Dispatch(Patterns, m), m)
  BY RoutesStay
<1> QED
  BY <1>1 DEF LastInv

\* A key and its account have been counted equally often.
LEMMA CopiesAgree ==
    ASSUME CountInv, NEW k, GoodKey(k)
    PROVE  /\ Copies(k, counted) = Copies(AccountOf(k), asked)
           /\ Copies(k, counted) \in Nat
<1>1. CASE k \in BagToSet(counted)
  BY <1>1 DEF CountInv, Copies
<1>2. CASE k \notin BagToSet(counted)
  <2>1. ASSUME AccountOf(k) \in BagToSet(asked)
        PROVE  FALSE
    <3>1. PICK j \in BagToSet(counted) : AccountOf(k) = AccountOf(j)
      BY <2>1 DEF CountInv
    <3>2. GoodKey(j)
      BY DEF CountInv
    <3> QED
      BY <1>2, <3>1, <3>2, AccountsDiffer
  <2>2. Copies(k, counted) = 0 /\ Copies(AccountOf(k), asked) = 0
    BY <1>2, <2>1 DEF Copies
  <2> QED
    BY <2>2
<1> QED
  BY <1>1, <1>2

\* Counting a request keeps counters and accounts alike.
LEMMA CountGrows ==
    ASSUME CountInv, routes' = routes, NEW k, GoodKey(k),
           counted' = counted (+) SetToBag({k}),
           asked' = asked (+) SetToBag({AccountOf(k)})
    PROVE  CountInv'
<1> DEFINE a == AccountOf(k)
<1>1. \A j : AccountOf(j)' = AccountOf(j)
  BY RoutesStay
<1>2. /\ Copies(k, counted) = Copies(a, asked)
      /\ Copies(k, counted) \in Nat
  BY CopiesAgree
<1>3. /\ BagToSet(counted') = BagToSet(counted) \cup {k}
      /\ \A e \in BagToSet(counted) : e # k => counted'[e] = counted[e] + 0
      /\ counted'[k] = Copies(k, counted) + 1
  BY OneMore
<1>4. /\ BagToSet(asked') = BagToSet(asked) \cup {a}
      /\ \A e \in BagToSet(asked) : e # a => asked'[e] = asked[e] + 0
      /\ asked'[a] = Copies(a, asked) + 1
  BY OneMore
<1>5. ASSUME NEW j \in BagToSet(counted')
      PROVE  /\ GoodKey(j) /\ counted'[j] \in Nat
             /\ AccountOf(j) \in BagToSet(asked')
             /\ asked'[AccountOf(j)] = counted'[j]
  <2>1. CASE j = k
    <3>1. counted'[k] = asked'[a] /\ counted'[k] \in Nat
      BY <1>2, <1>3, <1>4
    <3>2. a \in BagToSet(asked')
      BY <1>4
    <3> QED
      BY <2>1, <3>1, <3>2
  <2>2. CASE j # k
    <3>1. /\ j \in BagToSet(counted) /\ GoodKey(j) /\ counted[j] \in Nat
          /\ AccountOf(j) \in BagToSet(asked) /\ asked[AccountOf(j)] = counted[j]
      BY <1>3, <2>2 DEF CountInv
    <3>2. AccountOf(j) # a
      BY <2>2, <3>1, AccountsDiffer
    <3>3. counted'[j] = counted[j] + 0 /\ asked'[AccountOf(j)] = asked[AccountOf(j)] + 0
      BY <1>3, <1>4, <2>2, <3>1, <3>2
    <3>4. counted[j] + 0 = counted[j]
      BY <3>1
    <3>5. AccountOf(j) \in BagToSet(asked')
      BY <1>4, <3>1
    <3> QED
      BY <3>1, <3>3, <3>4, <3>5
  <2> QED
    BY <2>1, <2>2
<1>6. ASSUME NEW c \in BagToSet(asked')
      PROVE  \E j \in BagToSet(counted') : c = AccountOf(j)
  BY <1>3, <1>4 DEF CountInv
<1> QED
  BY <1>1, <1>5, <1>6 DEF CountInv

\* A proxy's entry tells the peer it had the request from.
LEMMA ForwardTraced ==
    ASSUME WayInv, Forward
    PROVE  msg' \in Message /\ Traced(msg')
<1> DEFINE ff == msg.forwardedFor
<1>1. msg \in Message /\ Traced(msg) /\ msg.via # << >>
  BY DEF WayInv, Forward
<1>2. msg.via \in Seq(TrustedProxies) /\ ff \in Seq(STRING)
  BY <1>1 DEF Message
<1>3. msg.peer \in Clients \cup TrustedProxies /\ msg.peer \in STRING
  BY <1>1, GatewayAssumption DEF Message
<1>4. Head(msg.via) \in TrustedProxies /\ Tail(msg.via) \in Seq(TrustedProxies)
  BY <1>1, <1>2, HeadTailProperties
<1>5. /\ Append(ff, msg.peer) \in Seq(STRING)
      /\ Len(Append(ff, msg.peer)) = Len(ff) + 1
      /\ \A i \in 1..Len(ff) : Append(ff, msg.peer)[i] = ff[i]
      /\ Append(ff, msg.peer)[Len(ff) + 1] = msg.peer
  BY <1>2, <1>3, AppendProperties
<1>6. msg' = [msg EXCEPT !.forwardedFor = Append(ff, msg.peer),
                         !.peer = Head(msg.via), !.via = Tail(msg.via)]
  BY DEF Forward
<1>7. msg' \in Message
  BY <1>1, <1>4, <1>5, <1>6 DEF Message
<1>8. /\ msg'.from = msg.from /\ msg'.peer = Head(msg.via)
      /\ msg'.forwardedFor = Append(ff, msg.peer)
  BY <1>1, <1>6 DEF Message
<1> DEFINE gg == Append(ff, msg.peer)
           n == Len(ff)
<1>9. n \in Nat /\ DOMAIN ff = 1..n /\ DOMAIN gg = 1..n + 1
  BY <1>2, <1>5
<1>10. /\ \A i \in 1..n : gg[i] = ff[i]
       /\ gg[n + 1] = msg.peer
  BY <1>5
<1> HIDE DEF ff, gg, n
<1>11. \E k \in DOMAIN gg : /\ gg[k] = msg.from
                            /\ \A j \in DOMAIN gg : j > k => gg[j] \in TrustedProxies
  <2>1. CASE msg.peer = msg.from
    <3>1. n + 1 \in DOMAIN gg /\ \A j \in DOMAIN gg : ~(j > n + 1)
      BY <1>9
    <3> QED
      BY <1>10, <2>1, <3>1
  <2>2. CASE msg.peer # msg.from
    <3>1. PICK k \in DOMAIN ff :
             /\ ff[k] = msg.from
             /\ \A j \in DOMAIN ff : j > k => ff[j] \in TrustedProxies
      BY <1>1, <2>2 DEF Traced, ff
    <3>2. msg.peer \in TrustedProxies
      BY <1>1, <2>2 DEF Traced
    <3>3. k \in DOMAIN gg /\ gg[k] = msg.from
      BY <1>9, <1>10, <3>1
    <3>4. ASSUME NEW j \in DOMAIN gg, j > k
          PROVE  gg[j] \in TrustedProxies
      <4>1. CASE j = n + 1
        BY <1>10, <3>2, <4>1
      <4>2. CASE j # n + 1
        <5>1. j \in 1..n
          BY <1>9, <4>2
        <5> QED
          BY <1>9, <1>10, <3>1, <3>4, <5>1
      <4> QED
        BY <4>1, <4>2
    <3> QED
      BY <3>3, <3>4
  <2> QED
    BY <2>1, <2>2
<1>12. Traced(msg')
  BY <1>4, <1>8, <1>11 DEF Traced, gg, ff
<1> QED
  BY <1>7, <1>12

\* What is reported of a request.
LEMMA ReportFields ==
    ASSUME NEW s, NEW m
    PROVE  /\ Report(s, m).status = s /\ Report(s, m).msg = m
           /\ Report(s, m).key = RateKey(m).key
           /\ s = "served" =>
                 Report(s, m).forwarded = Forwarded(Dispatch(Patterns, m), m)
BY DEF Report

\* The level that every endpoint asks for is one that the guards know.
LEMMA PatternAuth ==
    ASSUME Accepted(routes), NEW p \in Patterns
    PROVE  p.auth \in {"none", "user", "admin"}
<1>1. CASE p \in BuiltIn
  BY <1>1, BuiltInCases
<1>2. CASE p \in Registered(routes)
  <2>1. PICK i \in DOMAIN routes : \E a \in ToSet(routes[i].methods) :
           p = PatternOf(routes[i], a)
    BY <1>2, RegisteredIs
  <2>2. PICK a \in ToSet(routes[i].methods) : p = PatternOf(routes[i], a)
    BY <2>1
  <2>3. p.auth = routes[i].auth
    BY <2>2, PatternFields
  <2>4. ValidLimits(routes[i])
    BY DEF Accepted, Validate
  <2> QED
    BY <2>3, <2>4 DEF ValidLimits
<1> QED
  BY <1>1, <1>2 DEF Patterns

\* What can become of a request that the limiter admits.
LEMMA OutcomeIs ==
    ASSUME Accepted(routes), NEW m \in Message
    PROVE  /\ Outcome(m) # "rate limited" /\ Outcome(m) # "limiter error"
           /\ Outcome(m) = "served" => /\ Dispatch(Patterns, m) # None
                                       /\ ~(BodyLimit(m) > 0 /\ m.size > BodyLimit(m))
<1> DEFINE p == Dispatch(Patterns, m)
           g == Guard(p.auth, m)
<1>1. Outcome(m) = CASE p = None             -> "not found"
                     [] p # None /\ g # "ok" -> g
                     [] p # None /\ g = "ok" ->
                           IF BodyLimit(m) > 0 /\ m.size > BodyLimit(m)
                           THEN "too large" ELSE "served"
  BY DEF Outcome
<1>2. p # None => p \in Patterns
  BY NoneIsNoPattern, PatternPath, DispatchChooses
<1>3. p # None => g \in {"ok", "unauthorized", "forbidden"}
  BY <1>2, PatternAuth DEF Guard, RequireVerifiedUser, RequireAdmin
<1> HIDE DEF p, g
<1>4. CASE p = None
  <2>1. Outcome(m) = "not found"
    BY <1>1, <1>4
  <2> QED
    BY <2>1
<1>5. CASE p # None /\ g # "ok"
  <2>1. Outcome(m) = g
    BY <1>1, <1>5
  <2> QED
    BY <1>3, <1>5, <2>1
<1>6. CASE p # None /\ g = "ok"
  <2>1. Outcome(m) = IF BodyLimit(m) > 0 /\ m.size > BodyLimit(m)
                     THEN "too large" ELSE "served"
    BY <1>1, <1>6
  <2> QED
    BY <1>6, <2>1 DEF p
<1> QED
  BY <1>4, <1>5, <1>6

\* The status that Serve reports.
Decision ==
    IF Copies(RateKey(msg).key, counted') <= RateKey(msg).limit
    THEN Outcome(msg) ELSE "rate limited"

\* Every step keeps the invariant.
LEMMA GatewayInvStep ==
    ASSUME GatewayInv, [Next]_vars
    PROVE  GatewayInv'
<1> USE DEF GatewayInv
<1>1. CASE Start
  <2>1. state = "down" /\ msg = None /\ last = None
        /\ BagToSet(counted) = {} /\ BagToSet(asked) = {}
    BY <1>1 DEF Start, StartInv
  <2>2. CountInv'
    BY <1>1, <2>1, CountStays DEF Start
  <2>3. WayInv' /\ LastInv'
    BY <1>1, <2>1 DEF Start, WayInv, LastInv
  <2>4. routes' \in RouteFiles /\ (state' = "up" => Validate(routes'))
        /\ state' \in {"down", "up", "refused"}
    BY <1>1 DEF Start
  <2>5. /\ msg' = None /\ last' = None
        /\ BagToSet(counted') = {} /\ BagToSet(asked') = {}
    BY <1>1, <2>1 DEF Start
  <2>6. StartInv'
    BY <2>4, <2>5 DEF StartInv, Accepted
  <2> QED
    BY <2>2, <2>3, <2>6
<1>2. ASSUME NEW r \in Requests, Send(r)
      PROVE  GatewayInv'
  <2>1. r \in Request
    BY InputAssumption
  <2>2. msg' \in Message /\ msg'.peer = msg'.from
    BY <1>2, <2>1 DEF Send, Request, Message
  <2>3. WayInv'
    BY <2>2 DEF WayInv, Traced
  <2>4. CountInv'
    BY <1>2, CountStays DEF Send
  <2>5. StartInv' /\ LastInv'
    BY <1>2 DEF Send, StartInv, LastInv
  <2> QED
    BY <2>3, <2>4, <2>5
<1>3. CASE Forward
  <2>1. WayInv'
    BY <1>3, ForwardTraced DEF WayInv
  <2>2. CountInv'
    BY <1>3, CountStays DEF Forward
  <2>3. LastInv'
    BY <1>3, LastStays DEF Forward
  <2>4. StartInv'
    BY <1>3 DEF Forward, StartInv
  <2> QED
    BY <2>1, <2>2, <2>3, <2>4
<1>4. CASE Serve
  <2>1. msg # None /\ state = "up" /\ Accepted(routes)
    BY <1>4 DEF Serve, Arrived, StartInv
  <2>2. PICK m \in Message : m = msg /\ Traced(m)
    BY <2>1 DEF WayInv
  <2>3. GoodKey(RateKey(m).key) /\ Account(m) = AccountOf(RateKey(m).key)
    BY <2>1, <2>2, Charged
  <2>4. /\ counted' = counted (+) SetToBag({RateKey(m).key})
        /\ asked' = asked (+) SetToBag({AccountOf(RateKey(m).key)})
        /\ routes' = routes /\ state' = state /\ msg' = None
    BY <1>4, <2>2, <2>3 DEF Serve
  <2>5. CountInv'
    BY <2>3, <2>4, CountGrows
  <2>6. last' = Report(Decision, m)
    BY <1>4, <2>2 DEF Serve, Decision
  <2>7. Decision = Outcome(m) \/ Decision = "rate limited"
    BY <2>2 DEF Decision
  <2>8. /\ last'.status = Decision /\ last'.msg = m /\ last'.key = RateKey(m).key
        /\ Decision = "served" =>
              last'.forwarded = Forwarded(Dispatch(Patterns, m), m)
    BY <2>6, ReportFields
  <2>9. /\ RateKey(m)' = RateKey(m)
        /\ Outcome(m)' = Outcome(m)
        /\ Forwarded(Dispatch(Patterns, m), m)' = Forwarded(Dispatch(Patterns, m), m)
    BY <2>4, RoutesStay
  <2>10. LastInv'
    BY <2>2, <2>7, <2>8, <2>9 DEF LastInv
  <2>11. StartInv' /\ WayInv'
    BY <2>1, <2>4 DEF StartInv, WayInv
  <2> QED
    BY <2>5, <2>10, <2>11
<1>5. CASE LimiterFails
  <2>1. msg # None
    BY <1>5 DEF LimiterFails, Arrived
  <2>2. PICK m \in Message : m = msg /\ Traced(m)
    BY <2>1 DEF WayInv
  <2>3. /\ last'.status = "limiter error" /\ last'.msg = m
        /\ last'.key = RateKey(m).key
    BY <1>5, <2>2, ReportFields DEF LimiterFails
  <2>4. RateKey(m)' = RateKey(m)
    BY <1>5, RoutesStay DEF LimiterFails
  <2>5. LastInv'
    BY <2>2, <2>3, <2>4 DEF LastInv
  <2>6. CountInv'
    BY <1>5, CountStays DEF LimiterFails
  <2>7. StartInv' /\ WayInv'
    BY <1>5, <2>1 DEF LimiterFails, StartInv, WayInv
  <2> QED
    BY <2>5, <2>6, <2>7
<1>6. CASE UNCHANGED vars
  <2>1. CountInv'
    BY <1>6, CountStays DEF vars
  <2>2. LastInv'
    BY <1>6, LastStays DEF vars
  <2>3. StartInv' /\ WayInv'
    BY <1>6 DEF vars, StartInv, WayInv
  <2> QED
    BY <2>1, <2>2, <2>3
<1>7. CASE Finished
  BY <1>6, <1>7 DEF Finished
<1> QED
  BY <1>1, <1>2, <1>3, <1>4, <1>5, <1>6, <1>7 DEF Next

\* In every behaviour of the gateway.
THEOREM GatewayInvHolds == Spec => []GatewayInv
BY GatewayInvInit, GatewayInvStep, PTL DEF Spec

-----------------------------------------------------------------------------
(***************************************************************************)
(* The properties.                                                         *)
(***************************************************************************)

\* Requests are counted under a verified user or a client's own address, and
\* what RateLimit has counted is what callers asked: whatever headers the
\* requests came with, and whichever trusted proxies they passed.
THEOREM GatewayTypes == Spec => []TypeOK
<1>1. ASSUME GatewayInv
      PROVE  TypeOK
  <2>1. CountInv
    BY <1>1 DEF GatewayInv
  <2>2. \A k \in BagToSet(counted) :
           k.id \in IF k.by = "user" THEN Subjects ELSE Clients
    BY <2>1 DEF CountInv, GoodKey
  <2>3. \A k : AccountOf(k).caller = k.id /\ AccountOf(k).class = k.class
    BY DEF AccountOf
  <2>4. ASSUME NEW k \in BagToSet(counted)
        PROVE  AccountOf(k) \in BagToSet(asked) /\ SameCount(k, AccountOf(k))
    <3>1. GoodKey(k) /\ AccountOf(k) \in BagToSet(asked)
      BY <2>1 DEF CountInv
    <3>2. Copies(k, counted) = Copies(AccountOf(k), asked)
      BY <2>1, <3>1, CopiesAgree
    <3> QED
      BY <2>3, <3>1, <3>2 DEF SameCount
  <2>5. ASSUME NEW a \in BagToSet(asked)
        PROVE  /\ a.caller \in Subjects \cup Clients
               /\ \E k \in BagToSet(counted) : SameCount(k, a)
    <3>1. PICK k \in BagToSet(counted) : a = AccountOf(k)
      BY <2>1 DEF CountInv
    <3> QED
      BY <2>2, <2>3, <2>4, <3>1
  <2>6. /\ state \in {"down", "up", "refused"} /\ routes \in RouteFiles \cup {<< >>}
        /\ msg \in Message \cup {None}
    BY <1>1 DEF GatewayInv, StartInv, WayInv
  <2> QED
    BY <2>2, <2>4, <2>5, <2>6 DEF TypeOK
<1> QED
  BY <1>1, GatewayInvHolds, PTL

\* No file of extension routes that passes Validate takes a request away from a
\* built-in endpoint.
THEOREM BuiltInsAreSafe == Spec => []BuiltInsStay
<1>1. ASSUME GatewayInv
      PROVE  BuiltInsStay
  <2>1. SUFFICES ASSUME msg # None, Dispatch(BuiltIn, msg) # None
                 PROVE  Dispatch(Patterns, msg) = Dispatch(BuiltIn, msg)
    BY DEF BuiltInsStay
  <2>2. Accepted(routes) /\ msg \in Message
    BY <1>1, <2>1 DEF GatewayInv, StartInv, WayInv
  <2> QED
    BY <2>1, <2>2, DispatchStays
<1> QED
  BY <1>1, GatewayInvHolds, PTL

\* The key of a request that Set.Match gives a route.
LEMMA ExtensionKey ==
    ASSUME Accepted(routes), NEW m \in Message, NEW i \in DOMAIN routes,
           Match(m) = routes[i]
    PROVE  /\ RateKey(m).key.class = <<"ext", routes[i].name>>
           /\ routes[i].auth # "none" /\ Claims(m) # None =>
                 /\ RateKey(m).key.by = "user"
                 /\ RateKey(m).key.id = Claims(m).subject
<1> DEFINE r == routes[i]
<1>1. RateClass(m) = LimitsOf(r) /\ LimitsOf(r) # None
  BY RouteIsNotNone DEF RateClass
<1>2. LimitsOf(r).name = r.name /\ (LimitsOf(r).perIPOnly <=> r.auth = "none")
  BY DEF LimitsOf
<1> HIDE DEF r
<1>3. RateKey(m).key.class = <<"ext", r.name>>
  BY <1>1, <1>2 DEF RateKey, Key
<1>4. ASSUME r.auth # "none", Claims(m) # None
      PROVE  /\ RateKey(m).key.by = "user"
             /\ RateKey(m).key.id = Claims(m).subject
  BY <1>1, <1>2, <1>4 DEF RateKey, Key
<1> QED
  BY <1>3, <1>4 DEF r

\* The pattern of an extension that fits a request is that of a route with the
\* request's method.
LEMMA ExtensionPattern ==
    ASSUME Accepted(routes), NEW m \in Message, m.method # "HEAD",
           NEW p \in Patterns, p \notin BuiltIn, Fits(p, m)
    PROVE  \E i \in DOMAIN routes :
              /\ p = PatternOf(routes[i], m.method)
              /\ m.method \in ToSet(routes[i].methods)
              /\ p.path = routes[i].path
              /\ MatchesPath(routes[i].path, m.path)
<1>1. PICK i \in DOMAIN routes : \E a \in ToSet(routes[i].methods) :
         p = PatternOf(routes[i], a)
  BY RegisteredIs DEF Patterns
<1>2. PICK a \in ToSet(routes[i].methods) : p = PatternOf(routes[i], a)
  BY <1>1
<1>3. p.method = a /\ p.path = routes[i].path
  BY <1>2, PatternFields
<1>4. a \in {"GET", "POST", "PUT", "DELETE"}
  BY <1>1, <1>2 DEF Accepted, Validate
<1>5. a = m.method
  BY <1>3, <1>4 DEF Fits
<1> QED
  BY <1>2, <1>3, <1>5 DEF Fits

\* An escaped slash leads a request from the extension route that its path
\* names to a tree around it at most.
LEMMA EscapesLeadOut ==
    ASSUME Accepted(routes), NEW m \in Message, m.method # "HEAD",
           Dispatch(Patterns, m) # None, Dispatch(Patterns, m) \notin BuiltIn
    PROVE  LET p == Dispatch(Patterns, m) IN
           /\ Asked(m) # None /\ Asked(m) \notin BuiltIn
           /\ Asked(m) # p => /\ IsTree(p.path)
                              /\ Width(p.path) < Width(Asked(m).path)
<1> DEFINE p == Dispatch(Patterns, m)
           q == Asked(m)
<1>1. p \in Patterns /\ Handles(p, m) /\ p \notin BuiltIn
  BY NoneIsNoPattern, PatternPath, DispatchChooses
<1>2. /\ q = None => \A r \in Patterns : ~Fits(r, m)
      /\ q # None => /\ q \in Patterns /\ Fits(q, m)
                     /\ \A r \in Patterns : Fits(r, m) => Width(r.path) <= Width(q.path)
  BY AskedChooses
<1> HIDE DEF p, q
<1>3. Fits(p, m)
  BY <1>1 DEF Handles, Fits
<1>4. q # None /\ q \in Patterns /\ Fits(q, m) /\ Width(p.path) <= Width(q.path)
  BY <1>1, <1>2, <1>3
<1>5. PICK i \in DOMAIN routes :
         /\ p = PatternOf(routes[i], m.method)
         /\ m.method \in ToSet(routes[i].methods)
         /\ p.path = routes[i].path
         /\ MatchesPath(routes[i].path, m.path)
  BY <1>1, <1>3, ExtensionPattern
<1>6. q \notin BuiltIn
  BY <1>4, <1>5, BuiltInOrExtension DEF Fits
<1>7. PICK j \in DOMAIN routes :
         /\ q = PatternOf(routes[j], m.method)
         /\ m.method \in ToSet(routes[j].methods)
         /\ q.path = routes[j].path
         /\ MatchesPath(routes[j].path, m.path)
  BY <1>4, <1>6, ExtensionPattern
<1>8. /\ m.path \in Path /\ p.path \in Path /\ p.path # << >>
      /\ q.path \in Path /\ q.path # << >>
  BY <1>1, <1>4, MessagePath, PatternPath
<1>9. /\ Width(p.path) \in Nat /\ Width(q.path) \in Nat
      /\ 2 * Len(m.path) - Width(q.path) \in Nat
  BY <1>5, <1>7, <1>8, WidthBound
<1>10. CASE Width(p.path) = Width(q.path)
  <2>1. routes[i].path = routes[j].path
    BY <1>5, <1>7, <1>8, <1>10, WidthDecides
  <2>2. i = j
    BY <1>5, <1>7, <2>1, RouteUnique
  <2>3. p = q
    BY <1>5, <1>7, <2>2
  <2> QED
    BY <1>4, <1>6, <2>3 DEF p, q
<1>11. CASE Width(p.path) < Width(q.path)
  <2>1. ASSUME ~IsTree(p.path) PROVE FALSE
    <3>1. p.path = m.path
      BY <1>5, <2>1 DEF MatchesPath
    <3>2. Len(p.path) \in Nat /\ Width(p.path) = 2 * Len(p.path)
      BY <1>8, <2>1, WidthCases
    <3> QED
      BY <1>9, <1>11, <3>1, <3>2
  <2> QED
    BY <1>4, <1>6, <1>11, <2>1 DEF p, q
<1> QED
  BY <1>4, <1>9, <1>10, <1>11

\* What reaches an extension's upstream passed under the limits of the route
\* that Match finds by the decoded path.  The router serves it by that route,
\* and then it carries no token but the verified one of the user it was charged
\* to, or, led by an escaped slash, by a tree around it.  HEAD is excepted.
THEOREM LimitsAreTheRoutes == Spec => []LimitsOfTheRoute
<1>1. ASSUME GatewayInv
      PROVE  LimitsOfTheRoute
  <2>1. SUFFICES ASSUME last # None, last.status = "served",
                        last.msg.method # "HEAD",
                        Dispatch(Patterns, last.msg).ext
                 PROVE  LET p == Dispatch(Patterns, last.msg)
                            q == Asked(last.msg) IN
                        /\ last.key.class = q.class
                        /\ last.msg.size <= Owner(q).maxBody
                        /\ q # p => IsTree(p.path) /\ Width(p.path) < Width(q.path)
                        /\ q = p /\ last.forwarded # None =>
                              /\ last.key.by = "user"
                              /\ Verify[last.forwarded].subject = last.key.id
    BY DEF LimitsOfTheRoute
  <2>2. Accepted(routes)
    BY <1>1, <2>1 DEF GatewayInv, StartInv
  <2>3. PICK m \in Message :
           /\ m = last.msg /\ Traced(m) /\ last.key = RateKey(m).key
           /\ Outcome(m) = "served"
           /\ last.forwarded = Forwarded(Dispatch(Patterns, m), m)
    BY <1>1, <2>1 DEF GatewayInv, LastInv
  <2> DEFINE p == Dispatch(Patterns, m)
             q == Asked(m)
  <2>4. p # None /\ ~(BodyLimit(m) > 0 /\ m.size > BodyLimit(m))
    BY <2>2, <2>3, OutcomeIs
  <2>5. p \notin BuiltIn
    BY <2>1, <2>3, BuiltInCases
  <2>6. /\ m.method # "HEAD" /\ q # None /\ q \notin BuiltIn
        /\ q # p => IsTree(p.path) /\ Width(p.path) < Width(q.path)
    BY <2>1, <2>2, <2>3, <2>4, <2>5, EscapesLeadOut
  <2>7. PICK i \in DOMAIN routes :
           /\ Match(m) = routes[i] /\ Owner(q) = routes[i]
           /\ q.class = <<"ext", routes[i].name>>
    BY <2>2, <2>6, MatchServes
  <2>8. /\ RateKey(m).key.class = <<"ext", routes[i].name>>
        /\ routes[i].auth # "none" /\ Claims(m) # None =>
              /\ RateKey(m).key.by = "user"
              /\ RateKey(m).key.id = Claims(m).subject
    BY <2>2, <2>7, ExtensionKey
  <2>9. m.size <= routes[i].maxBody
    <3>1. BodyLimit(m) = routes[i].maxBody
      BY <2>2, <2>7, RouteIsNotNone DEF BodyLimit
    <3>2. m.size \in Nat /\ routes[i].maxBody \in Int
      BY <2>2, RoutePath DEF Message, RouteConfig
    <3>3. routes[i].maxBody > 0
      BY <2>2 DEF Accepted, Validate, ValidLimits
    <3> QED
      BY <2>4, <3>1, <3>2, <3>3
  <2>10. ASSUME q = p, Forwarded(p, m) # None
         PROVE  /\ RateKey(m).key.by = "user"
                /\ Verify[Forwarded(p, m)].subject = RateKey(m).key.id
    <3>1. routes[i].forward /\ Forwarded(p, m) = Jwt(m)
      BY <2>7, <2>10 DEF Forwarded
    <3>2. Claims(m) # None /\ Jwt(m) = Token(m)
      BY <2>10, <3>1 DEF Jwt
    <3>3. ValidLimits(routes[i])
      BY <2>2 DEF Accepted, Validate
    <3>4. routes[i].auth # "none"
      BY <3>1, <3>3 DEF ValidLimits
    <3>5. Claims(m) = Verify[Token(m)]
      BY <3>2, ClaimsSubject
    <3> QED
      BY <2>8, <3>1, <3>2, <3>4, <3>5
  <2> QED
    BY <2>3, <2>6, <2>7, <2>8, <2>9, <2>10
<1> QED
  BY <1>1, GatewayInvHolds, PTL

\* RateLimit turns a request away exactly when its true caller has used up its
\* own budget for the endpoint that its path names.
THEOREM BudgetsAreOwn == Spec => BudgetIsOwn
<1>1. ASSUME GatewayInv, [Next]_vars
      PROVE  [Arrived /\ msg' = None /\ last'.status # "limiter error"
              => (last'.status = "rate limited" <=>
                     Copies(Account(msg), asked) >= Account(msg).budget)]_vars
  <2>1. SUFFICES ASSUME Arrived, msg' = None, last'.status # "limiter error"
                 PROVE  last'.status = "rate limited" <=>
                           Copies(Account(msg), asked) >= Account(msg).budget
    OBVIOUS
  <2>2. msg # None /\ msg.via = << >> /\ state = "up" /\ Accepted(routes)
    BY <1>1, <2>1 DEF Arrived, GatewayInv, StartInv
  <2>3. PICK m \in Message : m = msg /\ Traced(m)
    BY <1>1, <2>2 DEF GatewayInv, WayInv
  <2>4. Serve
    <3>1. ~Start /\ ~Forward /\ ~Finished /\ ~UNCHANGED vars
          /\ \A r \in Requests : ~Send(r)
      BY <2>1, <2>2 DEF Start, Forward, Finished, Send, vars
    <3>2. ~LimiterFails
      <4>1. SUFFICES ASSUME LimiterFails PROVE FALSE
        OBVIOUS
      <4>2. last' = Report("limiter error", m)
        BY <4>1, <2>3 DEF LimiterFails
      <4>3. Report("limiter error", m).status = "limiter error"
        BY ReportFields
      <4> QED
        BY <2>1, <4>2, <4>3
    <3> QED
      BY <1>1, <3>1, <3>2 DEF Next
  <2> DEFINE k == RateKey(m).key
             limit == RateKey(m).limit
  <2>5. /\ GoodKey(k) /\ Account(m) = AccountOf(k)
        /\ limit = Account(m).budget /\ Account(m).budget \in Int
    BY <2>2, <2>3, Charged
  <2>6. Copies(k, counted) = Copies(Account(m), asked)
        /\ Copies(k, counted) \in Nat
    BY <1>1, <2>5, CopiesAgree DEF GatewayInv
  <2>7. counted' = counted (+) SetToBag({k}) /\ last' = Report(Decision, m)
    BY <2>3, <2>4 DEF Serve, Decision
  <2>8. last'.status = Decision
    BY <2>7, ReportFields
  <2> HIDE DEF k, limit
  <2>9. Copies(k, counted') = Copies(k, counted) + 1
    <3>1. BagToSet(counted (+) SetToBag({k})) = BagToSet(counted) \cup {k}
          /\ (counted (+) SetToBag({k}))[k] = Copies(k, counted) + 1
      BY OneMore
    <3>2. k \in BagToSet(counted') /\ counted'[k] = Copies(k, counted) + 1
      BY <2>7, <3>1
    <3>3. Copies(k, counted') = counted'[k]
      BY <3>2 DEF Copies
    <3> QED
      BY <3>2, <3>3
  <2>10. Decision = IF Copies(k, counted') <= limit THEN Outcome(m)
                    ELSE "rate limited"
    BY <2>3 DEF Decision, k, limit
  <2>11. Outcome(m) # "rate limited"
    BY <2>2, OutcomeIs
  <2>12. last'.status = "rate limited" <=> ~(Copies(k, counted') <= limit)
    BY <2>8, <2>10, <2>11
  <2>13. ~(Copies(k, counted) + 1 <= limit) <=> Copies(k, counted) >= limit
    <3>1. limit \in Int
      BY <2>5
    <3>2. Copies(k, counted) \in Nat
      BY <2>6
    <3> QED
      BY <3>1, <3>2
  <2> QED
    BY <2>3, <2>5, <2>6, <2>9, <2>12, <2>13
<1> QED
  BY <1>1, GatewayInvHolds, PTL DEF Spec, BudgetIsOwn
=============================================================================
