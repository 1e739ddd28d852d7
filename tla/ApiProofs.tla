----------------------------- MODULE ApiProofs -----------------------------
(***************************************************************************)
(* Theorems about the API layer, which stands before the services.         *)
(*                                                                         *)
(* HttpApi, for any requests, whatever their targets, bodies and numbers:  *)
(* routing is unambiguous, handlers of plain targets work with the         *)
(* identifier routed by, and the answers are among those of the API.       *)
(*                                                                         *)
(* RateLimiter, for every rate, burst, tick and number of users: the       *)
(* buckets stay within their capacity, the allowed requests within the     *)
(* rate, and a user that obeys Retry-After is allowed.                     *)
(***************************************************************************)
EXTENDS HttpApi, RateLimiter, TLAPS

-----------------------------------------------------------------------------
(* The patterns by method, and by their number of parts: what is not a     *)
(* parameter tells two of a kind apart.                                    *)
LEMMA RouteIsPair == ASSUME NEW r \in Routes PROVE r = <<r[1], r[2]>>
BY DEF Routes

LEMMA PatternsOf ==
  ASSUME NEW r \in Routes
  PROVE  \/ r[1] = "POST" /\ r[2] \in {<<"auth", "register">>, <<"auth", "login">>, <<"orders">>}
         \/ r[1] = "DELETE" /\ r[2] = <<"orders", Param>>
         \/ r[1] = "GET" /\ r[2] \in {<<"orders", Param>>, <<"trades", Param>>,
                                      <<"cards">>, <<"cards", Param>>}
         \/ r[1] = "GET" /\ \E x \in {"orders", "portfolio", "stats", "trades"} :
                              r[2] = <<"users", Param, x>>
         \/ r[1] = "GET" /\ \E x \in {"orderbook", "trades", "candles", "analytics", "price"} :
                              r[2] = <<"cards", Param, x>>
<1>1. CASE r \in {"POST"} \X {<<"auth", "register">>, <<"auth", "login">>, <<"orders">>}
  BY <1>1
<1>2. CASE r = <<"DELETE", <<"orders", Param>>>>
  BY <1>2
<1>3. ASSUME NEW q \in {<<"orders", Param>>, <<"trades", Param>>, <<"cards">>, <<"cards", Param>>},
             r = <<"GET", q>>
      PROVE  r[1] = "GET" /\ r[2] \in {<<"orders", Param>>, <<"trades", Param>>,
                                       <<"cards">>, <<"cards", Param>>}
  BY <1>3
<1>4. ASSUME NEW x \in {"orders", "portfolio", "stats", "trades"},
             r = <<"GET", <<"users", Param, x>>>>
      PROVE  r[1] = "GET" /\ r[2] = <<"users", Param, x>>
  BY <1>4
<1>5. ASSUME NEW x \in {"orderbook", "trades", "candles", "analytics", "price"},
             r = <<"GET", <<"cards", Param, x>>>>
      PROVE  r[1] = "GET" /\ r[2] = <<"cards", Param, x>>
  BY <1>5
<1> QED
  BY <1>1, <1>2, <1>3, <1>4, <1>5 DEF Routes

LEMMA OnePattern ==
  ASSUME NEW r \in Routes, NEW s \in Routes, r[1] = s[1], NEW path,
         MatchesPattern(path, r[2]), MatchesPattern(path, s[2])
  PROVE  r = s
<1> SUFFICES r[2] = s[2]
  BY RouteIsPair
<1> DEFINE parts == Parts(path)
           Fits(pattern) == /\ Len(parts) = Len(pattern)
                            /\ \A i \in 1 .. Len(pattern) : pattern[i] \in {Param, parts[i]}
<1>1. Fits(r[2]) /\ Fits(s[2])
  BY DEF MatchesPattern
<1> HIDE DEF parts
<1>2. ASSUME NEW x, Fits(<<x>>)
      PROVE  Len(parts) = 1 /\ x \in {Param, parts[1]}
  BY <1>2
<1>3. ASSUME NEW x, NEW y, Fits(<<x, y>>)
      PROVE  Len(parts) = 2 /\ x \in {Param, parts[1]} /\ y \in {Param, parts[2]}
  <2>1. Len(<<x, y>>) = 2 /\ <<x, y>>[1] = x /\ <<x, y>>[2] = y
    OBVIOUS
  <2> QED
    BY <1>3, <2>1
<1>4. ASSUME NEW x, NEW y, NEW z, Fits(<<x, y, z>>)
      PROVE  Len(parts) = 3 /\ x \in {Param, parts[1]} /\ z \in {Param, parts[3]}
  <2>1. Len(<<x, y, z>>) = 3 /\ <<x, y, z>>[1] = x /\ <<x, y, z>>[3] = z
    OBVIOUS
  <2> QED
    BY <1>4, <2>1
<1> HIDE DEF Fits
<1>5. CASE r[1] = "POST"
  <2>1. \A q \in {r, s} : q[2] \in {<<"auth", "register">>, <<"auth", "login">>, <<"orders">>}
    BY <1>5, PatternsOf
  <2> QED
    BY <1>1, <1>2, <1>3, <2>1 DEF Param
<1>6. CASE r[1] = "DELETE"
  BY <1>6, PatternsOf
<1>7. CASE r[1] = "GET"
  <2>1. \A q \in {r, s} :
          \/ q[2] = <<"cards">>
          \/ q[2] \in {<<"orders", Param>>, <<"trades", Param>>, <<"cards", Param>>}
          \/ \E x \in {"orders", "portfolio", "stats", "trades"} : q[2] = <<"users", Param, x>>
          \/ \E x \in {"orderbook", "trades", "candles", "analytics", "price"} :
               q[2] = <<"cards", Param, x>>
    BY <1>7, PatternsOf
  <2>2. CASE Len(parts) = 1
    <3>1. \A q \in {r, s} : q[2] = <<"cards">>
      BY <1>1, <1>3, <1>4, <2>1, <2>2
    <3> QED
      BY <3>1
  <2>3. CASE Len(parts) = 2
    <3>1. \A q \in {r, s} : q[2] \in {<<"orders", Param>>, <<"trades", Param>>, <<"cards", Param>>}
      BY <1>1, <1>2, <1>4, <2>1, <2>3
    <3>2. \A x \in {"orders", "trades", "cards"} : Fits(<<x, Param>>) => x = parts[1]
      BY <1>3 DEF Param
    <3> QED
      BY <1>1, <3>1, <3>2
  <2>4. CASE Len(parts) = 3
    <3>1. \A q \in {r, s} : \E x \in {"users", "cards"} :
            \E y \in {"orders", "portfolio", "stats", "trades",
                      "orderbook", "candles", "analytics", "price"} : q[2] = <<x, Param, y>>
      <4>1. ASSUME NEW q \in {r, s}
            PROVE  q[2] # <<"cards">> /\ \A x \in {"orders", "trades", "cards"} : q[2] # <<x, Param>>
        BY <1>1, <1>2, <1>3, <2>4, <4>1
      <4> QED
        BY <2>1, <4>1
    <3>2. ASSUME NEW x \in {"users", "cards"},
                 NEW y \in {"orders", "portfolio", "stats", "trades",
                            "orderbook", "candles", "analytics", "price"},
                 Fits(<<x, Param, y>>)
          PROVE  x = parts[1] /\ y = parts[3]
      BY <1>4, <3>2 DEF Param
    <3> QED
      BY <1>1, <3>1, <3>2
  <2> QED
    <3>1. Len(parts) \in {1, 2, 3}
      BY <1>1, <1>2, <1>3, <1>4, <2>1
    <3> QED
      BY <2>2, <2>3, <2>4, <3>1
<1> QED
  BY <1>5, <1>6, <1>7, PatternsOf

(* No target, whatever a client sends, is matched by two routes, so that   *)
(* the order in which get_route_key meets the patterns does not matter.    *)
THEOREM RoutingIsUnambiguous == Spec => []RoutesAreUnambiguous
<1>1. RoutesAreUnambiguous
  <2>1. ASSUME NEW method, NEW target, NEW r \in RouteKeys(method, target),
               NEW s \in RouteKeys(method, target)
        PROVE  r = s
    <3>1. CASE <<method, target.path>> \in Routes
      BY <3>1 DEF RouteKeys
    <3>2. CASE <<method, target.path>> \notin Routes
      <4>1. /\ r \in Routes /\ r[1] = method /\ MatchesPattern(target.path, r[2])
            /\ s \in Routes /\ s[1] = method /\ MatchesPattern(target.path, s[2])
        BY <3>2 DEF RouteKeys
      <4> QED
        BY <4>1, OnePattern
    <3> QED
      BY <3>1, <3>2
  <2> QED
    BY <2>1 DEF RoutesAreUnambiguous
<1> QED
  BY <1>1, PTL

-----------------------------------------------------------------------------
(* The routes whose handler takes an identifier, and what it takes.        *)
Ends == {"orderbook", "trades", "candles", "analytics", "price"}

LEMMA IdentifierRoutes ==
  ASSUME NEW r \in Routes, TakesIdentifier(r)
  PROVE  \/ \E x \in {"orders", "trades", "cards"} : r[2] = <<x, Param>>
         \/ \E y \in Ends : r[2] = <<"cards", Param, y>>
<1>1. \A x : Len(<<x>>) = 1 /\ \A y, z : <<x, y, z>>[1] = x
  OBVIOUS
<1>2. r[2] # <<"auth", "register">> /\ r[2] # <<"auth", "login">>
  BY DEF TakesIdentifier
<1>3. \A x \in {"orders", "cards"} : r[2] # <<x>>
  <2> SUFFICES ASSUME NEW x, r[2] = <<x>> PROVE FALSE
    OBVIOUS
  <2>1. Len(r[2]) = 1
    BY <1>1
  <2> QED
    BY <2>1 DEF TakesIdentifier
<1>4. \A y : r[2] # <<"users", Param, y>>
  BY <1>1 DEF TakesIdentifier
<1> QED
  BY <1>2, <1>3, <1>4, PatternsOf DEF Ends

LEMMA ParameterIsSecond ==
  ASSUME NEW r, NEW target, NEW x, x # Param,
         r[2] = <<x, Param>> \/ \E y \in Ends : r[2] = <<x, Param, y>>
  PROVE  Bound(r, target) = <<Parts(target.path)[2]>>
<1>1. /\ r[2][1] = x /\ r[2][2] = Param
      /\ Len(r[2]) = 2 \/ (Len(r[2]) = 3 /\ r[2][3] # Param)
  <2>1. CASE r[2] = <<x, Param>>
    BY <2>1
  <2>2. ASSUME NEW y \in Ends, r[2] = <<x, Param, y>>
        PROVE  r[2][1] = x /\ r[2][2] = Param /\ Len(r[2]) = 3 /\ r[2][3] = y
    BY <2>2
  <2>3. \A y \in Ends : y # Param
    BY DEF Ends, Param
  <2> QED
    BY <2>1, <2>2, <2>3
<1>2. \A i \in 1 .. Len(r[2]) : r[2][i] = Param <=> i = 2
  <2> SUFFICES ASSUME NEW i \in 1 .. Len(r[2]) PROVE r[2][i] = Param <=> i = 2
    OBVIOUS
  <2>1. i = 1 \/ i = 2 \/ (i = 3 /\ Len(r[2]) = 3)
    <3>1. CASE Len(r[2]) = 2
      BY <3>1
    <3>2. CASE Len(r[2]) = 3
      BY <3>2
    <3> QED
      BY <1>1, <3>1, <3>2
  <2> QED
    BY <1>1, <2>1
<1>3. (CHOOSE i \in 1 .. Len(r[2]) : r[2][i] = Param) = 2
  BY <1>1, <1>2
<1> QED
  BY <1>3 DEF Bound

(* The first "/cards/" is the first part, and no part before the last is   *)
(* named as it, unless the card is.                                        *)
LEMMA BetweenIsSecond ==
  ASSUME NEW target, target.path \in Seq(STRING), Len(target.path) = 3,
         target.path[1] = "cards", NEW y \in Ends, target.path[3] = y, target.path[2] # y
  PROVE  Between(target, y) = <<target.path[2]>>
<1> DEFINE path == target.path
           Place(s) == CHOOSE i \in 1 .. Len(path) :
                         path[i] = s /\ \A j \in 1 .. i - 1 : path[j] # s
<1>1. Len(path) = 3 /\ path[1] = "cards" /\ path[3] = y /\ path[2] # y /\ y # "cards"
  BY DEF Ends
<1>2. Place("cards") = 1
  <2>1. path[1] = "cards" /\ \A j \in 1 .. 1 - 1 : path[j] # "cards"
    BY <1>1
  <2>2. ASSUME NEW i \in 1 .. Len(path), \A j \in 1 .. i - 1 : path[j] # "cards"
        PROVE  i = 1
    <3> SUFFICES ASSUME i # 1 PROVE FALSE
      OBVIOUS
    <3>1. 1 \in 1 .. i - 1
      BY <1>1
    <3> QED
      BY <1>1, <2>2, <3>1
  <2>3. 1 \in 1 .. Len(path)
    BY <1>1
  <2> HIDE DEF path
  <2> QED
    BY <2>1, <2>2, <2>3
<1>3. Place(y) = 3
  <2>1. path[3] = y /\ \A j \in 1 .. 3 - 1 : path[j] # y
    <3> SUFFICES ASSUME NEW j \in 1 .. 3 - 1 PROVE path[j] # y
      BY <1>1
    <3>1. j = 1 \/ j = 2
      OBVIOUS
    <3> QED
      BY <1>1, <3>1
  <2>2. ASSUME NEW i \in 1 .. Len(path), path[i] = y
        PROVE  i = 3
    <3>1. i = 1 \/ i = 2 \/ i = 3
      BY <1>1
    <3> QED
      BY <1>1, <2>2, <3>1
  <2>3. 3 \in 1 .. Len(path)
    BY <1>1
  <2> HIDE DEF path
  <2> QED
    BY <2>1, <2>2, <2>3
<1>4. Between(target, y) =
        SubSeq(path, Place("cards") + 1,
               IF Place(y) = Place("cards") + 1 THEN Len(path) ELSE Place(y) - 1)
  BY DEF Between
<1>5. Between(target, y) = SubSeq(path, 2, 2)
  <2>1. \A a, b : a = 1 /\ b = 3 => (IF b = a + 1 THEN Len(path) ELSE b - 1) = 2 /\ a + 1 = 2
    OBVIOUS
  <2> DEFINE first == Place("cards")
             last == Place(y)
  <2>2. first = 1 /\ last = 3
    BY <1>2, <1>3
  <2>3. Between(target, y) = SubSeq(path, first + 1, IF last = first + 1 THEN Len(path) ELSE last - 1)
    BY <1>4
  <2> HIDE DEF first, last
  <2> QED
    BY <2>1, <2>2, <2>3
<1>6. path \in Seq(STRING)
  OBVIOUS
<1> HIDE DEF path
<1>7. SubSeq(path, 2, 2) = <<path[2]>>
  <2>1. \A i \in 1 .. 1 : path[2 + i - 1] = path[2]
    OBVIOUS
  <2>2. /\ SubSeq(path, 2, 2) \in Seq(STRING) /\ Len(SubSeq(path, 2, 2)) = 1
        /\ SubSeq(path, 2, 2)[1] = path[2]
    BY <1>1, <1>6
  <2>3. ASSUME NEW q \in Seq(STRING), Len(q) = 1 PROVE q = <<q[1]>>
    BY <2>3
  <2> QED
    BY <2>2, <2>3
<1> QED
  BY <1>5, <1>7 DEF path

LEMMA IdentifierIsBound ==
  ASSUME NEW target \in Target, NEW method, NEW r \in RouteKeys(method, target),
         TakesIdentifier(r), Parts(target.path) = target.path,
         target.query => TakesQuery(r),
         Len(r[2]) = 3 => Bound(r, target) # <<r[2][3]>>
  PROVE  Extracted(r, target) = Bound(r, target)
<1> DEFINE path == target.path
<1>1. path \in Seq(STRING) /\ target.query \in BOOLEAN
  BY DEF Target
<1>2. r \in Routes /\ Len(path) = Len(r[2])
      /\ \A i \in 1 .. Len(r[2]) : r[2][i] \in {Param, path[i]}
  <2>1. CASE <<method, target.path>> \in Routes
    BY <2>1 DEF RouteKeys
  <2>2. CASE <<method, target.path>> \notin Routes
    BY <2>2 DEF RouteKeys, MatchesPattern
  <2> QED
    BY <2>1, <2>2
<1>3. CASE \E x \in {"orders", "trades", "cards"} : r[2] = <<x, Param>>
  <2>1. Len(r[2]) = 2 /\ r[2] # <<>>
    BY <1>3
  <2>2. Bound(r, target) = <<path[2]>>
    BY <1>3, ParameterIsSecond DEF Param
  <2>3. Extracted(r, target) = AfterLastSlash(target) /\ ~target.query /\ Len(path) = 2
    BY <1>2, <2>1 DEF Extracted, TakesQuery
  <2> QED
    BY <2>2, <2>3 DEF AfterLastSlash
<1>4. ASSUME NEW y \in Ends, r[2] = <<"cards", Param, y>>
      PROVE  Extracted(r, target) = Bound(r, target)
  <2>1. Len(r[2]) = 3 /\ r[2][1] = "cards" /\ r[2][3] = y
    BY <1>4
  <2>2. Bound(r, target) = <<path[2]>>
    BY <1>4, ParameterIsSecond DEF Param
  <2>3. Len(path) = 3 /\ path[1] = "cards" /\ path[3] = y
    <3>1. \A i \in {1, 3} : i \in 1 .. Len(r[2])
      BY <2>1
    <3> QED
      BY <1>2, <2>1, <3>1 DEF Param, Ends
  <2>4. path[2] # y
    BY <2>1, <2>2
  <2>5. CASE y \in {"orderbook", "trades"}
    <3>1. Extracted(r, target) = BetweenLastSlashes(target)
      BY <2>1, <2>5 DEF Extracted
    <3> QED
      BY <2>2, <2>3, <3>1 DEF BetweenLastSlashes
  <2>6. CASE y \notin {"orderbook", "trades"}
    <3>1. Extracted(r, target) = Between(target, y)
      BY <2>1, <2>6 DEF Extracted
    <3> QED
      BY <1>1, <2>2, <2>3, <2>4, <3>1, BetweenIsSecond
  <2> QED
    BY <2>5, <2>6
<1> QED
  BY <1>2, <1>3, <1>4, IdentifierRoutes

(* Of plain targets: when a target has no empty part, has a query only if  *)
(* its route is one of three parts, and does not name its card as the part *)
(* after it, the handler works with the part that the route's parameter    *)
(* stands for, though routing and handlers take the target apart           *)
(* differently.  It says nothing of other targets, where they disagree.    *)
THEOREM IdentifiersAreTheRoutes == Spec => []IdentifiersAreExact
<1> DEFINE Sent == request \in Requests \cup {NoRequest}
<1>1. Init => Sent
  BY DEF Init
<1>2. Sent /\ [Next]_vars => Sent'
  BY DEF Next, OnRead, OnEnd, OnWrite, vars
<1>3. Sent => IdentifiersAreExact
  <2> SUFFICES ASSUME request \in Requests, NEW r \in RouteKeys(request.method, request.target),
                      TakesIdentifier(r),
                      Parts(request.target.path) = request.target.path,
                      request.target.query => TakesQuery(r),
                      Len(r[2]) = 3 => Bound(r, request.target) # <<r[2][3]>>
               PROVE  Extracted(r, request.target) = Bound(r, request.target)
    BY DEF IdentifiersAreExact
  <2>1. request.target \in Target
    BY RequestsAssumption DEF Request
  <2> QED
    BY <2>1, IdentifierIsBound
<1> QED
  BY <1>1, <1>2, <1>3, PTL DEF Spec

-----------------------------------------------------------------------------
(* The types: every handler answers with a status and a code there are.    *)
LEMMA PlaceOrderAnswers == ASSUME NEW r PROVE PlaceOrder(r) \subseteq Answer
<1>1. /\ {Unauthorized} \subseteq Answer
      /\ {Error(429, 4005), Internal} \subseteq Answer
      /\ {Error(429, 4005), Json(200), Error(400, 4003), Internal} \subseteq Answer
      /\ {Error(429, 4005), Error(400, 4003)} \subseteq Answer
  BY DEF Unauthorized, Error, Internal, Json, Answer, Codes, NoCode
<1>2. PlaceOrder(r) \in {{Unauthorized}, {Error(429, 4005), Internal},
                        {Error(429, 4005), Json(200), Error(400, 4003), Internal},
                        {Error(429, 4005), Error(400, 4003)}}
  BY DEF PlaceOrder
<1> QED
  BY <1>1, <1>2

LEMMA RegisterAnswers == ASSUME NEW r PROVE Register(r) \subseteq Answer
<1>1. /\ {Internal} \subseteq Answer /\ {Error(400, 4006)} \subseteq Answer
      /\ {Json(201), Error(409, 4008), Internal} \subseteq Answer
  BY DEF Error, Internal, Json, Answer, Codes, NoCode
<1>2. Register(r) \in {{Internal}, {Error(400, 4006)}, {Json(201), Error(409, 4008), Internal}}
  BY DEF Register
<1> QED
  BY <1>1, <1>2

LEMMA LoginAnswers == ASSUME NEW r PROVE Login(r) \subseteq Answer
<1>1. /\ {Internal} \subseteq Answer /\ {Error(400, 4006)} \subseteq Answer
      /\ {Json(200), Error(401, 4007), Internal} \subseteq Answer
  BY DEF Error, Internal, Json, Answer, Codes, NoCode
<1>2. Login(r) \in {{Internal}, {Error(400, 4006)}, {Json(200), Error(401, 4007), Internal}}
  BY DEF Login
<1> QED
  BY <1>1, <1>2

LEMMA HandlersAnswer == ASSUME NEW route, NEW r PROVE Handle(route, r) \subseteq Answer
<1>1. Find \subseteq Answer /\ Report \subseteq Answer /\ {Unauthorized} \subseteq Answer
  BY DEF Find, Report, Unauthorized, Error, Internal, Json, Answer, Codes, NoCode
<1>2. Handle(route, r) \in {PlaceOrder(r), Register(r), Login(r), Find, Report, {Unauthorized}}
  BY DEF Handle
<1> QED
  BY <1>1, <1>2, PlaceOrderAnswers, RegisterAnswers, LoginAnswers, Zenon

LEMMA TypeOKNext == TypeOK /\ [Next]_vars => TypeOK'
<1> DEFINE Response == [answer : Answer, retry_after : BOOLEAN]
<1> SUFFICES ASSUME TypeOK, [Next]_vars PROVE TypeOK'
  OBVIOUS
<1>1. /\ pc \in {"reading", "writing", "closed"} /\ request \in Requests \cup {NoRequest}
      /\ response \in Response /\ count \in 0 .. MaxRequests
  BY DEF TypeOK
<1>2. MaxRequests \in Nat
  BY SizesAssumption
<1> HIDE DEF Response
<1>3. CASE OnRead
  <2>1. count < MaxRequests /\ pc' = "writing" /\ count' = count + 1
    BY <1>3 DEF OnRead
  <2>2. count + 1 \in 0 .. MaxRequests
    BY <1>1, <1>2, <2>1
  <2>3. \A answer \in Answer, limited \in BOOLEAN : Written(answer, limited) \in Response
    BY DEF Written, Response
  <2>4. Options \in Response
    <3>1. response.answer \in Answer
      BY <1>1 DEF Response
    <3>2. [response.answer EXCEPT !.status = 200] \in Answer
      BY <3>1 DEF Answer
    <3>3. FALSE \in BOOLEAN
      OBVIOUS
    <3> QED
      BY <2>3, <3>1, <3>2, <3>3, Zenon DEF Options
  <2>5. NotFound \in Response
    <3>1. Error(404, NoCode) \in Answer
      BY DEF Error, Answer, Codes
    <3>2. FALSE \in BOOLEAN
      OBVIOUS
    <3> QED
      BY <2>2, <2>3, <3>1, <3>2, ZenonT(60) DEF NotFound
  <2>6. PICK r \in Requests :
          /\ request' = r
          /\ \/ response' = Options
             \/ response' = NotFound
             \/ \E route : \E answer \in Handle(route, r) :
                  response' = Written(answer, answer.status = 429)
    BY <1>3 DEF OnRead
  <2>7. response' \in Response
    <3>1. CASE \E route : \E answer \in Handle(route, r) :
                 response' = Written(answer, answer.status = 429)
      <4>1. PICK answer \in Answer : response' = Written(answer, answer.status = 429)
        BY <3>1, HandlersAnswer
      <4>2. (answer.status = 429) \in BOOLEAN
        OBVIOUS
      <4> QED
        BY <2>2, <2>3, <4>1, <4>2, ZenonT(60)
    <3> QED
      BY <2>4, <2>5, <2>6, <3>1
  <2> QED
    BY <2>1, <2>2, <2>6, <2>7 DEF TypeOK, Response
<1>4. CASE OnEnd
  BY <1>1, <1>4 DEF OnEnd, TypeOK
<1>5. CASE OnWrite
  BY <1>1, <1>5 DEF OnWrite, TypeOK
<1>6. CASE UNCHANGED vars
  BY <1>1, <1>6 DEF vars, TypeOK
<1> QED
  BY <1>3, <1>4, <1>5, <1>6 DEF Next

(* Whatever is sent and however the services answer, the session waits for *)
(* its next step with a response whose status and error code are among     *)
(* those of the API, for any requests, numbers and width of an int.        *)
THEOREM HttpTypes == Spec => []TypeOK
<1>1. [status |-> 200, code |-> NoCode] \in Answer
  BY DEF Answer, Codes
<1>2. Init => TypeOK
  BY <1>1, SizesAssumption DEF Init, TypeOK
<1> QED
  BY <1>2, TypeOKNext, PTL DEF Spec

-----------------------------------------------------------------------------
(* Arithmetic *)

(* A quotient rounded down and then incremented covers the dividend.       *)
LEMMA NextMultipleCovers ==
  ASSUME NEW a \in Nat, NEW b \in Nat \ {0}
  PROVE  (a \div b + 1) * b > a /\ a \div b \in Nat
  BY SMT

(* A quotient rounded up covers the dividend.                              *)
LEMMA RoundedUpCovers ==
  ASSUME NEW a \in Nat, NEW b \in Nat \ {0}
  PROVE  ((a + b - 1) \div b) * b >= a /\ (a + b - 1) \div b \in Nat
  BY SMT

LEMMA ProductIsMonotonic ==
  ASSUME NEW a \in Nat, NEW b \in Nat, NEW c \in Nat, a <= b
  PROVE  a * c <= b * c /\ c * a <= c * b /\ a * c \in Nat
  BY SMT

LEMMA ConstantsAreNat ==
  /\ Unit \in Nat \ {0} /\ Gain \in Nat \ {0} /\ Burst \in Nat \ {0}
  /\ Millisecond \in Nat \ {0} /\ Second \in Nat \ {0}
  BY PositiveAssumption

LEMMA CapacityHoldsAToken == Capacity \in Nat /\ Capacity >= Unit
<1>1. Burst * Unit >= 1 * Unit /\ Burst * Unit \in Nat
  BY ConstantsAreNat, ProductIsMonotonic
<1> QED
  BY <1>1, ConstantsAreNat DEF Capacity

(* What a span of time gains is what its parts gain.                       *)
LEMMA GainsAdd ==
  ASSUME NEW a \in Int, NEW b \in Int, NEW c \in Int
  PROVE  Gain * (a - c) = Gain * (a - b) + Gain * (b - c)
  BY ConstantsAreNat

LEMMA GainIsNat ==
  ASSUME NEW a \in Nat, NEW b \in Nat, b <= a
  PROVE  Gain * (a - b) \in Nat
  BY ConstantsAreNat

(* refill keeps a bucket a bucket, within its capacity, and adds no more   *)
(* than the time since the last refill gains; short of a token, it adds    *)
(* just that.                                                              *)
LEMMA RefillIsBounded ==
  ASSUME LimiterTypeOK, NEW u \in User, buckets[u] # NoBucket
  PROVE  LET b == buckets[u]
             r == Refilled(b)
         IN  /\ b \in Bucket /\ b.last_refill <= clock
             /\ r \in Bucket /\ r.last_refill = clock
             /\ r.tokens <= Capacity
             /\ r.tokens <= b.tokens + Gain * (clock - b.last_refill)
             /\ r.tokens < Unit => r.tokens = b.tokens + Gain * (clock - b.last_refill)
<1> DEFINE b == buckets[u]
           gained == Gain * (clock - b.last_refill)
<1>1. b \in Bucket /\ b.last_refill <= clock /\ clock \in Nat
  BY DEF LimiterTypeOK
<1>2. b.tokens \in Nat /\ b.last_refill \in Nat
  BY <1>1 DEF Bucket
<1>3. gained \in Nat
  <2> HIDE DEF b
  <2> QED
    BY <1>1, <1>2, GainIsNat
<1>4. Refilled(b) = [tokens |-> AtMost(b.tokens + gained, Capacity), last_refill |-> clock]
  BY DEF Refilled
<1> HIDE DEF gained, b
<1>5. /\ AtMost(b.tokens + gained, Capacity) \in Nat
      /\ AtMost(b.tokens + gained, Capacity) <= Capacity
      /\ AtMost(b.tokens + gained, Capacity) <= b.tokens + gained
      /\ AtMost(b.tokens + gained, Capacity) < Unit =>
           AtMost(b.tokens + gained, Capacity) = b.tokens + gained
  BY <1>2, <1>3, CapacityHoldsAToken, ConstantsAreNat DEF AtMost
<1>6. Refilled(b) \in Bucket
  BY <1>1, <1>4, <1>5 DEF Bucket
<1>7. Refilled(b).tokens = AtMost(b.tokens + gained, Capacity) /\ Refilled(b).last_refill = clock
  BY <1>4
<1> QED
  BY <1>1, <1>5, <1>6, <1>7 DEF b, gained

-----------------------------------------------------------------------------
(* Types *)

LEMMA InitTypeOK == LimiterInit => LimiterTypeOK
  BY DEF LimiterInit, LimiterTypeOK

LEMMA TellIsLater ==
  ASSUME LimiterTypeOK, NEW u \in User, Tell(u)
  PROVE  /\ buckets[u] \in Bucket /\ buckets[u].last_refill <= clock
         /\ RetryAfter(u) \in Nat
         /\ (Gain * Millisecond) * RetryAfter(u) >= Unit - buckets[u].tokens
         /\ Header(RetryAfter(u)) * Second >= RetryAfter(u)
         /\ Header(RetryAfter(u)) \in Nat
<1>1. buckets[u] \in Bucket /\ buckets[u].last_refill <= clock
  BY DEF LimiterTypeOK, Tell
<1>2. buckets[u].tokens \in Nat
  BY <1>1 DEF Bucket
<1>3. Gain * Millisecond \in Nat \ {0}
  BY ConstantsAreNat
<1> DEFINE rate == Gain * Millisecond
           tokens == buckets[u].tokens
<1>4. RetryAfter(u) \in Nat /\ RetryAfter(u) * rate >= Unit - tokens
  <2> HIDE DEF rate, tokens
  <2>1. RetryAfter(u) = IF tokens < Unit THEN (Unit - tokens) \div rate + 1 ELSE 1
    BY DEF RetryAfter, tokens, rate
  <2>2. tokens \in Nat /\ rate \in Nat \ {0}
    BY <1>2, <1>3 DEF tokens, rate
  <2>3. CASE tokens < Unit
    <3>1. Unit - tokens \in Nat
      BY <2>2, <2>3, ConstantsAreNat
    <3> QED
      BY <2>1, <2>2, <2>3, <3>1, NextMultipleCovers
  <2>4. CASE ~(tokens < Unit)
    BY <2>1, <2>2, <2>4, ConstantsAreNat
  <2> QED
    BY <2>3, <2>4
<1>5. Header(RetryAfter(u)) * Second >= RetryAfter(u) /\ Header(RetryAfter(u)) \in Nat
  BY <1>4, ConstantsAreNat, RoundedUpCovers DEF Header
<1>6. (Gain * Millisecond) * RetryAfter(u) = RetryAfter(u) * rate
  BY <1>3, <1>4
<1> QED
  BY <1>1, <1>4, <1>5, <1>6

LEMMA NextTypeOK == LimiterTypeOK /\ [LimiterNext]_limiterVars => LimiterTypeOK'
<1> SUFFICES ASSUME LimiterTypeOK, [LimiterNext]_limiterVars PROVE LimiterTypeOK'
  OBVIOUS
<1>1. CASE Tick
  <2>1. clock' \in Nat /\ clock <= clock'
    BY <1>1 DEF Tick, LimiterTypeOK
  <2>2. \A u \in User : buckets[u] # NoBucket => buckets[u].last_refill <= clock'
    BY <2>1 DEF LimiterTypeOK, Bucket
  <2> QED
    BY <1>1, <2>1, <2>2 DEF Tick, LimiterTypeOK
<1>2. ASSUME NEW u \in User, NEW b \in Bucket, Allowed(u, b),
             b.tokens <= Capacity, b.last_refill <= clock
      PROVE  LimiterTypeOK'
  <2>1. buckets' = [buckets EXCEPT ![u] = b] /\ b # NoBucket
    BY <1>2, NoBucketAssumption DEF Allowed
  <2>2. buckets' \in [User -> Bucket \cup {NoBucket}]
    BY <1>2, <2>1 DEF LimiterTypeOK
  <2>3. \A v \in User : buckets'[v] # NoBucket =>
          buckets'[v].tokens <= Capacity /\ buckets'[v].last_refill <= clock'
    BY <1>2, <2>1 DEF Allowed, LimiterTypeOK
  <2>4. promise' \in [User -> Nat \cup {NoPromise}]
    BY <1>2 DEF Allowed, LimiterTypeOK
  <2>5. grants' \in [User -> Seq(Nat)]
    BY <1>2 DEF Allowed, LimiterTypeOK
  <2>6. refused' \in SUBSET {v \in User : buckets'[v] # NoBucket}
    BY <1>2, <2>1 DEF Allowed, LimiterTypeOK
  <2> QED
    BY <1>2, <2>2, <2>3, <2>4, <2>5, <2>6 DEF Allowed, LimiterTypeOK
<1>3. ASSUME NEW u \in User, AllowFirst(u)
      PROVE  LimiterTypeOK'
  <2> DEFINE b == [tokens |-> Capacity - Unit, last_refill |-> clock]
  <2>1. b \in Bucket /\ b.tokens <= Capacity /\ b.last_refill <= clock
    BY CapacityHoldsAToken, ConstantsAreNat DEF LimiterTypeOK, Bucket
  <2> QED
    BY <1>2, <1>3, <2>1 DEF AllowFirst
<1>4. ASSUME NEW u \in User, Allow(u)
      PROVE  LimiterTypeOK'
  <2> DEFINE r == Refilled(buckets[u])
             b == [r EXCEPT !.tokens = @ - Unit]
  <2>1. r \in Bucket /\ r.tokens <= Capacity /\ r.last_refill = clock
    BY <1>4, RefillIsBounded DEF Allow
  <2>2. r.tokens >= Unit /\ Allowed(u, b)
    BY <1>4 DEF Allow
  <2> HIDE DEF r
  <2>3. r.tokens - Unit \in Nat /\ r.tokens - Unit <= Capacity
    BY <2>1, <2>2, ConstantsAreNat, CapacityHoldsAToken DEF Bucket
  <2>4. b \in Bucket /\ b.tokens = r.tokens - Unit /\ b.last_refill = clock
    BY <2>1, <2>3 DEF Bucket
  <2>5. clock <= clock
    BY DEF LimiterTypeOK
  <2> QED
    BY <1>2, <2>2, <2>3, <2>4, <2>5
<1>5. ASSUME NEW u \in User, Refuse(u)
      PROVE  LimiterTypeOK'
  <2> DEFINE r == Refilled(buckets[u])
  <2>1. r \in Bucket /\ r.tokens <= Capacity /\ r.last_refill = clock /\ r # NoBucket
    BY <1>5, RefillIsBounded, NoBucketAssumption DEF Refuse
  <2>2. buckets' = [buckets EXCEPT ![u] = r]
    BY <1>5 DEF Refuse
  <2> HIDE DEF r
  <2>3. buckets' \in [User -> Bucket \cup {NoBucket}]
    BY <2>1, <2>2 DEF LimiterTypeOK
  <2>4. clock <= clock
    BY DEF LimiterTypeOK
  <2>5. \A v \in User : buckets'[v] # NoBucket =>
          buckets'[v].tokens <= Capacity /\ buckets'[v].last_refill <= clock
    BY <2>1, <2>2, <2>4 DEF LimiterTypeOK
  <2>6. refused' \in SUBSET {v \in User : buckets'[v] # NoBucket}
    BY <1>5, <2>1, <2>2 DEF Refuse, LimiterTypeOK
  <2> QED
    BY <1>5, <2>3, <2>5, <2>6 DEF Refuse, LimiterTypeOK
<1>6. ASSUME NEW u \in User, Tell(u)
      PROVE  LimiterTypeOK'
  <2>1. Header(RetryAfter(u)) * Second * Millisecond \in Nat
    BY <1>6, TellIsLater, ConstantsAreNat
  <2>2. clock + Header(RetryAfter(u)) * Second * Millisecond \in Nat
    BY <2>1 DEF LimiterTypeOK
  <2> QED
    BY <1>6, <2>2 DEF Tell, LimiterTypeOK
<1>7. CASE UNCHANGED limiterVars
  BY <1>7 DEF limiterVars, LimiterTypeOK
<1> QED
  BY <1>1, <1>3, <1>4, <1>5, <1>6, <1>7 DEF LimiterNext

(* The types hold.                                                         *)
THEOREM LimiterTypeCorrect == LimiterSpec => []LimiterTypeOK
<1>1. LimiterInit => LimiterTypeOK
  BY InitTypeOK
<1>2. LimiterTypeOK /\ [LimiterNext]_limiterVars => LimiterTypeOK'
  BY NextTypeOK
<1> QED
  BY <1>1, <1>2, PTL DEF LimiterSpec
-----------------------------------------------------------------------------
(* The rate *)

(* What a bucket holds, with all that was taken since one of the grants,   *)
(* is no more than its capacity and what it has gained since.              *)
Accounted(u) ==
  /\ buckets[u] = NoBucket => grants[u] = <<>>
  /\ buckets[u] # NoBucket =>
       \A i \in 1 .. Len(grants[u]) :
         buckets[u].tokens + (Len(grants[u]) - i + 1) * Unit
           <= Capacity + Gain * (buckets[u].last_refill - grants[u][i])

BoundedFor(u) ==
  \A j \in 1 .. Len(grants[u]) : \A i \in 1 .. j :
    (j - i + 1) * Unit <= Capacity + Gain * (grants[u][j] - grants[u][i])

RateInv == LimiterTypeOK /\ \A u \in User : Accounted(u) /\ BoundedFor(u)

LEMMA InitRateInv == LimiterInit => RateInv
<1> SUFFICES ASSUME LimiterInit PROVE \A u \in User : Accounted(u) /\ BoundedFor(u)
  BY InitTypeOK DEF RateInv
<1>1. ASSUME NEW u \in User PROVE Accounted(u) /\ BoundedFor(u)
  <2>1. buckets[u] = NoBucket /\ grants[u] = <<>>
    BY DEF LimiterInit
  <2>2. Len(grants[u]) = 0
    BY <2>1
  <2>3. BoundedFor(u)
    BY <2>2 DEF BoundedFor
  <2> QED
    BY <2>1, <2>3 DEF Accounted
<1> QED
  BY <1>1

(* A refill keeps the account.                                             *)
LEMMA RefillIsAccounted ==
  ASSUME LimiterTypeOK, NEW u \in User, buckets[u] # NoBucket, Accounted(u),
         NEW i \in 1 .. Len(grants[u])
  PROVE  Refilled(buckets[u]).tokens + (Len(grants[u]) - i + 1) * Unit
           <= Capacity + Gain * (clock - grants[u][i])
<1> DEFINE b == buckets[u]
           r == Refilled(b)
           taken == (Len(grants[u]) - i + 1) * Unit
           then == grants[u][i]
<1>1. r.tokens <= b.tokens + Gain * (clock - b.last_refill)
  BY RefillIsBounded
<1>2. b.tokens + taken <= Capacity + Gain * (b.last_refill - then)
  BY DEF Accounted
<1>3. b \in Bucket /\ r \in Bucket /\ clock \in Nat
  BY RefillIsBounded DEF LimiterTypeOK
<1>4. b.tokens \in Nat /\ b.last_refill \in Nat /\ r.tokens \in Nat
  BY <1>3 DEF Bucket
<1>5. grants[u] \in Seq(Nat)
  BY DEF LimiterTypeOK
<1>6. then \in Nat /\ taken \in Int
  BY <1>5, ConstantsAreNat
<1> HIDE DEF b, r, taken, then
<1> DEFINE tokens == b.tokens
           last == b.last_refill
           left == r.tokens
<1>7. tokens \in Nat /\ last \in Nat /\ left \in Nat /\ clock \in Nat
  BY <1>3, <1>4
<1>8. left <= tokens + Gain * (clock - last) /\ tokens + taken <= Capacity + Gain * (last - then)
  BY <1>1, <1>2
<1> HIDE DEF tokens, last, left
<1>9. left + taken <= Capacity + Gain * (clock - then)
  <2> DEFINE now == clock
  <2>0. now \in Int /\ last \in Int /\ then \in Int
    BY <1>6, <1>7
  <2> HIDE DEF now
  <2>1. Gain * (now - then) = Gain * (now - last) + Gain * (last - then)
    BY <2>0, GainsAdd
  <2> QED
    BY <1>6, <1>7, <1>8, <2>1, CapacityHoldsAToken, ConstantsAreNat DEF now
<1> QED
  BY <1>9 DEF b, r, taken, then, left

(* A grant now, to a bucket that is left with t tokens, is accounted for.  *)
LEMMA GrantIsAccounted ==
  ASSUME LimiterTypeOK, NEW u \in User, BoundedFor(u), NEW t \in Nat, t + Unit <= Capacity,
         \A i \in 1 .. Len(grants[u]) :
           t + Unit + (Len(grants[u]) - i + 1) * Unit <= Capacity + Gain * (clock - grants[u][i]),
         grants' = [grants EXCEPT ![u] = Append(@, clock)],
         buckets'[u].tokens = t, buckets'[u].last_refill = clock, buckets'[u] # NoBucket
  PROVE  Accounted(u)' /\ BoundedFor(u)'
<1> DEFINE n == Len(grants[u])
           g == grants[u]
<1>1. g \in Seq(Nat) /\ n \in Nat /\ clock \in Nat
  BY DEF LimiterTypeOK
<1>2. grants'[u] = Append(g, clock)
  BY DEF LimiterTypeOK
<1>3. /\ Len(grants'[u]) = n + 1
      /\ grants'[u][n + 1] = clock
      /\ \A i \in 1 .. n : grants'[u][i] = g[i] /\ g[i] \in Nat
  BY <1>1, <1>2
<1> HIDE DEF g
<1>4. ASSUME NEW i \in 1 .. n + 1
      PROVE  t + (n + 1 - i + 1) * Unit <= Capacity + Gain * (clock - grants'[u][i])
  <2>1. CASE i \in 1 .. n
    <3>1. t + Unit + (n - i + 1) * Unit <= Capacity + Gain * (clock - g[i])
      BY <2>1 DEF g
    <3>2. Unit + (n - i + 1) * Unit = (n + 1 - i + 1) * Unit
      BY <1>1, <2>1, ConstantsAreNat
    <3>3. (n - i + 1) * Unit \in Int /\ (n + 1 - i + 1) * Unit \in Int
      BY <1>1, <2>1, ConstantsAreNat
    <3> DEFINE more == (n - i + 1) * Unit
               most == (n + 1 - i + 1) * Unit
    <3>4. t + most = t + Unit + more
      <4> HIDE DEF n
      <4>1. Unit + more = most /\ more \in Int /\ most \in Int
        BY <3>2, <3>3
      <4> HIDE DEF more, most
      <4> QED
        BY <4>1, ConstantsAreNat
    <3> QED
      BY <1>3, <2>1, <3>1, <3>4
  <2>2. CASE i = n + 1
    <3>1. (n + 1 - i + 1) * Unit = Unit
      BY <1>1, <2>2, ConstantsAreNat
    <3>2. Gain * (clock - grants'[u][i]) = 0
      BY <1>1, <1>3, <2>2, ConstantsAreNat
    <3> DEFINE taken == (n + 1 - i + 1) * Unit
               gained == Gain * (clock - grants'[u][i])
    <3>3. taken = Unit /\ gained = 0
      BY <3>1, <3>2
    <3> HIDE DEF taken, gained
    <3>4. t + taken <= Capacity + gained
      BY <3>3, CapacityHoldsAToken, ConstantsAreNat
    <3> QED
      BY <3>4 DEF taken, gained
  <2> QED
    BY <1>1, <2>1, <2>2
<1>5. Accounted(u)'
  BY <1>3, <1>4 DEF Accounted, Capacity
<1>6. ASSUME NEW j \in 1 .. n + 1, NEW i \in 1 .. j
      PROVE  (j - i + 1) * Unit <= Capacity + Gain * (grants'[u][j] - grants'[u][i])
  <2>1. CASE j \in 1 .. n
    <3>1. i \in 1 .. n
      BY <1>1, <2>1
    <3> QED
      BY <1>3, <2>1, <3>1 DEF BoundedFor, g
  <2>2. CASE j = n + 1
    <3>1. i \in 1 .. n + 1 /\ i \in Int
      BY <1>1, <2>2
    <3>2. t + (n + 1 - i + 1) * Unit <= Capacity + Gain * (clock - grants'[u][i])
      BY <1>4, <3>1
    <3>3. (n + 1 - i + 1) * Unit \in Int
      BY <1>1, <3>1, ConstantsAreNat
    <3>4. grants'[u][i] \in Nat
      BY <1>1, <1>3, <3>1
    <3>5. Gain * (clock - grants'[u][i]) \in Int
      BY <1>1, <3>4, ConstantsAreNat
    <3>6. (n + 1 - i + 1) * Unit <= Capacity + Gain * (clock - grants'[u][i])
      BY <3>2, <3>3, <3>5, CapacityHoldsAToken
    <3> QED
      BY <1>3, <2>2, <3>6
  <2> QED
    BY <1>1, <2>1, <2>2
<1>7. BoundedFor(u)'
  BY <1>3, <1>6 DEF BoundedFor, Capacity
<1> QED
  BY <1>5, <1>7

LEMMA NextRateInv == RateInv /\ [LimiterNext]_limiterVars => RateInv'
<1> SUFFICES ASSUME RateInv, [LimiterNext]_limiterVars
             PROVE  \A v \in User : Accounted(v)' /\ BoundedFor(v)'
  BY NextTypeOK DEF RateInv
<1>1. LimiterTypeOK
  BY DEF RateInv
<1>2. ASSUME NEW v \in User, buckets'[v] = buckets[v], grants'[v] = grants[v]
      PROVE  Accounted(v)' /\ BoundedFor(v)'
  BY <1>2 DEF RateInv, Accounted, BoundedFor, Capacity
<1>3. ASSUME NEW u \in User, NEW b \in Bucket, Allowed(u, b), Accounted(u)' /\ BoundedFor(u)'
      PROVE  \A v \in User : Accounted(v)' /\ BoundedFor(v)'
  <2>1. ASSUME NEW v \in User, v # u PROVE buckets'[v] = buckets[v] /\ grants'[v] = grants[v]
    BY <1>1, <1>3, <2>1 DEF Allowed, LimiterTypeOK
  <2> QED
    BY <1>2, <1>3, <2>1
<1>4. ASSUME NEW u \in User, AllowFirst(u)
      PROVE  \A v \in User : Accounted(v)' /\ BoundedFor(v)'
  <2> DEFINE b == [tokens |-> Capacity - Unit, last_refill |-> clock]
  <2>1. b \in Bucket /\ b # NoBucket
    BY <1>1, CapacityHoldsAToken, ConstantsAreNat, NoBucketAssumption DEF LimiterTypeOK, Bucket
  <2>2. Allowed(u, b) /\ buckets'[u] = b /\ grants' = [grants EXCEPT ![u] = Append(@, clock)]
    BY <1>1, <1>4 DEF AllowFirst, Allowed, LimiterTypeOK
  <2>3. grants[u] = <<>> /\ Len(grants[u]) = 0 /\ BoundedFor(u)
    BY <1>4 DEF RateInv, Accounted, AllowFirst
  <2> DEFINE t == Capacity - Unit
  <2>4. t \in Nat /\ t + Unit <= Capacity
    BY CapacityHoldsAToken, ConstantsAreNat
  <2>5. buckets'[u].tokens = t /\ buckets'[u].last_refill = clock /\ buckets'[u] # NoBucket
    BY <2>1, <2>2
  <2>6. \A i \in 1 .. Len(grants[u]) :
          t + Unit + (Len(grants[u]) - i + 1) * Unit <= Capacity + Gain * (clock - grants[u][i])
    BY <2>3
  <2> HIDE DEF t
  <2>7. Accounted(u)' /\ BoundedFor(u)'
    BY <1>1, <2>2, <2>3, <2>4, <2>5, <2>6, GrantIsAccounted
  <2> QED
    BY <1>3, <2>1, <2>2, <2>7
<1>5. ASSUME NEW u \in User, Allow(u)
      PROVE  \A v \in User : Accounted(v)' /\ BoundedFor(v)'
  <2> DEFINE r == Refilled(buckets[u])
             b == [r EXCEPT !.tokens = @ - Unit]
  <2>1. buckets[u] # NoBucket /\ r.tokens >= Unit /\ Allowed(u, b)
    BY <1>5 DEF Allow
  <2>2. r \in Bucket /\ r.tokens <= Capacity /\ r.last_refill = clock
    BY <1>1, <2>1, RefillIsBounded
  <2>3. \A i \in 1 .. Len(grants[u]) :
          r.tokens + (Len(grants[u]) - i + 1) * Unit <= Capacity + Gain * (clock - grants[u][i])
    BY <1>1, <2>1, RefillIsAccounted DEF RateInv
  <2> HIDE DEF r
  <2>4. r.tokens - Unit \in Nat /\ r.tokens - Unit + Unit = r.tokens
    BY <2>1, <2>2, ConstantsAreNat DEF Bucket
  <2>5. b \in Bucket /\ b.tokens = r.tokens - Unit /\ b.last_refill = clock /\ b # NoBucket
    BY <2>2, <2>4, NoBucketAssumption DEF Bucket
  <2>6. buckets'[u] = b /\ grants' = [grants EXCEPT ![u] = Append(@, clock)]
    BY <1>1, <2>1 DEF Allowed, LimiterTypeOK
  <2>7. BoundedFor(u)
    BY DEF RateInv
  <2> DEFINE t == r.tokens - Unit
  <2>8. /\ t \in Nat /\ t + Unit <= Capacity
        /\ \A i \in 1 .. Len(grants[u]) :
             t + Unit + (Len(grants[u]) - i + 1) * Unit <= Capacity + Gain * (clock - grants[u][i])
    BY <2>2, <2>3, <2>4
  <2>9. buckets'[u].tokens = t /\ buckets'[u].last_refill = clock /\ buckets'[u] # NoBucket
    BY <2>5, <2>6
  <2> HIDE DEF t, b
  <2>10. Accounted(u)' /\ BoundedFor(u)'
    BY <1>1, <2>6, <2>7, <2>8, <2>9, GrantIsAccounted
  <2> QED
    BY <1>3, <2>1, <2>5, <2>10
<1>6. ASSUME NEW u \in User, Refuse(u)
      PROVE  \A v \in User : Accounted(v)' /\ BoundedFor(v)'
  <2> DEFINE r == Refilled(buckets[u])
  <2>1. buckets[u] # NoBucket /\ buckets' = [buckets EXCEPT ![u] = r] /\ grants' = grants
    BY <1>6 DEF Refuse
  <2>2. r \in Bucket /\ r.last_refill = clock
    BY <1>1, <2>1, RefillIsBounded
  <2>3. \A i \in 1 .. Len(grants[u]) :
          r.tokens + (Len(grants[u]) - i + 1) * Unit <= Capacity + Gain * (clock - grants[u][i])
    BY <1>1, <2>1, RefillIsAccounted DEF RateInv
  <2> HIDE DEF r
  <2>4. buckets'[u] = r /\ \A v \in User : v # u => buckets'[v] = buckets[v]
    BY <1>1, <2>1 DEF LimiterTypeOK
  <2>5. Accounted(u)'
    BY <2>1, <2>2, <2>3, <2>4, NoBucketAssumption DEF Accounted, Capacity
  <2>6. BoundedFor(u)'
    BY <2>1 DEF RateInv, BoundedFor, Capacity
  <2> QED
    BY <1>2, <2>1, <2>4, <2>5, <2>6
<1>7. ASSUME UNCHANGED <<buckets, grants>>
      PROVE  \A v \in User : Accounted(v)' /\ BoundedFor(v)'
  BY <1>2, <1>7
<1> QED
  BY <1>4, <1>5, <1>6, <1>7 DEF LimiterNext, Tick, Tell, limiterVars

(* Nobody is allowed more than the burst and the rate in any stretch of    *)
(* time, whatever the rate and the burst.                                  *)
THEOREM RateBounded == LimiterSpec => []RateIsBounded
<1>1. RateInv => RateIsBounded
  BY DEF RateInv, BoundedFor, RateIsBounded
<1> QED
  BY <1>1, InitRateInv, NextRateInv, PTL DEF LimiterSpec
-----------------------------------------------------------------------------
(* Retry-After *)

(* By the promised time the bucket will have gained a whole token.         *)
Kept(u) ==
  promise[u] # NoPromise =>
    /\ buckets[u] # NoBucket
    /\ buckets[u].tokens + Gain * (promise[u] - buckets[u].last_refill) >= Unit

PromiseInv == LimiterTypeOK /\ \A u \in User : Kept(u)

LEMMA InitPromiseInv == LimiterInit => PromiseInv
<1> SUFFICES ASSUME LimiterInit PROVE \A u \in User : Kept(u)
  BY InitTypeOK DEF PromiseInv
<1> QED
  BY DEF LimiterInit, Kept

(* A refusal adds to the bucket what it would have gained anyway.          *)
LEMMA RefusalKeepsPromise ==
  ASSUME LimiterTypeOK, NEW u \in User, Refuse(u), Kept(u)
  PROVE  Kept(u)'
<1> SUFFICES ASSUME promise[u] # NoPromise PROVE Kept(u)'
  BY DEF Refuse, Kept
<1> DEFINE b == buckets[u]
           r == Refilled(b)
           due == promise[u]
           now == clock
           before == b.tokens
           after == r.tokens
           last == b.last_refill
<1>1. /\ buckets' = [buckets EXCEPT ![u] = r] /\ promise' = promise /\ r.tokens < Unit
      /\ buckets[u] # NoBucket
  BY DEF Refuse
<1>2. /\ b \in Bucket /\ r \in Bucket /\ r.last_refill = clock
      /\ r.tokens = b.tokens + Gain * (clock - b.last_refill)
  BY <1>1, RefillIsBounded
<1>3. buckets'[u] = r /\ r # NoBucket
  BY <1>1, <1>2, NoBucketAssumption DEF LimiterTypeOK
<1>4. before + Gain * (due - last) >= Unit /\ after = before + Gain * (now - last)
  BY <1>2 DEF Kept
<1>5. before \in Int /\ last \in Int /\ after \in Int /\ now \in Int /\ due \in Int
  BY <1>2 DEF LimiterTypeOK, Bucket
<1> HIDE DEF b, r, due, now, before, after, last
<1>6. Gain * (due - last) = Gain * (due - now) + Gain * (now - last)
  BY <1>5, GainsAdd
<1>7. after + Gain * (due - now) >= Unit
  BY <1>4, <1>5, <1>6, ConstantsAreNat
<1> QED
  BY <1>1, <1>2, <1>3, <1>7 DEF Kept, due, now, after

(* The answer promises a time by which the missing tokens are gained.      *)
LEMMA AnswerIsKept ==
  ASSUME LimiterTypeOK, NEW u \in User, Tell(u)
  PROVE  Kept(u)'
<1> DEFINE tokens == buckets[u].tokens
           last == buckets[u].last_refill
           now == clock
           ms == RetryAfter(u)
           header == Header(ms)
           wait == header * Second * Millisecond
<1>1. /\ buckets[u] \in Bucket /\ last <= now
      /\ ms \in Nat /\ header \in Nat
      /\ (Gain * Millisecond) * ms >= Unit - tokens
      /\ header * Second >= ms
  BY TellIsLater
<1>2. tokens \in Nat /\ last \in Nat /\ now \in Nat
  BY <1>1 DEF LimiterTypeOK, Bucket
<1>3. promise'[u] = now + wait /\ buckets' = buckets /\ buckets[u] # NoBucket
  BY <1>1, NoBucketAssumption DEF Tell, LimiterTypeOK
<1> HIDE DEF tokens, last, now, ms, header
<1>4. header * Second \in Nat /\ Gain * Millisecond \in Nat
  BY <1>1, ConstantsAreNat
<1>5. (Gain * Millisecond) * (header * Second) >= (Gain * Millisecond) * ms
  BY <1>1, <1>4, ProductIsMonotonic
<1>6. (Gain * Millisecond) * (header * Second) = Gain * wait
  BY <1>1, ConstantsAreNat
<1>7. wait \in Nat
  BY <1>1, ConstantsAreNat
<1>8. Gain * wait >= Unit - tokens
  <2>1. Gain * wait \in Int /\ (Gain * Millisecond) * ms \in Int
    BY <1>1, <1>7, ConstantsAreNat
  <2> QED
    BY <1>1, <1>2, <1>5, <1>6, <2>1, ConstantsAreNat
<1> HIDE DEF wait
<1>9. Gain * (now + wait - last) >= Gain * wait
  <2>1. wait <= now + wait - last /\ now + wait - last \in Nat
    BY <1>1, <1>2, <1>7
  <2> QED
    BY <1>7, <2>1, ConstantsAreNat, ProductIsMonotonic
<1>10. tokens + Gain * (now + wait - last) >= Unit
  <2>1. Gain * (now + wait - last) \in Int /\ Gain * wait \in Int
    BY <1>2, <1>7, ConstantsAreNat
  <2> QED
    BY <1>2, <1>8, <1>9, <2>1, ConstantsAreNat
<1> DEFINE told == promise'[u]
           tokens2 == buckets'[u].tokens
           last2 == buckets'[u].last_refill
<1>11. told = now + wait /\ tokens2 = tokens /\ last2 = last /\ buckets'[u] # NoBucket
  BY <1>3 DEF tokens, last
<1> HIDE DEF told, tokens2, last2
<1>12. tokens2 + Gain * (told - last2) >= Unit
  BY <1>2, <1>7, <1>10, <1>11
<1> QED
  BY <1>11, <1>12 DEF Kept, told, tokens2, last2

LEMMA NextPromiseInv == PromiseInv /\ [LimiterNext]_limiterVars => PromiseInv'
<1> SUFFICES ASSUME PromiseInv, [LimiterNext]_limiterVars PROVE \A v \in User : Kept(v)'
  BY NextTypeOK DEF PromiseInv
<1>1. LimiterTypeOK
  BY DEF PromiseInv
<1>2. ASSUME NEW v \in User, buckets'[v] = buckets[v], promise'[v] = promise[v]
      PROVE  Kept(v)'
  BY <1>2 DEF PromiseInv, Kept
<1>3. ASSUME NEW u \in User, NEW b, Allowed(u, b)
      PROVE  \A v \in User : Kept(v)'
  <2>1. promise'[u] = NoPromise
    BY <1>1, <1>3 DEF Allowed, LimiterTypeOK
  <2>2. ASSUME NEW v \in User, v # u PROVE buckets'[v] = buckets[v] /\ promise'[v] = promise[v]
    BY <1>1, <1>3, <2>2 DEF Allowed, LimiterTypeOK
  <2>3. Kept(u)'
    BY <2>1 DEF Kept
  <2> QED
    BY <1>2, <2>2, <2>3
<1>4. ASSUME NEW u \in User, Refuse(u)
      PROVE  \A v \in User : Kept(v)'
  <2>1. ASSUME NEW v \in User, v # u PROVE buckets'[v] = buckets[v] /\ promise'[v] = promise[v]
    BY <1>1, <1>4, <2>1 DEF Refuse, LimiterTypeOK
  <2>2. Kept(u)'
    BY <1>1, <1>4, RefusalKeepsPromise DEF PromiseInv
  <2> QED
    BY <1>2, <2>1, <2>2
<1>5. ASSUME NEW u \in User, Tell(u)
      PROVE  \A v \in User : Kept(v)'
  <2>1. ASSUME NEW v \in User, v # u PROVE buckets'[v] = buckets[v] /\ promise'[v] = promise[v]
    BY <1>1, <1>5, <2>1 DEF Tell, LimiterTypeOK
  <2>2. Kept(u)'
    BY <1>1, <1>5, AnswerIsKept
  <2> QED
    BY <1>2, <2>1, <2>2
<1>6. ASSUME UNCHANGED <<buckets, promise>>
      PROVE  \A v \in User : Kept(v)'
  BY <1>2, <1>6
<1>7. ASSUME NEW u \in User, AllowFirst(u) \/ Allow(u)
      PROVE  \E b : Allowed(u, b)
  BY <1>7 DEF AllowFirst, Allow
<1> QED
  BY <1>3, <1>4, <1>5, <1>6, <1>7 DEF LimiterNext, Tick, limiterVars

LEMMA PromiseIsEnough == PromiseInv => RetryAfterIsEnough
<1> SUFFICES ASSUME PromiseInv, NEW u \in User, promise[u] # NoPromise, promise[u] <= clock
             PROVE  buckets[u] # NoBucket /\ Refilled(buckets[u]).tokens >= Unit
  BY DEF RetryAfterIsEnough
<1> DEFINE b == buckets[u]
           left == Refilled(b).tokens
           tokens == b.tokens
           last == b.last_refill
           due == promise[u]
           now == clock
<1>1. LimiterTypeOK /\ buckets[u] # NoBucket /\ tokens + Gain * (due - last) >= Unit
  BY DEF PromiseInv, Kept
<1>2. /\ b \in Bucket /\ Refilled(b) \in Bucket
      /\ left < Unit => left = tokens + Gain * (now - last)
  BY <1>1, RefillIsBounded
<1>3. tokens \in Int /\ last \in Int /\ left \in Int /\ due \in Nat /\ now \in Nat /\ due <= now
  BY <1>1, <1>2 DEF LimiterTypeOK, Bucket
<1> HIDE DEF left, tokens, last, due, now
<1>4. Gain * (now - last) = Gain * (now - due) + Gain * (due - last)
  <2>1. now \in Int /\ due \in Int /\ last \in Int
    BY <1>3
  <2> QED
    BY <2>1, GainsAdd
<1>5. Gain * (now - due) \in Nat
  BY <1>3, GainIsNat
<1>6. Gain * (now - last) \in Int /\ Gain * (due - last) \in Int
  BY <1>3, ConstantsAreNat
<1>7. left >= Unit
  BY <1>1, <1>2, <1>3, <1>4, <1>5, <1>6, ConstantsAreNat
<1> QED
  BY <1>1, <1>7 DEF left

(* Waiting as told is enough, whatever the rate, the burst and the units.  *)
THEOREM RetryAfterSuffices == LimiterSpec => []RetryAfterIsEnough
BY InitPromiseInv, NextPromiseInv, PromiseIsEnough, PTL DEF LimiterSpec
=============================================================================
