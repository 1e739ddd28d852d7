------------------------------ MODULE HttpApi ------------------------------
(***************************************************************************)
(* HTTPSession and HTTPServer (src/api/http_server.cpp) on one keep-alive  *)
(* connection, with the handlers of APIRouter (src/api/routes.cpp): which  *)
(* status and which error code each request is answered with, over every   *)
(* way the services may answer.                                            *)
(*                                                                         *)
(* on_read handles the request before it returns, so that reading,         *)
(* handling and starting to write are one step.  request_ is cleared       *)
(* before a read; response_ is not: every answer is written over the one   *)
(* before it.  Of a body only the error code in it is kept.                *)
(***************************************************************************)
EXTENDS Routing

CONSTANTS
  Requests,    \* the requests clients send
  Quantities,  \* the numbers clients send as a quantity
  Prices,      \* the prices clients send with an order; NoPrice when absent
  NoPrice,     \* the order has no price
  NoRequest,   \* request_ is empty
  Width,       \* the numbers an int holds: 2^32
  MaxQuantity, \* 1000
  MaxRequests  \* bound: the requests on the connection

ASSUME QuantitiesAssumption == Quantities \subseteq Int
ASSUME PricesAssumption == Prices \subseteq Int \cup {NoPrice} /\ NoPrice \notin Int
ASSUME SizesAssumption ==
  /\ {Width, MaxQuantity, MaxRequests} \subseteq Nat
  /\ MaxQuantity < Width \div 2

(* The body of a request: not JSON, JSON without a required field, with a  *)
(* field of the wrong type, with values the handler refuses, or in order.  *)
(* The body of an order is told apart further.                             *)
Broken == {"malformed", "incomplete", "mistyped"}

OrderBody ==
  [kind : {"order"}, card_id : {"", "card"}, type : {"BUY", "SELL", "other"},
   mode : {"MARKET", "LIMIT", "other"}, quantity : Quantities, price : Prices]

Body == [kind : Broken \cup {"refused", "fine"}] \cup OrderBody

Request == [method : {"GET", "POST", "DELETE", "OPTIONS"}, target : Target,
            token : BOOLEAN, body : Body]

ASSUME RequestsAssumption == Requests \subseteq Request

(* The error codes of include/api/error_codes.hpp; NoCode for an answer    *)
(* that holds no error, or one without a code                              *)
NoCode == 0
Codes == {NoCode, 4000, 4003, 4004, 4005, 4006, 4007, 4008, 5000}

Answer == [status : {200, 201, 400, 401, 404, 409, 429, 500}, code : Codes]

VARIABLES
  pc,        \* what the session waits for
  request,   \* request_
  response,  \* response_: status, error code in the body, Retry-After set
  count      \* the requests read on the connection

vars == <<pc, request, response, count>>

(* Every variable keeps its type.                                          *)
TypeOK ==
  /\ pc \in {"reading", "writing", "closed"}
  /\ request \in Requests \cup {NoRequest}
  /\ response \in [answer : Answer, retry_after : BOOLEAN]
  /\ count \in 0 .. MaxRequests

Init ==
  /\ pc = "reading"
  /\ request = NoRequest
  /\ response = [answer |-> [status |-> 200, code |-> NoCode], retry_after |-> FALSE]
  /\ count = 0

-----------------------------------------------------------------------------
(* send_json and send_error                                                *)
Json(status) == [status |-> status, code |-> NoCode]
Error(status, code) == [status |-> status, code |-> code]

Unauthorized == Error(401, 4000)
Internal     == Error(500, 5000)   \* whatever is thrown and not caught by name

(* get<int>() of a number: a conversion, which keeps the low bits          *)
AsInt(n) == ((n + Width \div 2) % Width) - Width \div 2

(* The checks of handle_place_order that a body in JSON passes             *)
IsAccepted(b) ==
  /\ b.card_id # ""
  /\ b.type \in {"BUY", "SELL"}
  /\ b.mode \in {"MARKET", "LIMIT"}
  /\ AsInt(b.quantity) \in 1 .. MaxQuantity
  /\ b.mode = "LIMIT" => b.price # NoPrice /\ b.price > 0

(* handle_place_order: the answers that follow the body's checks           *)
PlaceOrder(r) ==
  CASE ~r.token                  -> {Unauthorized}
    [] r.token /\ r.body.kind \in {"malformed", "mistyped"} -> {Error(429, 4005), Internal}
    [] r.token /\ r.body.kind = "order" /\ IsAccepted(r.body) ->
         {Error(429, 4005), Json(200), Error(400, 4003), Internal}
    [] OTHER                     -> {Error(429, 4005), Error(400, 4003)}

(* handle_register and handle_login: a body that is not JSON or lacks a    *)
(* field throws                                                            *)
Register(r) ==
  CASE r.body.kind \in Broken     -> {Internal}
    [] r.body.kind = "refused"    -> {Error(400, 4006)}
    [] OTHER                 -> {Json(201), Error(409, 4008), Internal}

Login(r) ==
  CASE r.body.kind \in Broken     -> {Internal}
    [] r.body.kind = "refused"    -> {Error(400, 4006)}
    [] OTHER                 -> {Json(200), Error(401, 4007), Internal}

(* The handlers that look one thing up, or cancel one                      *)
Find == {Json(200), Error(404, 4004), Internal}

(* The handlers that list or compute                                       *)
Report == {Json(200), Internal}

Handle(route, r) ==
  LET first == route[2][1]
  IN  CASE route[1] = "POST" /\ first = "orders"       -> PlaceOrder(r)
        [] route[2] = <<"auth", "register">>           -> Register(r)
        [] route[2] = <<"auth", "login">>              -> Login(r)
        [] route[1] = "DELETE"                         -> IF r.token THEN Find ELSE {Unauthorized}
        [] first = "users"                             -> IF r.token THEN Report ELSE {Unauthorized}
        [] route[1] = "GET" /\ Len(route[2]) = 2       -> Find
        [] OTHER                                       -> Report

-----------------------------------------------------------------------------
(* HTTPServer::handle_request, which writes over the response that is      *)
(* there: the answer to OPTIONS keeps its body and its code, and only      *)
(* handle_place_order ever sets Retry-After                                *)
Written(answer, limited) ==
  [answer |-> answer, retry_after |-> response.retry_after \/ limited]

Options == Written([response.answer EXCEPT !.status = 200], FALSE)

NotFound == Written(Error(404, NoCode), FALSE)

(* do_read, on_read, handle_request and do_write                           *)
OnRead ==
  /\ pc = "reading"
  /\ count < MaxRequests
  /\ \E r \in Requests :
       /\ request' = r
       /\ IF r.method = "OPTIONS"
          THEN response' = Options
          ELSE IF RouteKeys(r.method, r.target) = {}
          THEN response' = NotFound
          ELSE \E route \in RouteKeys(r.method, r.target) :
               \E answer \in Handle(route, r) :
                 response' = Written(answer, answer.status = 429)
  /\ pc' = "writing"
  /\ count' = count + 1

(* The client ends the stream, or the read fails.                          *)
OnEnd ==
  /\ pc = "reading"
  /\ pc' = "closed"
  /\ UNCHANGED <<request, response, count>>

(* on_write: the next read, since need_eof is false, or an error           *)
OnWrite ==
  /\ pc = "writing"
  /\ pc' \in {"reading", "closed"}
  /\ request' = IF pc' = "reading" THEN NoRequest ELSE request
  /\ UNCHANGED <<response, count>>

Next == OnRead \/ OnEnd \/ OnWrite

Spec == Init /\ [][Next]_vars
-----------------------------------------------------------------------------
(* routes_ is an unordered_map and get_route_key takes the first pattern   *)
(* that matches: no target matches two, so its order does not matter.      *)
RoutesAreUnambiguous ==
  request # NoRequest =>
    \A r, s \in RouteKeys(request.method, request.target) : r = s

(* The routes whose handler removes the query before it looks for the      *)
(* identifier, or looks before the last slash                              *)
TakesQuery(route) == Len(route[2]) = 3

(* The route was matched by one algorithm and the identifier is extracted  *)
(* by four others, which agree with it on targets with no empty part, no   *)
(* query except where the handler expects one, and no card that is named   *)
(* as the part of the route after it.                                      *)
IdentifiersAreExact ==
  request # NoRequest =>
    \A route \in RouteKeys(request.method, request.target) :
      TakesIdentifier(route) /\ Parts(request.target.path) = request.target.path
        /\ (request.target.query => TakesQuery(route))
        /\ (Len(route[2]) = 3 => Bound(route, request.target) # <<route[2][3]>>)
      => Extracted(route, request.target) = Bound(route, request.target)

=============================================================================
