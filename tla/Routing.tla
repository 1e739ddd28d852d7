------------------------------ MODULE Routing ------------------------------
(***************************************************************************)
(* The route table of src/api/routes.cpp, how HTTPServer resolves a target *)
(* to a route (src/api/http_server.cpp), and how each handler takes the    *)
(* identifier out of the target again, on its own.                         *)
(*                                                                         *)
(* A target is the sequence of what lies between its slashes after /api/v1 *)
(* (an empty string for a doubled or a trailing slash), with or without a  *)
(* query.  A query holds no slash.                                         *)
(***************************************************************************)
EXTENDS Integers, Sequences

Param == ":id"

Query == "?"   \* a query string, where it is taken for part of an identifier

Target == [path : Seq(STRING), query : BOOLEAN]

(* register_routes                                                         *)
Routes ==
  ({"POST"} \X {<<"auth", "register">>, <<"auth", "login">>, <<"orders">>})
    \cup {<<"DELETE", <<"orders", Param>>>>}
    \cup ({"GET"} \X ({<<"orders", Param>>, <<"trades", Param>>,
                       <<"cards">>, <<"cards", Param>>}
                      \cup {<<"users", Param, x>> :
                              x \in {"orders", "portfolio", "stats", "trades"}}
                      \cup {<<"cards", Param, x>> :
                              x \in {"orderbook", "trades", "candles",
                                     "analytics", "price"}}))

-----------------------------------------------------------------------------
(* The split of matches_pattern, which drops what is empty                 *)
Parts(path) == SelectSeq(path, LAMBDA s : s # "")

MatchesAnyLiteral(path, pattern) == Len(Parts(path)) = Len(pattern)

MatchesPattern(path, pattern) ==
  /\ Len(Parts(path)) = Len(pattern)
  /\ \A i \in 1 .. Len(pattern) : pattern[i] \in {Param, Parts(path)[i]}

(* get_route_key: an exact match is preferred; of the patterns that match, *)
(* the first in the order of an unordered_map, which may be any.  No key:  *)
(* no route.                                                               *)
RouteKeys(method, target) ==
  IF <<method, target.path>> \in Routes
  THEN {<<method, target.path>>}
  ELSE {r \in Routes : r[1] = method /\ MatchesPattern(target.path, r[2])}

-----------------------------------------------------------------------------
(* The part of the target that the pattern's parameter stands for          *)
Bound(route, target) ==
  <<Parts(target.path)[CHOOSE i \in 1 .. Len(route[2]) : route[2][i] = Param]>>

(* handle_get_order, handle_cancel_order, handle_get_trade and             *)
(* handle_get_card_details: what follows the last slash, the query with it *)
AfterLastSlash(target) ==
  LET last == target.path[Len(target.path)]
  IN  IF target.query THEN <<last, Query>> ELSE <<last>>

(* handle_get_order_book and handle_get_card_trades: what stands between   *)
(* the last two slashes                                                    *)
AfterFirstSlash(target) == <<target.path[1]>>

BetweenLastSlashes(target) == <<target.path[Len(target.path) - 1]>>

(* handle_get_candles, handle_get_analytics and handle_get_card_price:     *)
(* what stands between the first "/cards/" and the first "/" ++ name, or   *)
(* all the rest when the name comes at once: the length underflows         *)
Between(target, name) ==
  LET Place(s, from) ==
        CHOOSE i \in from .. Len(target.path) :
          target.path[i] = s /\ \A j \in from .. i - 1 : target.path[j] # s
      from == Place("cards", 1) + 1
      to   == Place(name, 1)
  IN  SubSeq(target.path, from, IF to = from THEN Len(target.path) ELSE to - 1)

(* The identifier a handler works with.  The handlers of /users/ take the  *)
(* user of the token, and have none.                                       *)
TakesIdentifier(route) ==
  Len(route[2]) > 1 /\ route[2][1] \in {"orders", "trades", "cards"}

Extracted(route, target) ==
  IF Len(route[2]) = 2 THEN AfterLastSlash(target)
  ELSE IF route[2][3] \in {"orderbook", "trades"} THEN BetweenLastSlashes(target)
  ELSE Between(target, route[2][3])
=============================================================================
