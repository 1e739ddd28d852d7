----------------------------- MODULE MCHttpApi -----------------------------
(***************************************************************************)
(* A connection with two requests: every request after every answer.       *)
(* Targets are those of every route with an identifier in the parameter's  *)
(* place, be it the name of another route's part, with a slash too many at *)
(* any place, and with and without a query; and some of no route.  Orders  *)
(* have quantities on both sides of each bound, of what an int of Width    *)
(* numbers holds among them.                                               *)
(***************************************************************************)
EXTENDS HttpApi, FiniteSets

CONSTANT Ids   \* the identifiers clients put in a target

Instance(pattern, id) ==
  [i \in 1 .. Len(pattern) |-> IF pattern[i] = Param THEN id ELSE pattern[i]]

Paths ==
  {Instance(r[2], id) : r \in Routes, id \in Ids} \cup {<<"">>, <<"cards", "17", "unknown">>}

WithSlash(path, i) ==
  SubSeq(path, 1, i) \o <<"">> \o SubSeq(path, i + 1, Len(path))

AllPaths == Paths \cup UNION {{WithSlash(p, i) : i \in 0 .. Len(p)} : p \in Paths}

AllTargets == [path : AllPaths, query : BOOLEAN]

OrdersTarget == [path |-> <<"orders">>, query |-> FALSE]

Plain(methods, bodies) ==
  [method : methods, target : AllTargets, token : BOOLEAN, body : [kind : bodies]]

AllRequests ==
  Plain({"GET", "DELETE"}, {"fine"})
    \cup [method : {"OPTIONS"}, target : {OrdersTarget}, token : {FALSE}, body : [kind : {"fine"}]]
    \cup [method : {"POST"}, target : {[path |-> <<"auth", x>>, query |-> FALSE] : x \in {"register", "login"}},
          token : {FALSE}, body : [kind : Broken \cup {"refused", "fine"}]]
    \cup [method : {"POST"}, target : {OrdersTarget}, token : {TRUE, FALSE}, body : [kind : Broken]]
    \cup [method : {"POST"}, target : {OrdersTarget}, token : {TRUE}, body : OrderBody]

SomeQuantities == {-1, 0, 1, 1000, 1001, 4096, 4101, -4096, 2048}

SomePrices == {NoPrice, -1, 0, 1}
=============================================================================
