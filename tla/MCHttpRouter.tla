---------------------------- MODULE MCHttpRouter ----------------------------
(* Model-checking instance of HttpRouter: an application at "/a" with a    *)
(* route "/b" of its own, between a middleware for everything and one for  *)
(* GET, as MHMessenger lays out its routes.                                *)
EXTENDS HttpRouter

CONSTANTS root, all, app, sub, get

MCRoutes == {root, all, app, sub, get}
MCPath == [r \in MCRoutes |->
  IF r = app THEN <<"/", "a">> ELSE IF r = sub THEN <<"/", "b">> ELSE <<>>]
MCMethods == [r \in MCRoutes |-> IF r = get THEN {"GET"} ELSE {"GET", "POST"}]
MCTarget == [r \in MCRoutes |-> r \notin {root, app}]
MCChildren == [r \in MCRoutes |->
  IF r = root THEN <<all, app, get>> ELSE IF r = app THEN <<sub, get>> ELSE <<>>]

MCHeight == [r \in MCRoutes |-> IF r = root THEN 2 ELSE IF r = app THEN 1 ELSE 0]
MCCharacters == {"/", ".", "a", "b"}

Urls == {<<"/">> \o t : t \in UNION {[1 .. n -> {"/", "a", "b"}] : n \in 0 .. 3}}
     \cup {<<"/", "/", "a", "/", ".", "/", "b">>, <<"/", "a", "/", "b", "b">>, <<"/", "a", ".">>, <<"/", ".", "b">>, <<"/", ".", "/", "/", "b">>}
MCRequests == {[method |-> m, url |-> u] : m \in {"GET", "POST"}, u \in Urls}
=============================================================================
