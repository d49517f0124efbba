--------------------------- MODULE MCResponseCache ---------------------------
(* Two concurrent requests on paths of two routes: one route lists the     *)
(* plugin as an object without a TTL, so that the default counts and not   *)
(* the route's own; the other lists it by name and has a TTL of -1.  The   *)
(* second tenant is named so that its request for b has the key of the     *)
(* first tenant's request for c.                                           *)
EXTENDS ResponseCache, TLC

CONSTANTS s1, s2

t1 == <<"t">>
t2 == <<"t", ":", "GET", ":", "/a">>
a == [path |-> <<"/a">>, query |-> <<>>]
b == [path |-> <<"/b">>, query |-> <<>>]
c == [path |-> <<"/a", ":", "GET", ":", "/b">>, query |-> <<>>]
MCTenants == {t1, t2}
MCPaths == {a, b, c}

Case(method, path, t, claim, first) ==
    [method |-> method, path |-> path, tenant |-> t, claim |-> claim, first |-> first]

MCCases == { Case("GET", a, t1, None, FALSE), Case("POST", a, t1, None, FALSE),
             Case("GET", a, t1, t2, TRUE), Case("GET", a, t1, t2, FALSE),
             Case("GET", c, t1, None, FALSE), Case("GET", b, t2, None, FALSE) }

MCListed == [p \in MCPaths |-> IF p = b THEN "name" ELSE "object"]
MCPluginTtl == [p \in MCPaths |-> None]
MCRouteTtl == [p \in MCPaths |-> IF p = b THEN -1 ELSE 2]
=============================================================================
