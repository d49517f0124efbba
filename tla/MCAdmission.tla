----------------------------- MODULE MCAdmission ------------------------------
(* Every table of up to two of twelve routes, and of three of seven,       *)
(* against eleven paths; and a route of a tenant, one that names it in the *)
(* other field and two of none with ten lists of access plugins.           *)
EXTENDS Admission, TLC

MCWidth == [s \in Items |->
    CASE s = "" -> 0 [] s \in {"t", "u"} -> 1 [] s = "me" -> 2 [] s = "me " -> 3
      [] s = "users" -> 5 [] s = "{id}" -> 4 [] s = "{all:.*}" -> 8]
MCTrim == [s \in Items |-> IF s = "me " THEN "me" ELSE s]

T == <<"t">>
U == <<"u">>
Route(id, t, prefix, methods) ==
    [NoRoute EXCEPT !.id = id, !.tenantId = t, !.prefix = prefix, !.methods = methods]
Old(r, t) == [r EXCEPT !.tenantId = Anyone, !.tenant = t]   \* the field tenant alone

\* The second and the fourth share a key; those of t and of no tenant overlap.
\* Tenants with slashes, of two pieces, and in the other field; a prefix with
\* a slash and one with white space at its end; a placeholder for the middle.
MCRoutes ==
    { Route("users", T, <<"users">>, <<>>),
      Route("user", T, <<"users", "{id}">>, <<"GET">>),
      Route("me", T, <<"users", "me ">>, <<"GET", "POST">>),
      Route("full", T, <<"t", "users", "{id}">>, <<"POST", "GET">>),
      Route("tenant", <<"", "t", "">>, Root, <<"GET">>),
      Old(Route("old", T, <<"users", "">>, <<"GET">>), T),
      Route("deep", <<"t", "users">>, <<"me">>, <<"GET">>),
      Route("mid", Anyone, <<"t", "{all:.*}", "me">>, <<"GET">>),
      Route("bare", <<"", "">>, <<"t", "me">>, <<"POST">>),
      Route("open", Anyone, <<"users">>, <<"GET">>),
      Route("rest", Anyone, <<"t", "{all:.*}">>, <<"GET">>),
      Route("root", Anyone, Root, <<"GET">>) }

MCTables ==
    LET three == {r \in MCRoutes : r.id \in {"users", "user", "me", "full", "old", "open", "mid"}}
    IN  {r \in [1..3 -> three] \cup UNION {[1..n -> MCRoutes] : n \in 0..2} : IsInjective(r)}

MCPaths == { Root, T, <<"t", "users">>, <<"t", "users", "me">>, <<"t", "users", "">>,
             <<"t", "users", "me ">>, <<"t", "", "me">>, <<"t", "users", "u", "me">>,
             <<"users">>, <<"users", "t">>, <<"", "t", "me">> }

NoToken == [valid |-> FALSE, scoped |-> FALSE, tenant |-> Anyone]
Plain == [method |-> "GET", path |-> <<"t", "users">>, tenant |-> Anyone, address |-> "none",
          kind |-> "none", secret |-> "k1", client |-> Nobody, token |-> NoToken]
NoLists == [denyIps |-> {}, allowIps |-> {}, keys |-> {}, credentials |-> FALSE,
            resolve |-> TRUE, enforce |-> TRUE, anonymous |-> FALSE, permissions |-> TRUE,
            denyIds |-> {}, allowIds |-> {}, denyTags |-> {}, allowTags |-> {}, actors |-> {}]

\* Consumers: two of tenant t, one of u that has the same secret as the first.
MCAbout == [c \in {"c1", "c2", "c3"} |->
    CASE c = "c1" -> [tenant |-> T, secret |-> "k1", labels |-> {"vip", "app"}]
      [] c = "c2" -> [tenant |-> T, secret |-> "k2", labels |-> {}]
      [] c = "c3" -> [tenant |-> U, secret |-> "k1", labels |-> {"vip"}]]

Permission(c, t, r, m) == [consumer |-> c, tenant |-> t, route |-> r, api |-> "any", methods |-> m]
MCPermissions == << Permission("c1", T, "any", {}), Permission("c1", T, "me", {"GET"}),
                    [Permission("c3", U, "open", {"POST"}) EXCEPT !.api = "orders"] >>

MCStores ==
    { [on |-> {"c1", "c2", "c3"}, form |-> [c \in {"c1", "c2", "c3"} |-> f], permitted |-> {1, 3}] :
        f \in {{"plain"}, {"hashed"}, {"plain", "hashed"}} } \cup
    { [on |-> {"c2"}, form |-> [c \in {"c1", "c2", "c3"} |-> {"hashed"}], permitted |-> {2}] }

AllOff == [on |-> {}, form |-> [c \in {"c1", "c2", "c3"} |-> {}], permitted |-> {}]
MCMatching ==
    { [routes |-> r, request |-> [Plain EXCEPT !.path = p, !.method = m, !.tenant = h],
       plugins |-> <<>>, config |-> NoLists, store |-> AllOff] :
        r \in MCTables, p \in MCPaths, m \in {"GET", "POST"}, h \in {Anyone, T} }

Access == {"ip_restriction", "jwt_auth", "oauth2", "api_key", "consumer_acl"}
MCLists ==
    {<<p>> : p \in Access} \cup
    { <<"api_key", "consumer_acl">>, <<"consumer_acl", "api_key">>,
      <<"jwt_auth", "api_key", "consumer_acl">>, <<"api_key", "jwt_auth", "consumer_acl">>,
      <<"ip_restriction", "oauth2", "api_key">> }

MCConfigs ==
    { NoLists,
      [NoLists EXCEPT !.credentials = TRUE, !.keys = {"k1"}, !.anonymous = TRUE, !.enforce = FALSE],
      [NoLists EXCEPT !.denyIds = {"c2"}, !.allowTags = {"vip"}, !.allowIps = {"inside"}],
      [NoLists EXCEPT !.denyTags = {"vip"}, !.denyIps = {"inside"}, !.permissions = FALSE],
      [NoLists EXCEPT !.allowIds = {"c1"}, !.actors = {"app"}, !.resolve = FALSE] }

Token(t) == [valid |-> TRUE, scoped |-> TRUE, tenant |-> t]
MCCallers ==
    { [Plain EXCEPT !.kind = "key", !.secret = k, !.token = Token(t), !.address = "inside"] :
        k \in {"k1", "k2"}, t \in {T, U} } \cup
    { [Plain EXCEPT !.kind = "pair", !.client = c, !.token = Token(Anyone)] : c \in {"c1", "c3"} } \cup
    { Plain, [Plain EXCEPT !.kind = "key", !.method = "POST", !.tenant = U, !.path = <<"users">>,
                           !.token = Token(U), !.address = "outside"] }

MCAccess ==
    { [routes |-> r, request |-> c, plugins |-> p, config |-> g, store |-> s] :
        r \in { <<Route("me", T, <<"users">>, <<"GET">>)>>,
                <<Old(Route("me", T, <<"users">>, <<"GET">>), T)>>,
                <<Route("open", Anyone, <<"t", "users">>, <<"GET">>),
                  [Route("open", Anyone, <<"users">>, <<"POST">>) EXCEPT !.api = "orders"]>> },
        c \in MCCallers, p \in MCLists, g \in MCConfigs, s \in MCStores }

MCScenarios == MCMatching \cup MCAccess
=============================================================================
