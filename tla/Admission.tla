------------------------------ MODULE Admission -------------------------------
(* Which requests the gateway lets through, and as whom: app() of          *)
(* src/app/main.py up to the call of run_forward.  The path is matched     *)
(* against the table, the tenant is resolved, and the access plugins of    *)
(* the route run one after the other: ip_restriction, jwt_auth, oauth2,    *)
(* api_key and consumer_acl (src/app/plugins/).                            *)
(*                                                                         *)
(* api_key and consumer_acl ask MongoDB, and wait for it.  Meanwhile those *)
(* who keep the consumers change them: they switch consumers off and on,   *)
(* replace a key kept in clear by its hash, give and take permissions.     *)
(* The route object is the one that was matched, whatever happens to the   *)
(* table.  One request is followed: requests share nothing here.           *)
(***************************************************************************)
EXTENDS RouteMatching, FiniteSets

CONSTANTS Consumers,     \* documents of the consumers collection
          About,         \* what of a consumer does not change here, see below
          Secrets,       \* API keys, or secrets of client credentials
          Permissions,   \* documents of consumer_permissions
          Scenarios,     \* routes read, a request, the plugins, the collections
          MaxEdits       \* bound: changes to the collections

Plugins == {"ip_restriction", "jwt_auth", "oauth2", "api_key", "consumer_acl"}
Nobody == "nobody"

(* tenant, secret: the consumer's; labels: its tags and its actor type.    *)
ConsumerFacts == [tenant : Texts, secret : Secrets, labels : SUBSET STRING]

(* The forms a credential is kept in: "plain" is api_keys or secret_id,    *)
(* "hashed" is api_key_hashes or secret_hash with secret_salt.             *)
Forms == {"plain", "hashed"}
StoreRecords == [on : SUBSET Consumers, form : [Consumers -> SUBSET Forms],
                 permitted : SUBSET DOMAIN Permissions]

ASSUME AdmissionAssumption ==
    /\ Nobody \notin Consumers
    /\ About \in [Consumers -> ConsumerFacts]
    /\ \A p \in DOMAIN Permissions : Permissions[p].consumer \in Consumers
    /\ \A s \in Scenarios : s.store \in StoreRecords /\ s.plugins \in Seq(Plugins)
    /\ \A s \in Scenarios : s.routes \in Seq(RouteRecords) /\ s.request.path \in Texts
    /\ \A s \in Scenarios : {s.request.tenant, s.request.token.tenant} \subseteq Texts
    /\ MaxEdits \in Nat

VARIABLES scenario,  \* routes, request, plugins, config and store at first
          store,     \* the collections consumers and consumer_permissions
          edits,     \* how often they were changed
          pc,        \* "match", "access", "hashes", "permission" or "done"
          at,        \* the access plugin that runs
          route,     \* the matched route
          tenant,    \* the local variable tenant of app()
          who,       \* context.tenant
          consumer,  \* context.extra["consumer_id"]
          verdict,   \* what became of the request
          asked,     \* history: the tenant api_key looked for a consumer in
          seen,      \* history: consumers on, permissions held, at some time
          steady     \* history: those that were so all the time

outside == <<store, edits, seen, steady>>
vars == <<scenario, store, edits, pc, at, route, tenant, who, consumer, verdict, asked,
          seen, steady>>

request == scenario.request
config == scenario.config
Verdicts == {"open", "not_found", "no_tenant", "refused", "forwarded"}

-----------------------------------------------------------------------------
(* The queries. *)

(* Plausible defects, used by no action: the hashes are looked up first; a  *)
(* permission of the route or of the method will do.                       *)
HashedFirst == <<"hashed", "plain">>
CoversEither(p, c, t) ==
    /\ p.tenant = t /\ p.consumer = c
    /\ p.route \in {"any", route.id} \/ request.method \in p.methods

(* Consumers of tenant t that hold the presented secret in this form and   *)
(* are not inactive.  A pair names its consumer by client_id.              *)
Holders(t, form) ==
    {c \in Consumers :
        /\ About[c].tenant = t /\ form \in store.form[c] /\ c \in store.on
        /\ About[c].secret = request.secret
        /\ request.kind = "pair" => request.client = c}

(* The order of the two look-ups. *)
LookUps == <<"plain", "hashed">>

(* A permission for this consumer, route, API and method. *)
Covers(p, c, t) ==
    /\ p.tenant = t /\ p.consumer = c
    /\ p.route \in {"any", route.id} /\ p.api \in {"any", route.api}
    /\ p.methods = {} \/ "*" \in p.methods \/ request.method \in p.methods

(* The consumers that are on and have a secret in one form or the other. *)
Held(s) == {c \in s.on : s.form[c] # {}}

(* Neither api_key nor consumer_acl reads the field tenant of a route. *)
ConsumerTenant == IF route.tenantId # Anyone THEN route.tenantId ELSE who

-----------------------------------------------------------------------------

Init ==
    /\ scenario \in Scenarios
    /\ store = scenario.store
    /\ edits = 0
    /\ pc = "match" /\ at = 0
    /\ route = NoRoute
    /\ tenant = Anyone /\ who = Anyone
    /\ consumer = Nobody
    /\ verdict = "open"
    /\ asked = Anyone
    /\ seen = [on |-> store.on, permitted |-> store.permitted]
    /\ steady = [on |-> Held(store), permitted |-> store.permitted]

End(v) == pc' = "done" /\ verdict' = v

(* match_route, then the tenant. *)
Match ==
    /\ pc = "match"
    /\ route' = MatchRoute(TableOf(scenario.routes), request.method, request.path)
    /\ tenant' = IF route' = NoRoute THEN Anyone ELSE TenantOf(route', request.tenant, request.path)
    /\ who' = tenant'
    /\ \/ route' = NoRoute /\ End("not_found") /\ UNCHANGED at
       \/ route' # NoRoute /\ tenant' = Anyone /\ End("no_tenant") /\ UNCHANGED at
       \/ tenant' # Anyone /\ pc' = "access" /\ at' = 1 /\ UNCHANGED verdict
    /\ UNCHANGED <<scenario, consumer, asked, outside>>

Runs(plugin) == pc = "access" /\ at \in DOMAIN scenario.plugins /\ scenario.plugins[at] = plugin
PassStaying == at' = at + 1 /\ UNCHANGED <<pc, verdict>>   \* a plausible defect
Pass == pc' = "access" /\ at' = at + 1 /\ UNCHANGED verdict
Refuse == End("refused") /\ UNCHANGED at

(* An address that cannot be parsed is on no list. *)
RestrictIp ==
    /\ Runs("ip_restriction")
    /\ IF /\ request.address # "none"
          /\ request.address \notin config.denyIps
          /\ config.allowIps = {} \/ request.address \in config.allowIps
       THEN Pass ELSE Refuse
    /\ UNCHANGED <<scenario, route, tenant, who, consumer, asked, outside>>

(* The token names a tenant, which becomes the tenant of the context. *)
CheckJwt ==
    /\ Runs("jwt_auth")
    /\ \/ /\ request.token.valid /\ request.token.tenant # Anyone
          /\ who' = request.token.tenant
          /\ Pass
       \/ /\ ~request.token.valid \/ request.token.tenant = Anyone
          /\ Refuse
          /\ UNCHANGED who
    /\ UNCHANGED <<scenario, route, tenant, consumer, asked, outside>>

(* Scope, environment and client id are the instance's; the tenant must be *)
(* the header's, when there is one.  The context's tenant stays.           *)
CheckOAuth ==
    /\ Runs("oauth2")
    /\ IF /\ request.token.valid /\ request.token.scoped
          /\ request.tenant \in {Anyone, request.token.tenant}
       THEN Pass ELSE Refuse
    /\ UNCHANGED <<scenario, route, tenant, who, consumer, asked, outside>>

Presented ==
    \/ request.kind = "key"
    \/ request.kind = "pair" /\ config.credentials

Configured == request.kind = "key" /\ config.keys # {} => request.secret \in config.keys

(* before_request of api_key up to its first answer from MongoDB: a secret *)
(* is presented, it is one of the configured keys if there are any, and    *)
(* the first look-up is done.                                              *)
CheckKey ==
    /\ Runs("api_key")
    /\ asked' = ConsumerTenant
    /\ \/ ~(Presented /\ Configured) /\ Refuse /\ UNCHANGED consumer
       \/ Presented /\ Configured /\ ~config.resolve /\ Pass /\ UNCHANGED consumer
       \/ /\ Presented /\ Configured /\ config.resolve
          /\ IF Holders(ConsumerTenant, LookUps[1]) = {}
             THEN pc' = "hashes" /\ UNCHANGED <<at, verdict, consumer>>
             ELSE Pass /\ consumer' \in Holders(ConsumerTenant, LookUps[1])
    /\ UNCHANGED <<scenario, route, tenant, who, outside>>

(* The second look-up, over the records with hashes. *)
LookUpHashes ==
    /\ pc = "hashes"
    /\ \/ /\ Holders(ConsumerTenant, LookUps[2]) # {}
          /\ consumer' \in Holders(ConsumerTenant, LookUps[2])
          /\ Pass
       \/ /\ Holders(ConsumerTenant, LookUps[2]) = {}
          /\ IF config.enforce THEN Refuse ELSE Pass
          /\ UNCHANGED consumer
    /\ UNCHANGED <<scenario, route, tenant, who, asked, outside>>

Labels == IF consumer = Nobody THEN {} ELSE About[consumer].labels

(* The lists of consumer_acl, in its order; the tags of the consumer are   *)
(* those api_key found.                                                    *)
Listed ==
    /\ consumer # Nobody \/ config.anonymous
    /\ consumer \notin config.denyIds
    /\ config.allowIds = {} \/ consumer \in config.allowIds
    /\ Labels \cap config.denyTags = {}
    /\ config.allowTags = {} \/ Labels \cap config.allowTags # {}
    /\ config.actors = {} \/ Labels \cap config.actors # {}

CheckLists ==
    /\ Runs("consumer_acl")
    /\ \/ ~Listed /\ Refuse
       \/ Listed /\ (~config.permissions \/ consumer = Nobody) /\ Pass
       \/ /\ Listed /\ config.permissions /\ consumer # Nobody
          /\ pc' = "permission" /\ UNCHANGED <<at, verdict>>
    /\ UNCHANGED <<scenario, route, tenant, who, consumer, asked, outside>>

(* _is_route_allowed_by_permission *)
CheckPermission ==
    /\ pc = "permission"
    /\ IF \E p \in store.permitted : Covers(Permissions[p], consumer, ConsumerTenant)
       THEN Pass ELSE Refuse
    /\ UNCHANGED <<scenario, route, tenant, who, consumer, asked, outside>>

(* run_before is through: the request is forwarded below its tenant. *)
Upstream == Strip(request.path, tenant)
Forward ==
    /\ pc = "access" /\ at = Len(scenario.plugins) + 1
    /\ End("forwarded")
    /\ UNCHANGED <<scenario, at, route, tenant, who, consumer, asked, outside>>

-----------------------------------------------------------------------------
(* Those who keep the collections: external.  What they do before the first *)
(* plugin runs is another initial store; after the last look-up it is lost  *)
(* on the request.                                                         *)
LookUpFollows ==
    \E n \in DOMAIN scenario.plugins : n >= at /\ scenario.plugins[n] \in {"api_key", "consumer_acl"}

Edit(new) ==
    /\ edits < MaxEdits /\ pc \notin {"match", "done"} /\ LookUpFollows
    /\ edits' = edits + 1
    /\ store' = new
    /\ seen' = [on |-> seen.on \cup new.on, permitted |-> seen.permitted \cup new.permitted]
    /\ steady' = [on |-> steady.on \cap Held(new), permitted |-> steady.permitted \cap new.permitted]
    /\ UNCHANGED <<scenario, pc, at, route, tenant, who, consumer, verdict, asked>>

Switch(c) == Edit([store EXCEPT !.on = IF c \in @ THEN @ \ {c} ELSE @ \cup {c}])
Hash(c) == "plain" \in store.form[c] /\ Edit([store EXCEPT !.form[c] = {"hashed"}])
Permit(p) ==
    Edit([store EXCEPT !.permitted = IF p \in @ THEN @ \ {p} ELSE @ \cup {p}])

Done == pc = "done" /\ UNCHANGED vars

Handle ==
    \/ Match \/ RestrictIp \/ CheckJwt \/ CheckOAuth
    \/ CheckKey \/ LookUpHashes \/ CheckLists \/ CheckPermission \/ Forward

Next ==
    \/ Handle
    \/ \E c \in Consumers : Switch(c) \/ Hash(c)
    \/ \E p \in DOMAIN Permissions : Permit(p)
    \/ Done

Spec == Init /\ [][Next]_vars

-----------------------------------------------------------------------------

(* Every variable has its type. *)
TypeOK ==
    /\ store \in StoreRecords /\ edits \in 0..MaxEdits
    /\ pc \in {"match", "access", "hashes", "permission", "done"}
    /\ at \in 0..(Len(scenario.plugins) + 1)
    /\ route \in Range(scenario.routes) \cup {NoRoute}
    /\ tenant \in Texts /\ who \in Texts
    /\ consumer \in Consumers \cup {Nobody}
    /\ verdict \in Verdicts
    /\ steady.on \subseteq seen.on /\ steady.permitted \subseteq seen.permitted

Listing(plugin) == plugin \in Range(scenario.plugins)
Precedes(p, q) == \E m, n \in DOMAIN scenario.plugins :
                     m < n /\ scenario.plugins[m] = p /\ scenario.plugins[n] = q

(* A document serves the requests of its methods whose path lies below its *)
(* tenant, written in the prefix or not, and fits its own prefix; slashes  *)
(* around the tenant, and what Normal drops, do not count.                 *)
Owner(d) == Bare(RouteTenant(d))
Under(d) == Owner(d) # Anyone /\ ~IsPrefix(Owner(d), d.prefix)
Serves(d) ==
    LET path == Normal(request.path)
        below == SubSeq(path, Len(Owner(d)) + 1, Len(path))
    IN  /\ request.method \in (IF d.methods = <<>> THEN {"GET"} ELSE Range(d.methods))
        /\ IF Under(d) THEN IsPrefix(Owner(d), path) /\ Matches(below, Tidy(d.prefix))
           ELSE Matches(path, Normal(d.prefix))
Weight(d) == IF Under(d) THEN Score(Owner(d)) + Score(Tidy(d.prefix)) ELSE Score(Normal(d.prefix))
Serving == {d \in Range(scenario.routes) : Serves(d)}

(* A request goes to a route that serves it and is as long as any that does; *)
(* it is answered 404 only if none does.                                   *)
RoutedToLongest ==
    pc # "match" =>
        IF route = NoRoute THEN verdict = "not_found" /\ Serving = {}
        ELSE route \in Serving /\ \A d \in Serving : Weight(d) <= Weight(route)

(* The order in which the table came to hold its routes decides only        *)
(* between routes of equal length.                                         *)
HistoryDoesNotMatter ==
    pc # "match" /\ edits = 0 /\ (\A d, e \in Serving : Weight(d) = Weight(e) => d = e) =>
        \A other \in SetToSeqs(Range(scenario.routes)) :
            MatchRoute(TableOf(other), request.method, request.path) = route

(* The path upstream sees lacks at most the tenant, once.  It does lack     *)
(* the tenant of the route if neither is written in a way that the match    *)
(* forgives and the cut does not: slashes around a tenant, white space at   *)
(* the end of a tenant or of the path.                                      *)
Cut ==
    \/ request.path = tenant /\ Upstream = Root
    \/ request.path = tenant \o Upstream
Exact(text) == Trim[text[Len(text)]] = text[Len(text)]
TenantCutOnce ==
    verdict = "forwarded" =>
        /\ Cut \/ Upstream = request.path
        /\ /\ RouteTenant(route) # Anyone /\ Bare(tenant) = tenant
           /\ Exact(tenant) /\ Exact(request.path)
           => Cut

(* The tenant consumers are looked for in: the tenant_id of the route, or  *)
(* the token's tenant if jwt_auth ran before, or the request's.  A route   *)
(* that names its tenant in the field tenant alone is open, behind         *)
(* jwt_auth, to the consumers of whichever tenant the token names.         *)
EntitledTenant ==
    IF route.tenantId # Anyone THEN route.tenantId
    ELSE IF Precedes("jwt_auth", "api_key") THEN request.token.tenant ELSE tenant

(* A request that went through api_key went as a consumer of that tenant    *)
(* whose secret it presented and who was on while it was handled; without   *)
(* a consumer it went only where none is demanded.                         *)
ForwardedAsConsumer ==
    verdict = "forwarded" /\ Listing("api_key") =>
        IF consumer = Nobody THEN ~(config.resolve /\ config.enforce)
        ELSE /\ About[consumer].tenant = EntitledTenant
             /\ About[consumer].secret = request.secret
             /\ request.kind = "pair" => request.client = consumer
             /\ consumer \in seen.on

(* A request that went through consumer_acl after api_key had a consumer    *)
(* whom no list denies and who held, while it was handled, a permission for *)
(* the route and the method.                                               *)
ForwardedByPermission ==
    verdict = "forwarded" /\ Precedes("api_key", "consumer_acl") =>
        IF consumer = Nobody THEN config.anonymous
        ELSE /\ consumer \notin config.denyIds
             /\ About[consumer].labels \cap config.denyTags = {}
             /\ config.permissions => \E p \in seen.permitted :
                    /\ Permissions[p].consumer = consumer
                    /\ Permissions[p].route \in {"any", route.id}
                    /\ Permissions[p].api \in {"any", route.api}
                    /\ Permissions[p].methods \cap {"*", request.method} # {}
                       \/ Permissions[p].methods = {}

(* Who gets through was entitled to, as a consumer and by permission, at     *)
(* the time somebody looked.                                               *)
Entitled == ForwardedAsConsumer /\ ForwardedByPermission

(* Nobody is refused for a change behind the scenes: a consumer who was on  *)
(* throughout, whichever form the secret had, is found, and a permission    *)
(* that was held throughout counts.                                        *)
NoFalseRefusal ==
    verdict = "refused" =>
        /\ scenario.plugins[at] = "api_key" /\ Presented /\ Configured =>
               \A c \in steady.on :
                   \/ About[c].tenant # asked \/ About[c].secret # request.secret
                   \/ request.kind = "pair" /\ request.client # c
        /\ scenario.plugins[at] = "consumer_acl" /\ Listed =>
               \A p \in steady.permitted :
                   ~(Permissions[p].route = "any" /\ Permissions[p].api = "any"
                     /\ Permissions[p].methods = {}
                     /\ Permissions[p].consumer = consumer
                     /\ Permissions[p].tenant = ConsumerTenant)
=============================================================================
