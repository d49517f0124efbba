--------------------------- MODULE AdmissionProofs ---------------------------
(***************************************************************************)
(* For any routes, requests, consumers and permissions, and any changes    *)
(* of the collections.                                                     *)
(*                                                                         *)
(* Access: who gets through the access plugins was entitled to, and nobody *)
(* is refused for a change between two look-ups.  AdmissionInv follows the *)
(* request from plugin to plugin: what api_key found holds from its place  *)
(* on (ConsumerFound), what consumer_acl asked holds from its own          *)
(* (PermissionChecked), and the tenant they ask for is the token's once    *)
(* jwt_auth has run (TenantFollows).                                       *)
(*                                                                         *)
(* Routing: the request goes to a route of greatest length that serves it, *)
(* whatever the table's history.  The table and the match are folds: each  *)
(* lemma "...InStages" turns one into the values it has place after place, *)
(* and an induction over the places gives what it comes to (ScoreAdds,     *)
(* TableKeeps, FoundIsBest).  A document of a tenant is entered below it:  *)
(* MatchesBelow and TidyBelow say how a text below another is matched and  *)
(* trimmed, and from them ServingRows that the key matches, and weighs,    *)
(* what the document itself does.  A route that serves a path has its      *)
(* tenant before it (BeginsWithTenant); the rest is that Routed is kept.   *)
(***************************************************************************)
EXTENDS Admission, FiniteSetTheorems, WellFoundedInduction, TLAPS

(* No route lists api_key twice: a second one could leave the consumer the *)
(* first found for another tenant, were jwt_auth between them.             *)
ListedOnce ==
    \A s \in Scenarios : \A m, n \in DOMAIN s.plugins :
        s.plugins[m] = "api_key" /\ s.plugins[n] = "api_key" => m = n

Plugin(k) == scenario.plugins[k]
Places == DOMAIN scenario.plugins

Standing ==
    /\ scenario.plugins \in Seq(Plugins)
    /\ \A m, n \in Places : Plugin(m) = "api_key" /\ Plugin(n) = "api_key" => m = n
    /\ pc \in {"match", "access", "hashes", "permission", "done"}
    /\ at \in Nat
    /\ pc = "match" => at = 0 /\ consumer = Nobody
    /\ pc = "hashes" => at \in Places /\ Plugin(at) = "api_key"
    /\ pc = "permission" => at \in Places /\ Plugin(at) = "consumer_acl"
    /\ verdict = "forwarded" => at = Len(scenario.plugins) + 1
    /\ verdict \in {"refused", "forwarded"} => pc = "done"

(* Who holds now has held at some time, and who has held throughout does.  *)
Remembered ==
    /\ store.form \in [Consumers -> SUBSET Forms]
    /\ store.on \subseteq seen.on /\ store.permitted \subseteq seen.permitted
    /\ steady.on \subseteq Held(store) /\ steady.permitted \subseteq store.permitted
    /\ steady.on \subseteq Consumers

(* The tenant of the context is the token's once jwt_auth has run. *)
TenantFollows ==
    pc \notin {"match", "done"} =>
        who = IF \E i \in Places : i < at /\ Plugin(i) = "jwt_auth"
              THEN scenario.request.token.tenant ELSE tenant

(* Consumer c of tenant t holds what the request presents. *)
Holds(c, t) ==
    /\ About[c].tenant = t /\ About[c].secret = scenario.request.secret
    /\ scenario.request.kind = "pair" => scenario.request.client = c

(* Before api_key there is no consumer; after it, the one it found. *)
ConsumerFound ==
    \A k \in Places : Plugin(k) = "api_key" =>
        /\ at <= k => consumer = Nobody
        /\ at > k =>
             IF consumer = Nobody
             THEN ~(scenario.config.resolve /\ scenario.config.enforce)
             ELSE Holds(consumer, EntitledTenant) /\ consumer \in seen.on

Granted(c) ==
    \E p \in seen.permitted :
        /\ Permissions[p].consumer = c
        /\ Permissions[p].route \in {"any", route.id}
        /\ Permissions[p].api \in {"any", route.api}
        /\ Permissions[p].methods = {}
           \/ Permissions[p].methods \cap {"*", scenario.request.method} # {}

NotDenied(c) ==
    c \notin scenario.config.denyIds /\ About[c].labels \cap scenario.config.denyTags = {}

(* After consumer_acl the consumer it saw is the one the request goes as,  *)
(* where api_key precedes it.                                              *)
PermissionChecked ==
    \A j, k \in Places : j < k /\ Plugin(j) = "api_key" /\ Plugin(k) = "consumer_acl" =>
        /\ at = k /\ pc = "permission" => consumer # Nobody /\ NotDenied(consumer)
        /\ at > k =>
             IF consumer = Nobody THEN scenario.config.anonymous
             ELSE NotDenied(consumer) /\ (scenario.config.permissions => Granted(consumer))

(* Who has been on throughout and holds the secret holds it in a form that *)
(* is looked up yet: nobody goes back from a hash to the clear.            *)
NotMissed ==
    pc = "hashes" =>
        /\ asked = ConsumerTenant
        /\ \A c \in steady.on : Holds(c, asked) => "plain" \notin store.form[c]

AdmissionInv ==
    /\ Standing /\ Remembered /\ TenantFollows
    /\ ConsumerFound /\ PermissionChecked
    /\ NotMissed /\ NoFalseRefusal

-----------------------------------------------------------------------------
(* What the handler's steps have in common: the match, a plugin that lets  *)
(* the request pass, asks MongoDB once more or refuses, and the end.       *)
Matching ==
    /\ pc = "match" /\ consumer' = consumer
    /\ \/ pc' = "access" /\ at' = 1 /\ verdict' = verdict /\ who' = tenant'
       \/ pc' = "done" /\ at' = at /\ verdict' \in {"not_found", "no_tenant"}

LetThrough == pc' = "access" /\ at' = at + 1 /\ verdict' = verdict
Asking ==
    /\ pc = "access" /\ UNCHANGED <<at, verdict, who, consumer>>
    /\ \/ pc' = "hashes" /\ Plugin(at) = "api_key"
       \/ pc' = "permission" /\ Plugin(at) = "consumer_acl"
Refusing == pc' = "done" /\ verdict' = "refused" /\ UNCHANGED <<at, who, consumer>>

Deciding ==
    /\ at \in Places /\ pc \in {"access", "hashes", "permission"}
    /\ UNCHANGED <<route, tenant>>
    /\ LetThrough \/ Asking \/ Refusing
    /\ who' = IF Plugin(at) = "jwt_auth" /\ LetThrough THEN scenario.request.token.tenant ELSE who
    /\ Plugin(at) # "api_key" => UNCHANGED <<consumer, asked>>

Ending ==
    /\ pc = "access" /\ at = Len(scenario.plugins) + 1 /\ pc' = "done" /\ verdict' = "forwarded"
    /\ UNCHANGED <<at, route, tenant, who, consumer, asked>>

LEMMA Effects ==
    ASSUME Standing, Handle
    PROVE  UNCHANGED <<scenario, store, edits, seen, steady>> /\ (Matching \/ Deciding \/ Ending)
<1> USE DEF Runs, Pass, Refuse, End, outside, Plugin, Places
<1>1. CASE Match
  BY <1>1 DEF Match, Matching, Standing
<1> HIDE DEF Plugin, Places
<1>2. CASE RestrictIp
  <2>1. pc = "access" /\ at \in Places /\ Plugin(at) = "ip_restriction"
    BY <1>2 DEF RestrictIp, Plugin, Places
  <2> QED
    BY <1>2, <2>1 DEF RestrictIp, Deciding, LetThrough, Refusing
<1>3. CASE CheckJwt
  <2>1. pc = "access" /\ at \in Places /\ Plugin(at) = "jwt_auth"
    BY <1>3 DEF CheckJwt, Plugin, Places
  <2> QED
    BY <1>3, <2>1 DEF CheckJwt, Deciding, LetThrough, Refusing, request
<1>4. CASE CheckOAuth
  <2>1. pc = "access" /\ at \in Places /\ Plugin(at) = "oauth2"
    BY <1>4 DEF CheckOAuth, Plugin, Places
  <2> QED
    BY <1>4, <2>1 DEF CheckOAuth, Deciding, LetThrough, Refusing
<1>5. CASE CheckKey
  <2>1. pc = "access" /\ at \in Places /\ Plugin(at) = "api_key"
    BY <1>5 DEF CheckKey, Plugin, Places
  <2> QED
    BY <1>5, <2>1 DEF CheckKey, Deciding, LetThrough, Asking, Refusing
<1>6. CASE LookUpHashes
  <2>1. pc = "hashes" /\ at \in Places /\ Plugin(at) = "api_key"
    BY <1>6 DEF LookUpHashes, Standing
  <2> QED
    BY <1>6, <2>1 DEF LookUpHashes, Deciding, LetThrough, Refusing
<1>7. CASE CheckLists
  <2>1. pc = "access" /\ at \in Places /\ Plugin(at) = "consumer_acl"
    BY <1>7 DEF CheckLists, Plugin, Places
  <2> QED
    BY <1>7, <2>1 DEF CheckLists, Deciding, LetThrough, Asking, Refusing
<1>8. CASE CheckPermission
  <2>1. pc = "permission" /\ at \in Places /\ Plugin(at) = "consumer_acl"
    BY <1>8 DEF CheckPermission, Standing
  <2> QED
    BY <1>8, <2>1 DEF CheckPermission, Deciding, LetThrough, Refusing
<1>9. CASE Forward
  BY <1>9 DEF Forward, Ending
<1> QED
  BY <1>1, <1>2, <1>3, <1>4, <1>5, <1>6, <1>7, <1>8, <1>9, Zenon DEF Handle

LEMMA PlacesAre ==
    ASSUME Standing
    PROVE  /\ Places = 1 .. Len(scenario.plugins) /\ Len(scenario.plugins) \in Nat
           /\ \A k \in Places : Plugin(k) \in Plugins
BY DEF Standing, Places, Plugin

LEMMA StandingStep ==
    ASSUME Standing, Handle
    PROVE  Standing'
<1>1. scenario' = scenario /\ (Matching \/ Deciding \/ Ending)
  BY Effects
<1>2. Places' = Places /\ \A k : Plugin(k)' = Plugin(k)
  BY <1>1 DEF Places, Plugin
<1>3. CASE Matching
  BY <1>1, <1>2, <1>3 DEF Standing, Matching
<1>4. CASE Deciding
  BY <1>1, <1>2, <1>4, PlacesAre DEF Standing, Deciding, LetThrough, Asking, Refusing
<1>5. CASE Ending
  BY <1>1, <1>2, <1>5, PlacesAre DEF Standing, Ending
<1> QED
  BY <1>1, <1>3, <1>4, <1>5

LEMMA TenantStep ==
    ASSUME Standing, TenantFollows, Handle
    PROVE  TenantFollows'
<1>1. scenario' = scenario /\ (Matching \/ Deciding \/ Ending)
  BY Effects
<1>2. Places' = Places /\ \A k : Plugin(k)' = Plugin(k)
  BY <1>1 DEF Places, Plugin
<1>3. CASE Matching
  BY <1>1, <1>2, <1>3, PlacesAre DEF TenantFollows, Matching
<1>4. CASE Deciding
  <2>1. at \in Nat /\ \A k \in Places : k \in Nat
    BY PlacesAre DEF Standing
  <2>2. CASE LetThrough
    <3>1. at' = at + 1 /\ pc # "match" /\ pc # "done" /\ at \in Places /\ UNCHANGED tenant
      BY <1>4, <2>2 DEF Deciding, LetThrough
    <3>2. (\E i \in Places : i < at' /\ Plugin(i) = "jwt_auth")
             <=> (\E i \in Places : i < at /\ Plugin(i) = "jwt_auth") \/ Plugin(at) = "jwt_auth"
      BY <2>1, <3>1
    <3>3. who' = IF Plugin(at) = "jwt_auth" THEN scenario.request.token.tenant ELSE who
      BY <1>4, <2>2 DEF Deciding
    <3> QED
      BY <1>1, <1>2, <3>1, <3>2, <3>3 DEF TenantFollows
  <2>3. CASE ~LetThrough
    BY <1>1, <1>2, <1>4, <2>3 DEF TenantFollows, Deciding, Asking, Refusing
  <2> QED
    BY <2>2, <2>3
<1>5. CASE Ending
  BY <1>5 DEF TenantFollows, Ending
<1> QED
  BY <1>1, <1>3, <1>4, <1>5

(* The tenant api_key asks for is the one the request is entitled to. *)
LEMMA AskedTenant ==
    ASSUME Standing, TenantFollows, at \in Places, Plugin(at) = "api_key", pc \in {"access", "hashes"}
    PROVE  ConsumerTenant = EntitledTenant
<1>1. Precedes("jwt_auth", "api_key") <=> \E i \in Places : i < at /\ Plugin(i) = "jwt_auth"
  BY DEF Precedes, Standing, Places, Plugin
<1>2. who = IF \E i \in Places : i < at /\ Plugin(i) = "jwt_auth"
            THEN scenario.request.token.tenant ELSE tenant
  BY DEF TenantFollows
<1> QED
  BY <1>1, <1>2 DEF ConsumerTenant, EntitledTenant, request

LEMMA HoldersHold ==
    ASSUME Remembered, NEW t, NEW form, NEW c \in Holders(t, form)
    PROVE  c \in Consumers /\ Holds(c, t) /\ c \in seen.on
BY DEF Holders, Holds, request, Remembered

(* What became of the request at api_key: it found a consumer, or none is  *)
(* demanded, or it asks on.                                                *)
LEMMA KeyDecides ==
    ASSUME Standing, Remembered, TenantFollows, CheckKey \/ LookUpHashes
    PROVE  /\ at \in Places /\ Plugin(at) = "api_key" /\ pc \in {"access", "hashes"}
           /\ UNCHANGED <<scenario, store, edits, seen, steady, route, tenant, who>>
           /\ \/ consumer' = consumer
              \/ \E c \in Consumers : consumer' = c /\ Holds(c, EntitledTenant) /\ c \in seen.on
           /\ at' # at /\ consumer' \notin Consumers => ~(scenario.config.resolve /\ scenario.config.enforce)
<1>1. CASE CheckKey
  <2>1. pc = "access" /\ at \in Places /\ Plugin(at) = "api_key"
    BY <1>1 DEF CheckKey, Runs, Plugin, Places
  <2>2. ConsumerTenant = EntitledTenant
    BY <2>1, AskedTenant
  <2>3. UNCHANGED <<scenario, store, edits, seen, steady, route, tenant, who>>
    BY <1>1 DEF CheckKey, outside
  <2>4. \/ consumer' = consumer /\ (at' = at \/ ~scenario.config.resolve)
        \/ \E c \in Holders(ConsumerTenant, LookUps[1]) : consumer' = c
    BY <1>1 DEF CheckKey, Pass, Refuse, End, config
  <2>5. \A c \in Holders(ConsumerTenant, LookUps[1]) :
            c \in Consumers /\ Holds(c, ConsumerTenant) /\ c \in seen.on
    BY HoldersHold
  <2> QED
    BY <2>1, <2>2, <2>3, <2>4, <2>5
<1>2. CASE LookUpHashes
  <2>1. pc = "hashes" /\ at \in Places /\ Plugin(at) = "api_key"
    BY <1>2 DEF LookUpHashes, Standing
  <2>2. ConsumerTenant = EntitledTenant
    BY <2>1, AskedTenant
  <2>3. UNCHANGED <<scenario, store, edits, seen, steady, route, tenant, who>>
    BY <1>2 DEF LookUpHashes, outside
  <2>4. \/ consumer' = consumer /\ (at' = at \/ ~scenario.config.enforce)
        \/ \E c \in Holders(ConsumerTenant, LookUps[2]) : consumer' = c
    BY <1>2 DEF LookUpHashes, Pass, Refuse, End, config
  <2>5. \A c \in Holders(ConsumerTenant, LookUps[2]) :
            c \in Consumers /\ Holds(c, ConsumerTenant) /\ c \in seen.on
    BY HoldersHold
  <2> QED
    BY <2>1, <2>2, <2>3, <2>4, <2>5
<1> QED
  BY <1>1, <1>2

LEMMA EntitledStays ==
    ASSUME UNCHANGED <<scenario, route, tenant>>
    PROVE  /\ EntitledTenant' = EntitledTenant
           /\ \A c, t : Holds(c, t)' <=> Holds(c, t)
BY DEF EntitledTenant, Precedes, request, Holds

(* A place runs the actions of its plugin and of no other. *)
LEMMA KeyActions ==
    ASSUME Standing, Handle, Deciding, Plugin(at) = "api_key"
    PROVE  CheckKey \/ LookUpHashes
<1>1. ~Match
  BY DEF Match, Deciding
<1>2. ~RestrictIp /\ ~CheckJwt /\ ~CheckOAuth /\ ~CheckLists
  BY DEF RestrictIp, CheckJwt, CheckOAuth, CheckLists, Runs, Plugin
<1>3. ~CheckPermission
  BY DEF CheckPermission, Standing
<1>4. ~Forward
  BY PlacesAre DEF Forward, Deciding
<1> QED
  BY <1>1, <1>2, <1>3, <1>4, Zenon DEF Handle

LEMMA AclActions ==
    ASSUME Standing, Handle, Deciding, Plugin(at) = "consumer_acl"
    PROVE  CheckLists \/ CheckPermission
<1>1. ~Match
  BY DEF Match, Deciding
<1>2. ~RestrictIp /\ ~CheckJwt /\ ~CheckOAuth /\ ~CheckKey
  BY DEF RestrictIp, CheckJwt, CheckOAuth, CheckKey, Runs, Plugin
<1>3. ~LookUpHashes
  BY DEF LookUpHashes, Standing
<1>4. ~Forward
  BY PlacesAre DEF Forward, Deciding
<1> QED
  BY <1>1, <1>2, <1>3, <1>4, Zenon DEF Handle

LEMMA FoundStep ==
    ASSUME Standing, Remembered, TenantFollows, ConsumerFound,
           Handle
    PROVE  ConsumerFound'
<1>1. /\ UNCHANGED <<scenario, seen>> /\ (Matching \/ Deciding \/ Ending)
      /\ Places' = Places /\ \A k : Plugin(k)' = Plugin(k)
  BY Effects DEF Places, Plugin
<1>2. at \in Nat /\ (\A k \in Places : k \in Nat \ {0})
  BY PlacesAre DEF Standing
<1>3. CASE Matching
  BY <1>1, <1>2, <1>3 DEF Matching, Standing, ConsumerFound
<1>4. CASE CheckKey \/ LookUpHashes
  <2>1. /\ at \in Places /\ Plugin(at) = "api_key" /\ pc \in {"access", "hashes"}
        /\ UNCHANGED <<scenario, seen, route, tenant>>
        /\ \/ consumer' = consumer
           \/ \E c \in Consumers : consumer' = c /\ Holds(c, EntitledTenant) /\ c \in seen.on
        /\ at' # at /\ consumer' \notin Consumers => ~(scenario.config.resolve /\ scenario.config.enforce)
    BY <1>4, KeyDecides
  <2>2. /\ \A k \in Places : Plugin(k) = "api_key" => k = at
        /\ consumer = Nobody
    BY <2>1, <1>2 DEF Standing, ConsumerFound, Plugin, Places
  <2>3. at' \in {at, at + 1} /\ (at' = at => consumer' = consumer)
    <3>1. CheckKey => at' \in {at, at + 1} /\ (at' = at => consumer' = consumer)
      BY <1>2 DEF CheckKey, Pass, Refuse, End
    <3>2. LookUpHashes => at' \in {at, at + 1} /\ (at' = at => consumer' = consumer)
      BY <1>2 DEF LookUpHashes, Pass, Refuse, End
    <3> QED
      BY <1>4, <3>1, <3>2
  <2>4. /\ EntitledTenant' = EntitledTenant
        /\ \A c, t : Holds(c, t)' <=> Holds(c, t)
    BY <2>1, EntitledStays
  <2>5. ASSUME NEW k \in Places, Plugin(k) = "api_key", at' > k, consumer' # Nobody
        PROVE  Holds(consumer, EntitledTenant)' /\ consumer' \in seen.on
    <3>1. PICK c \in Consumers : consumer' = c /\ Holds(c, EntitledTenant) /\ c \in seen.on
      BY <2>1, <2>2, <2>5
    <3>2. Holds(consumer, EntitledTenant)' <=> Holds(c, EntitledTenant)
      BY <2>1, <2>4, <3>1 DEF Holds, EntitledTenant, Precedes, request
    <3> QED
      BY <3>1, <3>2
  <2>6. ASSUME NEW k \in Places, Plugin(k) = "api_key", at' > k, consumer' = Nobody
        PROVE  ~(scenario.config.resolve /\ scenario.config.enforce)
    <3>1. at' # at
      BY <1>2, <2>2, <2>6
    <3>2. consumer' \notin Consumers
      BY <2>6, AdmissionAssumption
    <3> QED
      BY <2>1, <3>1, <3>2
  <2>7. ASSUME NEW k \in Places, Plugin(k) = "api_key", at' <= k
        PROVE  consumer' = Nobody
    BY <1>2, <2>1, <2>2, <2>3, <2>7
  <2> QED
    BY <1>1, <2>5, <2>6, <2>7 DEF ConsumerFound
<1>5. CASE (Deciding /\ Plugin(at) # "api_key") \/ Ending
  <2>1. /\ UNCHANGED <<consumer, route, tenant>> /\ at' \in {at, at + 1}
        /\ at' # at => at \notin Places \/ Plugin(at) # "api_key"
    BY <1>2, <1>5 DEF Deciding, LetThrough, Asking, Refusing, Ending
  <2>2. ASSUME NEW k \in Places, Plugin(k) = "api_key" PROVE (at' <= k <=> at <= k) /\ (at' > k <=> at > k)
    BY <1>2, <2>1, <2>2
  <2>3. /\ EntitledTenant' = EntitledTenant
        /\ \A c, t : Holds(c, t)' <=> Holds(c, t)
    BY <1>1, <2>1, EntitledStays
  <2> QED
    BY <1>1, <2>1, <2>2, <2>3 DEF ConsumerFound
<1>6. Deciding /\ Plugin(at) = "api_key" => CheckKey \/ LookUpHashes
  BY KeyActions
<1> QED
  BY <1>1, <1>3, <1>4, <1>5, <1>6


LEMMA PermissionStep ==
    ASSUME Standing, Remembered, PermissionChecked, Handle
    PROVE  PermissionChecked'
<1>1. /\ UNCHANGED <<scenario, store, seen>> /\ (Matching \/ Deciding \/ Ending)
      /\ Places' = Places /\ \A k : Plugin(k)' = Plugin(k)
  BY Effects DEF Places, Plugin
<1>2. at \in Nat /\ (\A k \in Places : k \in Nat \ {0})
  BY PlacesAre DEF Standing
<1>3. \A c : NotDenied(c)' <=> NotDenied(c)
  BY <1>1 DEF NotDenied
<1>4. route' = route => \A c : Granted(c)' <=> Granted(c)
  BY <1>1 DEF Granted
<1> SUFFICES ASSUME NEW j \in Places, NEW k \in Places, j < k,
                    Plugin(j) = "api_key", Plugin(k) = "consumer_acl"
             PROVE  /\ at' = k /\ pc' = "permission" => consumer' # Nobody /\ NotDenied(consumer)'
                    /\ at' > k =>
                         IF consumer' = Nobody THEN scenario.config.anonymous
                         ELSE NotDenied(consumer)' /\ (scenario.config.permissions => Granted(consumer)')
  BY <1>1, Zenon DEF PermissionChecked
<1>5. /\ at = k /\ pc = "permission" => consumer # Nobody /\ NotDenied(consumer)
      /\ at > k =>
           IF consumer = Nobody THEN scenario.config.anonymous
           ELSE NotDenied(consumer) /\ (scenario.config.permissions => Granted(consumer))
  BY DEF PermissionChecked
<1>6. CASE Matching
  BY <1>1, <1>2, <1>6 DEF Matching, Standing
<1>7. CASE Deciding /\ at = k
  <2>1. CheckLists \/ CheckPermission
    BY <1>7, AclActions
  <2>2. UNCHANGED <<consumer, route>>
    BY <1>7 DEF Deciding
  <2>3. (NotDenied(consumer)' <=> NotDenied(consumer)) /\ (Granted(consumer)' <=> Granted(consumer))
    BY <1>1, <2>2 DEF NotDenied, Granted
  <2>4. CASE CheckLists
    <3>1. pc = "access" /\ (LetThrough \/ Asking \/ Refusing)
      BY <1>7, <2>4 DEF CheckLists, Runs, Deciding
    <3>2. (LetThrough \/ Asking) => Listed
      BY <2>4 DEF CheckLists, Refuse, End, LetThrough, Asking
    <3>3. Listed /\ consumer # Nobody => NotDenied(consumer)
      BY DEF Listed, Labels, NotDenied, config
    <3>4. Listed /\ consumer = Nobody => scenario.config.anonymous
      BY DEF Listed, config
    <3>5. LetThrough => ~scenario.config.permissions \/ consumer = Nobody
      BY <2>4, <3>1, <1>2 DEF CheckLists, Refuse, End, config, LetThrough
    <3>6. Asking => consumer # Nobody
      BY <2>4, <3>1 DEF CheckLists, Refuse, Pass, End, config, Asking
    <3> QED
      BY <1>2, <1>7, <2>2, <2>3, <3>1, <3>2, <3>3, <3>4, <3>5, <3>6 DEF LetThrough, Asking, Refusing
  <2>5. CASE CheckPermission
    <3>1. pc = "permission" /\ consumer # Nobody /\ NotDenied(consumer)
      BY <1>5, <1>7, <2>5 DEF CheckPermission
    <3>2. pc' # "permission" /\ at' \in {at, at + 1}
      BY <2>5 DEF CheckPermission, Pass, Refuse, End
    <3>3. at' # at => \E p \in store.permitted : Covers(Permissions[p], consumer, ConsumerTenant)
      BY <2>5 DEF CheckPermission, Refuse
    <3>4. at' # at => Granted(consumer)
      BY <3>3 DEF Granted, Covers, request, Remembered
    <3> QED
      BY <1>2, <1>7, <2>2, <2>3, <3>1, <3>2, <3>4
  <2> QED
    BY <2>1, <2>4, <2>5
<1>8. CASE Deciding /\ at # k
  <2>1. at' = k => pc' # "permission"
    BY <1>2, <1>8 DEF Deciding, LetThrough, Asking, Refusing
  <2>2. at' > k => at > k
    BY <1>2, <1>8 DEF Deciding, LetThrough, Asking, Refusing
  <2>3. at > k => consumer' = consumer /\ route' = route
    BY <1>2, <1>8 DEF Deciding, Standing
  <2>4. at > k => (NotDenied(consumer)' <=> NotDenied(consumer)) /\ (Granted(consumer)' <=> Granted(consumer))
    BY <1>1, <2>3 DEF NotDenied, Granted
  <2> QED
    BY <1>5, <2>1, <2>2, <2>3, <2>4
<1>9. CASE Ending
  <2>1. UNCHANGED <<at, route, consumer>> /\ pc' = "done"
    BY <1>9 DEF Ending
  <2>2. (NotDenied(consumer)' <=> NotDenied(consumer)) /\ (Granted(consumer)' <=> Granted(consumer))
    BY <1>1, <2>1 DEF NotDenied, Granted
  <2> QED
    BY <1>5, <2>1, <2>2
<1> QED
  BY <1>1, <1>6, <1>7, <1>8, <1>9

(* The second look-up is asked for only when nobody who was on throughout  *)
(* has the secret in clear.                                                *)
LEMMA NotMissedStep ==
    ASSUME Standing, Remembered, NotMissed, Handle
    PROVE  NotMissed'
<1> SUFFICES ASSUME pc' = "hashes" PROVE NotMissed'
  BY DEF NotMissed
<1>1. /\ UNCHANGED <<scenario, store, steady>> /\ Deciding /\ Asking
  BY Effects DEF Matching, Deciding, Ending, LetThrough, Refusing
<1>2. pc = "access" /\ Plugin(at) = "api_key" /\ UNCHANGED <<who, route>>
  BY <1>1 DEF Deciding, Asking
<1>3. CheckKey
  BY <1>1, <1>2, KeyActions DEF LookUpHashes
<1>4. asked' = ConsumerTenant /\ Holders(ConsumerTenant, "plain") = {}
  BY <1>3 DEF CheckKey, Pass, Refuse, End, LookUps
<1>5. ConsumerTenant' = ConsumerTenant
  BY <1>2 DEF ConsumerTenant
<1>6. ASSUME NEW c \in steady.on, Holds(c, ConsumerTenant) PROVE "plain" \notin store.form[c]
  BY <1>4, <1>6 DEF Holders, Holds, Remembered, Held, request
<1>7. \A c : Holds(c, asked)' <=> Holds(c, ConsumerTenant)
  BY <1>1, <1>4 DEF Holds
<1> QED
  BY <1>1, <1>4, <1>5, <1>6, <1>7 DEF NotMissed

LEMMA RefusalStep ==
    ASSUME Standing, Remembered, NotMissed,
           NoFalseRefusal, Handle
    PROVE  NoFalseRefusal'
<1> SUFFICES ASSUME verdict' = "refused" PROVE NoFalseRefusal'
  BY DEF NoFalseRefusal
<1>1. UNCHANGED <<scenario, store, steady>> /\ (Matching \/ Deciding \/ Ending)
  BY Effects
<1>2. Deciding /\ Refusing
  BY <1>1 DEF Matching, Deciding, Ending, LetThrough, Asking, Standing
<1>3. UNCHANGED <<scenario, store, steady, at, who, route, consumer>>
  BY <1>1, <1>2 DEF Deciding, Refusing
<1>4. /\ Presented' = Presented /\ Configured' = Configured
      /\ Listed' = Listed /\ ConsumerTenant' = ConsumerTenant
  BY <1>3 DEF Presented, Configured, Listed, Labels, ConsumerTenant,
              request, config
<1>5. ASSUME Plugin(at) = "api_key", Presented, Configured, NEW c \in steady.on
      PROVE  \/ About[c].tenant # asked' \/ About[c].secret # scenario.request.secret
             \/ scenario.request.kind = "pair" /\ scenario.request.client # c
  <2>1. LookUpHashes
    BY <1>2, <1>5, KeyActions DEF CheckKey, Pass, End, Refusing, Standing
  <2>2. asked' = asked /\ Holders(ConsumerTenant, "hashed") = {} /\ pc = "hashes"
    BY <1>2, <2>1 DEF LookUpHashes, Pass, End, LookUps, Refusing, Standing
  <2>3. asked = ConsumerTenant /\ (Holds(c, asked) => "plain" \notin store.form[c])
    BY <2>2 DEF NotMissed
  <2>4. /\ c \in Consumers /\ c \in store.on
        /\ store.form[c] \subseteq {"plain", "hashed"} /\ store.form[c] # {}
    BY DEF Remembered, Held, Forms
  <2> QED
    BY <2>2, <2>3, <2>4 DEF Holders, Holds, request
<1>6. ASSUME Plugin(at) = "consumer_acl", Listed, NEW p \in steady.permitted
      PROVE  ~(Permissions[p].route = "any" /\ Permissions[p].api = "any" /\ Permissions[p].methods = {}
               /\ Permissions[p].consumer = consumer /\ Permissions[p].tenant = ConsumerTenant)
  <2>1. CheckPermission
    BY <1>2, <1>6, AclActions DEF CheckLists, Pass, End, Refusing, Standing
  <2>2. ~Covers(Permissions[p], consumer, ConsumerTenant)
    BY <1>2, <2>1 DEF CheckPermission, Pass, Refusing, Remembered
  <2> QED
    BY <2>2 DEF Covers
<1> QED
  BY <1>3, <1>4, <1>5, <1>6 DEF NoFalseRefusal, request, Plugin

LEMMA HandleKeeps ==
    ASSUME AdmissionInv, Handle
    PROVE  AdmissionInv'
<1>1. UNCHANGED <<store, seen, steady>>
  BY Effects DEF AdmissionInv
<1>2. Remembered'
  BY <1>1 DEF AdmissionInv, Remembered, Held
<1> QED
  BY <1>2, StandingStep, TenantStep, FoundStep, PermissionStep, NotMissedStep, RefusalStep DEF AdmissionInv

-----------------------------------------------------------------------------
(* The collections change behind the request. *)

(* What an edit makes of the store: somebody is switched, a key is hashed, *)
(* a permission is given or taken.                                         *)
Rewritten(new) ==
    /\ new.form \in [Consumers -> SUBSET Forms]
    /\ \A c \in Consumers : "plain" \notin store.form[c] => "plain" \notin new.form[c]

LEMMA EditKeeps ==
    ASSUME AdmissionInv, NEW new, Rewritten(new), Edit(new)
    PROVE  AdmissionInv'
<1>1. /\ UNCHANGED <<scenario, pc, at, route, tenant, who, consumer, verdict, asked>>
      /\ pc \notin {"match", "done"} /\ store' = new
      /\ seen' = [on |-> seen.on \cup new.on, permitted |-> seen.permitted \cup new.permitted]
      /\ steady' = [on |-> steady.on \cap Held(new), permitted |-> steady.permitted \cap new.permitted]
  BY DEF Edit
<1>2. Places' = Places /\ (\A k : Plugin(k)' = Plugin(k))
  BY <1>1 DEF Places, Plugin
<1>3. Standing' /\ TenantFollows'
  BY <1>1, <1>2 DEF AdmissionInv, Standing, TenantFollows
<1>4. seen.on \subseteq seen'.on /\ seen.permitted \subseteq seen'.permitted /\ steady'.on \subseteq steady.on
  BY <1>1
<1>5. Remembered'
  BY <1>1 DEF AdmissionInv, Remembered, Held, Rewritten
<1>6. /\ EntitledTenant' = EntitledTenant /\ ConsumerTenant' = ConsumerTenant
      /\ \A c, t : Holds(c, t)' <=> Holds(c, t)
  BY <1>1, EntitledStays DEF ConsumerTenant
<1>7. Holds(consumer, EntitledTenant)' <=> Holds(consumer, EntitledTenant)
  BY <1>1, <1>6 DEF Holds
<1>8. ConsumerFound'
  BY <1>1, <1>2, <1>4, <1>7 DEF AdmissionInv, ConsumerFound
<1>9. (NotDenied(consumer)' <=> NotDenied(consumer)) /\ (Granted(consumer) => Granted(consumer)')
  BY <1>1, <1>4 DEF NotDenied, Granted
<1>10. PermissionChecked'
  BY <1>1, <1>2, <1>9 DEF AdmissionInv, PermissionChecked
<1>11. \A c : Holds(c, asked)' <=> Holds(c, asked)
  BY <1>1 DEF Holds
<1>12. NotMissed'
  <2>1. \A c \in steady.on : c \in Consumers
    BY DEF AdmissionInv, Remembered
  <2> QED
    BY <1>1, <1>4, <1>6, <1>11, <2>1 DEF AdmissionInv, NotMissed, Rewritten
<1>13. NoFalseRefusal'
  BY <1>1 DEF AdmissionInv, Standing, NoFalseRefusal
<1> QED
  BY <1>3, <1>5, <1>8, <1>10, <1>12, <1>13 DEF AdmissionInv

LEMMA EditsRewrite ==
    ASSUME AdmissionInv,
           NEW c \in Consumers, Switch(c) \/ Hash(c)
    PROVE  AdmissionInv'
<1>1. store.form \in [Consumers -> SUBSET Forms]
  BY DEF AdmissionInv, Remembered
<1>2. CASE Switch(c)
  <2>1. PICK new : new = [store EXCEPT !.on = IF c \in @ THEN @ \ {c} ELSE @ \cup {c}]
    OBVIOUS
  <2>2. Edit(new)
    BY <1>2, <2>1 DEF Switch
  <2>3. Rewritten(new)
    BY <1>1, <2>1 DEF Rewritten
  <2> QED
    BY <2>2, <2>3, EditKeeps
<1>3. CASE Hash(c)
  <2>1. PICK new : new = [store EXCEPT !.form[c] = {"hashed"}]
    OBVIOUS
  <2>2. Edit(new)
    BY <1>3, <2>1 DEF Hash
  <2>3. Rewritten(new)
    BY <1>1, <2>1 DEF Rewritten, Forms
  <2> QED
    BY <2>2, <2>3, EditKeeps
<1> QED
  BY <1>2, <1>3

LEMMA PermitRewrites ==
    ASSUME AdmissionInv, NEW p, Permit(p)
    PROVE  AdmissionInv'
<1>1. PICK new : new = [store EXCEPT !.permitted = IF p \in @ THEN @ \ {p} ELSE @ \cup {p}]
  OBVIOUS
<1>2. Edit(new)
  BY <1>1 DEF Permit
<1>3. Rewritten(new)
  BY <1>1 DEF AdmissionInv, Remembered, Rewritten
<1> QED
  BY <1>2, <1>3, EditKeeps

LEMMA AdmissionStarts ==
    ASSUME ListedOnce, Init
    PROVE  AdmissionInv
<1>1. scenario.plugins \in Seq(Plugins) /\ store \in StoreRecords
  BY AdmissionAssumption DEF Init
<1>2. Standing
  BY <1>1 DEF Init, Standing, ListedOnce, Places, Plugin
<1>3. Remembered
  BY <1>1 DEF Init, Remembered, StoreRecords, Held
<1>4. TenantFollows /\ NotMissed /\ NoFalseRefusal
  BY DEF Init, TenantFollows, NotMissed, NoFalseRefusal
<1>5. ConsumerFound /\ PermissionChecked
  BY <1>2, PlacesAre DEF Init, ConsumerFound, PermissionChecked
<1> QED
  BY <1>2, <1>3, <1>4, <1>5 DEF AdmissionInv

LEMMA AdmissionHolds ==
    ASSUME ListedOnce
    PROVE  Spec => []AdmissionInv
<1>1. Init => AdmissionInv
  BY AdmissionStarts
<1>2. AdmissionInv /\ [Next]_vars => AdmissionInv'
  <2> SUFFICES ASSUME AdmissionInv, [Next]_vars PROVE AdmissionInv'
    OBVIOUS
  <2>1. CASE Handle
    BY <2>1, HandleKeeps
  <2>2. ASSUME NEW c \in Consumers, Switch(c) \/ Hash(c) PROVE AdmissionInv'
    BY <2>2, EditsRewrite
  <2>3. ASSUME NEW p \in DOMAIN Permissions, Permit(p) PROVE AdmissionInv'
    BY <2>3, PermitRewrites
  <2>4. CASE UNCHANGED vars
    BY <2>4 DEF AdmissionInv, Standing, Remembered, TenantFollows, ConsumerFound, PermissionChecked,
                NotMissed, NoFalseRefusal, Places, Plugin, Holds, Granted, NotDenied, vars,
                EntitledTenant, Precedes, ConsumerTenant, Held, Presented,
                Configured, Listed, Labels, request, config
  <2> QED
    BY <2>1, <2>2, <2>3, <2>4 DEF Next, Done
<1> QED
  BY <1>1, <1>2, PTL DEF Spec

(* Who gets through the access plugins of a route was entitled to: the     *)
(* consumer the request went as belongs to the tenant it was looked for    *)
(* in, holds the secret presented and was on while the request was         *)
(* handled; no list of consumer_acl denies it, and it held a permission    *)
(* for the route and the method, whatever was changed in the collections   *)
(* between the look-ups (app() of src/app/main.py, api_key.py and          *)
(* consumer_acl.py).                                                       *)
THEOREM EntitledAlways ==
    ASSUME ListedOnce
    PROVE  Spec => []Entitled
<1>1. AdmissionInv => Entitled
  <2> SUFFICES ASSUME AdmissionInv, verdict = "forwarded" PROVE Entitled
    BY DEF Entitled, ForwardedAsConsumer, ForwardedByPermission
  <2>1. at = Len(scenario.plugins) + 1 /\ (\A k \in Places : k \in Nat /\ at > k)
    BY PlacesAre DEF AdmissionInv, Standing
  <2>2. ForwardedAsConsumer
    <3> SUFFICES ASSUME NEW k \in Places, Plugin(k) = "api_key" PROVE ForwardedAsConsumer
      BY DEF ForwardedAsConsumer, Listing, Places, Plugin, Range
    <3> QED
      BY <2>1 DEF AdmissionInv, ConsumerFound, ForwardedAsConsumer, Holds, config, request
  <2>3. ForwardedByPermission
    <3> SUFFICES ASSUME NEW j \in Places, NEW k \in Places, j < k, Plugin(j) = "api_key",
                        Plugin(k) = "consumer_acl"
                 PROVE  ForwardedByPermission
      BY DEF ForwardedByPermission, Precedes, Places, Plugin
    <3>1. IF consumer = Nobody THEN scenario.config.anonymous
          ELSE NotDenied(consumer) /\ (scenario.config.permissions => Granted(consumer))
      BY <2>1 DEF AdmissionInv, PermissionChecked
    <3> QED
      BY <3>1 DEF ForwardedByPermission, NotDenied, Granted, config, request
  <2> QED
    BY <2>2, <2>3 DEF Entitled
<1> QED
  BY <1>1, AdmissionHolds, PTL

(* Nobody is refused for what happens behind the request: a consumer who   *)
(* was on throughout is found, though its key is replaced by a hash        *)
(* between the two look-ups of api_key, and a permission held throughout   *)
(* counts (api_key.py, consumer_acl.py).                                   *)
THEOREM NobodyIsRefusedFalsely ==
    ASSUME ListedOnce
    PROVE  Spec => []NoFalseRefusal
<1>1. AdmissionInv => NoFalseRefusal
  BY DEF AdmissionInv
<1> QED
  BY <1>1, AdmissionHolds, PTL

-----------------------------------------------------------------------------
(* Folds over a sequence. *)

(* Of some natural numbers one is the least. *)
LEMMA Least ==
    ASSUME NEW B \in SUBSET Nat, B # {}
    PROVE  \E m \in B : \A k \in B : m <= k
<1>1. PICK b \in B : TRUE
  OBVIOUS
<1> DEFINE S == 0 .. b
           T == {U \in SUBSET S : \E k \in B : U = 0 .. k}
<1>2. IsFiniteSet(S) /\ S \in T
  BY FS_Interval
<1>3. PICK X \in T : \A Y \in T : ~ (<<Y, X>> \in StrictSubsetOrdering(S))
  <2>1. IsWellFoundedOn(StrictSubsetOrdering(S), SUBSET S)
    BY <1>2, FS_StrictSubsetOrderingWellFounded, FS_FiniteSubsetsOfFinite
  <2>2. T \subseteq SUBSET S /\ T # {}
    BY <1>2
  <2> HIDE DEF T, S
  <2> QED
    BY <2>1, <2>2, WFMin
<1>4. PICK m \in B : X = 0 .. m
  OBVIOUS
<1>5. ASSUME NEW k \in B, k < m PROVE FALSE
  <2>1. 0 .. k \in T /\ 0 .. k \subseteq X /\ 0 .. k # X
    <3>1. m \in X /\ m \notin 0 .. k
      BY <1>4, <1>5
    <3>2. 0 .. k \subseteq X /\ X \subseteq S
      BY <1>4, <1>5
    <3> QED
      BY <3>1, <3>2
  <2>2. <<0 .. k, X>> \in StrictSubsetOrdering(S)
    BY <2>1 DEF StrictSubsetOrdering
  <2> HIDE DEF T, S
  <2> QED
    BY <1>3, <2>1, <2>2
<1> QED
  BY <1>5

(* What holds of 0 and of the next of each number up to n holds of n. *)
LEMMA UpTo ==
    ASSUME NEW n \in Nat, NEW Good, 0 \in Good, \A k \in 0 .. n - 1 : k \in Good => k + 1 \in Good
    PROVE  0 .. n \subseteq Good
<1> DEFINE B == {k \in 0 .. n : k \notin Good}
<1> SUFFICES ASSUME B # {} PROVE FALSE
  OBVIOUS
<1>1. PICK m \in B : \A k \in B : m <= k
  <2> B \in SUBSET Nat
    OBVIOUS
  <2> HIDE DEF B
  <2> QED
    BY Least
<1>2. m - 1 \in 0 .. n - 1 /\ m - 1 \in Good
  BY <1>1
<1> QED
  BY <1>1, <1>2

LEMMA MaxUpTo ==
    ASSUME NEW k \in Nat, k # 0, NEW s \in SUBSET (1 .. k), k \in s
    PROVE  Max(s) = k
<1>1. k \in s /\ \A y \in s : k >= y
  OBVIOUS
<1>2. Max(s) \in s /\ \A y \in s : Max(s) >= y
  BY <1>1 DEF Max
<1>3. Max(s) \in 1 .. k /\ Max(s) >= k
  BY <1>2
<1> QED
  BY <1>3

(* A fold over the places of a sequence: F says what one place does.  *)
Folds(F, base, S, it) ==
    \A s \in SUBSET S : it[s] = IF s = {} THEN base ELSE F[<<Max(s), it[s \ {Max(s)}]>>]

(* There is a function that has the fold's values on all sets of places. *)
LEMMA FoldExists ==
    ASSUME NEW n \in Nat, NEW D, NEW base \in D, NEW F \in [(1 .. n) \X D -> D]
    PROVE  \E it \in [SUBSET (1 .. n) -> D] : Folds(F, base, 1 .. n, it)
<1> DEFINE Good == {k \in 0 .. n : \E it \in [SUBSET (1 .. k) -> D] : Folds(F, base, 1 .. k, it)}
<1>1. 0 \in Good
  <2> DEFINE it == [s \in SUBSET (1 .. 0) |-> base]
  <2>1. it \in [SUBSET (1 .. 0) -> D] /\ Folds(F, base, 1 .. 0, it)
    BY DEF Folds
  <2> QED
    BY <2>1
<1>2. ASSUME NEW k \in 0 .. n - 1, k \in Good PROVE k + 1 \in Good
  <2>1. PICK i \in [SUBSET (1 .. k) -> D] : Folds(F, base, 1 .. k, i)
    BY <1>2
  <2> DEFINE Reaches(s) == k + 1 \in s
             it == [s \in SUBSET (1 .. k + 1) |->
                      IF Reaches(s) THEN F[<<k + 1, i[s \ {k + 1}]>>] ELSE i[s]]
  <2>2. ASSUME NEW s \in SUBSET (1 .. k + 1)
        PROVE  /\ Reaches(s) => /\ Max(s) = k + 1 /\ s # {} /\ s \ {k + 1} \in SUBSET (1 .. k)
                             /\ ~Reaches(s \ {k + 1})
               /\ ~Reaches(s) => s \in SUBSET (1 .. k) /\ (s # {} => s \ {Max(s)} \in SUBSET (1 .. k) /\ ~Reaches(s \ {Max(s)}))
    <3>1. k \in Nat /\ k + 1 \in Nat /\ k + 1 # 0
      OBVIOUS
    <3>2. Reaches(s) => Max(s) = k + 1
      BY <3>1, MaxUpTo
    <3>3. \A u \in SUBSET (1 .. k + 1) : k + 1 \notin u => u \in SUBSET (1 .. k)
      <4>1. \A x \in 1 .. k + 1 : x = k + 1 \/ x \in 1 .. k
        BY <3>1
      <4> QED
        BY <4>1
    <3> QED
      BY <3>2, <3>3
  <2>3. it \in [SUBSET (1 .. k + 1) -> D]
    <3>1. ASSUME NEW s \in SUBSET (1 .. k + 1)
          PROVE  (IF Reaches(s) THEN F[<<k + 1, i[s \ {k + 1}]>>] ELSE i[s]) \in D
      BY <2>2, <2>1
    <3> QED
      BY <3>1
  <2>4. ASSUME NEW s \in SUBSET (1 .. k + 1)
        PROVE  it[s] = IF s = {} THEN base ELSE F[<<Max(s), it[s \ {Max(s)}]>>]
    <3>1. CASE Reaches(s)
      <4>1. it[s \ {k + 1}] = i[s \ {k + 1}]
        BY <2>2, <3>1
      <4> QED
        BY <2>2, <3>1, <4>1
    <3>2. CASE ~Reaches(s)
      <4>1. i[s] = IF s = {} THEN base ELSE F[<<Max(s), i[s \ {Max(s)}]>>]
        BY <2>1, <2>2, <3>2 DEF Folds
      <4>2. s # {} => it[s \ {Max(s)}] = i[s \ {Max(s)}]
        BY <2>2, <3>2
      <4> QED
        BY <3>2, <4>1, <4>2
    <3> QED
      BY <3>1, <3>2
  <2>5. Folds(F, base, 1 .. k + 1, it)
    <3> HIDE DEF it
    <3> QED
      BY <2>4 DEF Folds
  <2>6. k + 1 \in 0 .. n
    OBVIOUS
  <2> HIDE DEF it
  <2> QED
    BY <2>3, <2>5, <2>6
<1>3. n \in Good
  <2> HIDE DEF Good
  <2>1. 0 .. n \subseteq Good
    BY <1>1, <1>2, UpTo
  <2> QED
    BY <2>1
<1> QED
  BY <1>3

LEMMA MaxIn ==
    ASSUME NEW n \in Nat, NEW s \in SUBSET (1 .. n), s # {}
    PROVE  Max(s) \in s /\ \A y \in s : y <= Max(s)
<1> DEFINE B == {k \in 0 .. n : \A y \in s : y <= k}
<1>1. n \in B
  OBVIOUS
<1>2. PICK m \in B : \A k \in B : m <= k
  <2> B \in SUBSET Nat /\ B # {}
    BY <1>1
  <2> HIDE DEF B
  <2> QED
    BY Least
<1>3. m \in s
  <2> SUFFICES ASSUME m \notin s PROVE FALSE
    OBVIOUS
  <2>1. PICK x \in s : TRUE
    OBVIOUS
  <2>2. x <= m /\ x # m /\ x \in 1 .. n
    BY <1>2, <2>1
  <2>3. m - 1 \in 0 .. n /\ \A y \in s : y <= m - 1
    BY <1>2, <2>2
  <2> QED
    BY <1>2, <2>3
<1>4. \A y \in s : m >= y
  BY <1>2
<1>5. Max(s) \in s /\ \A y \in s : Max(s) >= y
  BY <1>3, <1>4 DEF Max
<1> QED
  BY <1>5

(* What a fold has come to after each place. *)
StagesOf(F, base, n, D, h) ==
    h \in [0 .. n -> D] /\ h[0] = base /\ \A k \in 1 .. n : h[k] = F[<<k, h[k - 1]>>]

(* G is defined as folds are, by the places of s. *)
FoldedBy(F, base, n, D, G) ==
    /\ n \in Nat /\ base \in D /\ F \in [(1 .. n) \X D -> D]
    /\ G[{}] = base
    /\ \A s \in SUBSET (1 .. n) :
          s # {} /\ G[s \ {Max(s)}] \in D => G[s] = F[<<Max(s), G[s \ {Max(s)}]>>]

(* It comes to v, place after place. *)
ComesTo(F, base, n, D, v) == \E h : StagesOf(F, base, n, D, h) /\ h[n] = v

(* The fold over all places is the last of the values it comes to.        *)
LEMMA FoldStages ==
    ASSUME NEW n, NEW D, NEW base, NEW F, NEW G, FoldedBy(F, base, n, D, G)
    PROVE  ComesTo(F, base, n, D, G[1 .. n])
<1>0. n \in Nat /\ base \in D
  BY DEF FoldedBy
<1> DEFINE h == [k \in 0 .. n |-> G[1 .. k]]
           Good == {k \in 0 .. n : G[1 .. k] \in D}
<1>1. ASSUME NEW k \in 1 .. n, G[1 .. k - 1] \in D PROVE G[1 .. k] = F[<<k, G[1 .. k - 1]>>]
  <2>1. k \in Nat /\ k # 0 /\ 1 .. k \in SUBSET (1 .. n) /\ 1 .. k # {} /\ k \in 1 .. k
    BY <1>0
  <2>2. Max(1 .. k) = k
    BY <2>1, MaxUpTo
  <2>3. (1 .. k) \ {k} = 1 .. k - 1
    BY <2>1
  <2> QED
    BY <1>1, <2>1, <2>2, <2>3 DEF FoldedBy
<1>2. 0 \in Good /\ G[1 .. 0] = base
  <2>1. 1 .. 0 = {}
    OBVIOUS
  <2> QED
    BY <2>1, <1>0 DEF FoldedBy
<1>3. ASSUME NEW k \in 0 .. n - 1, k \in Good PROVE k + 1 \in Good
  <2>1. PICK m \in 1 .. n : m = k + 1 /\ m - 1 = k /\ m \in 0 .. n
    BY <1>0
  <2>2. G[1 .. m - 1] \in D
    BY <1>3, <2>1
  <2>3. G[1 .. m] = F[<<m, G[1 .. m - 1]>>] /\ <<m, G[1 .. m - 1]>> \in (1 .. n) \X D
    BY <1>1, <2>2
  <2> QED
    BY <2>1, <2>3 DEF FoldedBy
<1>4. 0 .. n \subseteq Good
  <2> HIDE DEF Good
  <2> QED
    BY <1>0, <1>2, <1>3, UpTo
<1>5. h \in [0 .. n -> D]
  BY <1>0, <1>4
<1>6. h[0] = base /\ h[n] = G[1 .. n]
  BY <1>0, <1>2
<1>7. ASSUME NEW k \in 1 .. n PROVE h[k] = F[<<k, h[k - 1]>>]
  <2>1. k \in 0 .. n /\ k - 1 \in 0 .. n
    BY <1>0
  <2> QED
    BY <1>1, <1>4, <2>1
<1> HIDE DEF h
<1> QED
  BY <1>5, <1>6, <1>7 DEF StagesOf, ComesTo

-----------------------------------------------------------------------------
(* The length of a prefix. *)

ScoreRuns(prefix, it) ==
    it = [s \in SUBSET (DOMAIN prefix) |->
            IF s = {} THEN 0 ELSE it[s \ {Max(s)}] + 1 + Width[prefix[Max(s)]]]

Weighing(prefix) == [x \in (1 .. Len(prefix)) \X Nat |-> x[2] + 1 + Width[prefix[x[1]]]]

LEMMA WidthTyped == \A item \in Items : Width[item] \in Nat
<1>1. Width \in [Items -> Nat]
  BY MatchingAssumption
<1> QED
  BY ONLY <1>1

LEMMA WeighingTyped ==
    ASSUME NEW prefix \in Seq(Items)
    PROVE  Weighing(prefix) \in [(1 .. Len(prefix)) \X Nat -> Nat]
<1>1. ASSUME NEW x \in (1 .. Len(prefix)) \X Nat PROVE x[2] + 1 + Width[prefix[x[1]]] \in Nat
  <2>1. prefix[x[1]] \in Items
    OBVIOUS
  <2>2. Width[prefix[x[1]]] \in Nat /\ x[2] \in Nat
    BY <2>1, WidthTyped
  <2> QED
    BY ONLY <2>2
<1> QED
  BY <1>1 DEF Weighing

(* A prefix is weighed one segment after the other. *)
LEMMA ScoreInStages ==
    ASSUME NEW prefix \in Seq(Items)
    PROVE  ComesTo(Weighing(prefix), 0, Len(prefix), Nat, Score(prefix))
<1> DEFINE n == Len(prefix)
           F == Weighing(prefix)
           G == CHOOSE it : ScoreRuns(prefix, it)
<1>1. n \in Nat /\ DOMAIN prefix = 1 .. n
  OBVIOUS
<1>2. F \in [(1 .. n) \X Nat -> Nat]
  BY WeighingTyped
<1>3. \A k \in 1 .. n, v \in Nat : F[<<k, v>>] = v + 1 + Width[prefix[k]]
  BY DEF Weighing
<1> HIDE DEF F, n
<1>4. \A s \in SUBSET (1 .. n) : s # {} => Max(s) \in 1 .. n /\ s \ {Max(s)} \in SUBSET (1 .. n)
  BY <1>1, MaxIn
<1>5. PICK it \in [SUBSET (1 .. n) -> Nat] : Folds(F, 0, 1 .. n, it)
  BY <1>1, <1>2, FoldExists
<1>6. ScoreRuns(prefix, it)
  <2>1. ASSUME NEW s \in SUBSET (1 .. n)
        PROVE  it[s] = IF s = {} THEN 0 ELSE it[s \ {Max(s)}] + 1 + Width[prefix[Max(s)]]
    BY <1>3, <1>4, <1>5 DEF Folds
  <2>2. it = [s \in SUBSET (1 .. n) |-> it[s]]
    OBVIOUS
  <2> QED
    BY <1>1, <2>1, <2>2 DEF ScoreRuns
<1>7. ScoreRuns(prefix, G)
  BY <1>6
<1>8. Score(prefix) = G[1 .. n]
  BY <1>1 DEF Score, FoldLeft, MapThenFoldSet, ScoreRuns
<1>9. \E g : ScoreRuns(prefix, g) /\ Score(prefix) = g[1 .. n]
  BY <1>7, <1>8
<1>10. PICK g : ScoreRuns(prefix, g) /\ Score(prefix) = g[1 .. n]
  BY <1>9
<1>11. \A s \in SUBSET (1 .. n) :
          g[s] = IF s = {} THEN 0 ELSE g[s \ {Max(s)}] + 1 + Width[prefix[Max(s)]]
  BY <1>1, <1>10 DEF ScoreRuns
<1>12. FoldedBy(F, 0, n, Nat, g)
  <2>1. ASSUME NEW s \in SUBSET (1 .. n), s # {}, g[s \ {Max(s)}] \in Nat
        PROVE  g[s] = F[<<Max(s), g[s \ {Max(s)}]>>]
    <3>1. Max(s) \in 1 .. n
      BY <1>4, <2>1
    <3>2. F[<<Max(s), g[s \ {Max(s)}]>>] = g[s \ {Max(s)}] + 1 + Width[prefix[Max(s)]]
      BY <1>3, <2>1, <3>1
    <3> QED
      BY <1>11, <2>1, <3>2
  <2>2. g[{}] = 0
    BY <1>11
  <2> QED
    BY <1>1, <1>2, <2>1, <2>2 DEF FoldedBy
<1> QED
  BY <1>10, <1>12, FoldStages DEF F, n

LEMMA ScoreTyped ==
    ASSUME NEW prefix \in Seq(Items)
    PROVE  Score(prefix) \in Nat
<1>1. PICK h : StagesOf(Weighing(prefix), 0, Len(prefix), Nat, h) /\ Score(prefix) = h[Len(prefix)]
  BY ScoreInStages DEF ComesTo
<1>2. Len(prefix) \in 0 .. Len(prefix)
  OBVIOUS
<1> QED
  BY <1>1, <1>2 DEF StagesOf

(* h is the length of p after each of its pieces. *)
Sums(p, h) ==
    /\ h \in [0 .. Len(p) -> Nat] /\ h[0] = 0 /\ h[Len(p)] = Score(p)
    /\ \A k \in 1 .. Len(p) : h[k] = h[k - 1] + 1 + Width[p[k]]

LEMMA SumsExist ==
    ASSUME NEW p \in Seq(Items)
    PROVE  \E h : Sums(p, h)
<1>1. PICK h : StagesOf(Weighing(p), 0, Len(p), Nat, h) /\ h[Len(p)] = Score(p)
  BY ScoreInStages DEF ComesTo
<1>2. /\ h \in [0 .. Len(p) -> Nat] /\ h[0] = 0
      /\ \A k \in 1 .. Len(p) : h[k] = Weighing(p)[<<k, h[k - 1]>>]
  BY <1>1 DEF StagesOf
<1>3. \A k \in 1 .. Len(p) : k - 1 \in 0 .. Len(p)
  OBVIOUS
<1>4. \A k \in 1 .. Len(p) : h[k - 1] \in Nat
  BY <1>2, <1>3
<1>5. \A k \in 1 .. Len(p) : h[k] = h[k - 1] + 1 + Width[p[k]]
  BY <1>2, <1>4 DEF Weighing
<1> QED
  BY <1>1, <1>2, <1>5 DEF Sums

(* The length of a text that continues another is the sum of the two. *)
LEMMA ScoreAdds ==
    ASSUME NEW b \in Seq(Items), NEW p \in Seq(Items)
    PROVE  Score(b \o p) = Score(b) + Score(p)
<1> DEFINE c == b \o p
           l == Len(b)
           n == Len(p)
<1>1. /\ c \in Seq(Items) /\ Len(c) = l + n /\ l \in Nat /\ n \in Nat
      /\ \A k \in 1 .. l : c[k] = b[k]
      /\ \A k \in 1 .. n : c[l + k] = p[k] /\ p[k] \in Items
  OBVIOUS
<1>2. PICK f : Sums(b, f)
  BY SumsExist
<1>3. PICK g : Sums(p, g)
  BY SumsExist
<1>4. PICK h : Sums(c, h)
  BY <1>1, SumsExist
<1>5. /\ f \in [0 .. l -> Nat] /\ f[0] = 0 /\ f[l] = Score(b)
      /\ \A k \in 1 .. l : f[k] = f[k - 1] + 1 + Width[b[k]]
  BY <1>2 DEF Sums
<1>6. /\ g \in [0 .. n -> Nat] /\ g[0] = 0 /\ g[n] = Score(p)
      /\ \A k \in 1 .. n : g[k] = g[k - 1] + 1 + Width[p[k]]
  BY <1>3 DEF Sums
<1>7. /\ h \in [0 .. l + n -> Nat] /\ h[0] = 0 /\ h[l + n] = Score(c)
      /\ \A k \in 1 .. l + n : h[k] = h[k - 1] + 1 + Width[c[k]]
  <2> HIDE DEF c, l, n
  <2> QED
    BY <1>1, <1>4 DEF Sums
<1> HIDE DEF c, l, n
<1> DEFINE First == {k \in 0 .. l : h[k] = f[k]}
           Second == {k \in 0 .. n : h[l + k] = f[l] + g[k]}
<1>8. l \in First
  <2>1. 0 \in First
    BY <1>1, <1>5, <1>7
  <2>2. ASSUME NEW k \in 0 .. l - 1, k \in First PROVE k + 1 \in First
    <3>1. PICK m \in 1 .. l : m = k + 1 /\ m - 1 = k /\ m \in 0 .. l /\ m \in 1 .. l + n
      BY <1>1
    <3>2. h[m] = f[m]
      <4>1. h[m] = h[k] + 1 + Width[c[m]] /\ f[m] = f[k] + 1 + Width[b[m]]
        BY <1>5, <1>7, <3>1
      <4>2. c[m] = b[m] /\ h[k] = f[k]
        BY <1>1, <2>2, <3>1
      <4> QED
        BY ONLY <4>1, <4>2
    <3> QED
      BY <3>1, <3>2
  <2>3. 0 .. l \subseteq First
    <3> HIDE DEF First
    <3> QED
      BY <1>1, <2>1, <2>2, UpTo
  <2>4. l \in 0 .. l
    BY <1>1
  <2> QED
    BY <2>3, <2>4
<1>9. n \in Second
  <2>1. 0 \in Second
    BY <1>1, <1>5, <1>6, <1>8
  <2>2. ASSUME NEW k \in 0 .. n - 1, k \in Second PROVE k + 1 \in Second
    <3>1. PICK m \in 1 .. n : m = k + 1 /\ m - 1 = k /\ m \in 0 .. n /\ k \in 0 .. n
      BY <1>1
    <3>2. l + m \in 1 .. l + n /\ (l + m) - 1 = l + k
      BY <1>1, <3>1
    <3>3. h[l + m] = h[l + k] + 1 + Width[p[m]]
      <4>1. h[l + m] = h[(l + m) - 1] + 1 + Width[c[l + m]]
        BY <1>7, <3>2
      <4>2. c[l + m] = p[m]
        BY <1>1, <3>1
      <4> QED
        BY ONLY <3>2, <4>1, <4>2
    <3>4. g[m] = g[k] + 1 + Width[p[m]]
      BY <1>6, <3>1
    <3>5. h[l + k] = f[l] + g[k]
      BY <2>2
    <3>6. Width[p[m]] \in Nat /\ f[l] \in Nat /\ g[k] \in Nat
      <4>1. l \in 0 .. l
        BY <1>1
      <4> QED
        BY <1>1, <1>5, <1>6, <3>1, <4>1, WidthTyped
    <3>7. h[l + m] = f[l] + g[m]
      <4> DEFINE u == f[l]
                 v == g[k]
                 w == Width[p[m]]
                 x == h[l + m]
                 y == h[l + k]
                 z == g[m]
      <4>1. u \in Nat /\ v \in Nat /\ w \in Nat /\ x = y + 1 + w /\ z = v + 1 + w /\ y = u + v
        BY ONLY <3>3, <3>4, <3>5, <3>6
      <4> HIDE DEF u, v, w, x, y, z
      <4>2. x = u + z
        BY ONLY <4>1
      <4> QED
        BY ONLY <4>2 DEF u, x, z
    <3> QED
      BY <3>1, <3>7
  <2>3. 0 .. n \subseteq Second
    <3> HIDE DEF Second
    <3> QED
      BY <1>1, <2>1, <2>2, UpTo
  <2>4. n \in 0 .. n
    BY <1>1
  <2> QED
    BY <2>3, <2>4
<1> QED
  BY <1>5, <1>6, <1>7, <1>9 DEF c

-----------------------------------------------------------------------------
(* The table. *)

(* The key a document is entered under, but for the method. *)
Key(d) == Compose(RouteTenant(d), d.prefix)

Row(d, m) == [method |-> m, prefix |-> Key(d), route |-> d]
(* The names of methods; "GET" is one of them to the provers too. *)
Names == STRING \cup {"GET"}

Keys == Seq(Items) \ {<<>>}
Rows == [method : Names, prefix : Keys, route : RouteRecords]

(* The table's rows are of P, and it has a row for the key of each of P. *)
Keeps(table, P) ==
    /\ \A n \in DOMAIN table : table[n] \in P
    /\ \A e \in P : \E n \in DOMAIN table : table[n].method = e.method /\ table[n].prefix = e.prefix

LEMMA MinIn ==
    ASSUME NEW B \in SUBSET Nat, B # {}
    PROVE  Min(B) \in B /\ \A y \in B : Min(B) <= y
<1>1. PICK m \in B : \A y \in B : m <= y
  BY Least
<1> QED
  BY <1>1 DEF Min

LEMMA EmptyPiece == "" \in Segments /\ "" \in Items /\ Trim[""] = ""
BY MatchingAssumption DEF Items

LEMMA RootTyped == Root \in Texts /\ Root \in Keys
<1>1. PICK e : e = ""
  OBVIOUS
<1>2. e \in Segments /\ e \in Items
  BY <1>1, EmptyPiece
<1>3. <<e>> \in Texts /\ <<e>> \in Keys
  BY <1>2 DEF Texts, Keys
<1> QED
  BY <1>1, <1>3 DEF Root

(* Without the slashes around it a tenant is a text, and one that begins   *)
(* and ends with a piece that is not empty.                                *)
Ends(t) == t[Len(t)] # ""

LEMMA BareIs ==
    ASSUME NEW t \in Texts
    PROVE  /\ Bare(t) \in Texts
           /\ Bare(t) = t /\ t # Anyone => Ends(t)
<1> DEFINE named == {n \in DOMAIN t : t[n] # ""}
           n == Len(t)
<1>1. t \in Seq(Segments) /\ n \in Nat /\ DOMAIN t = 1 .. n /\ n # 0
  BY DEF Texts
<1>2. CASE named = {}
  <2>1. Bare(t) = Anyone
    BY <1>2 DEF Bare
  <2>2. Anyone \in Texts
    BY RootTyped DEF Root, Anyone
  <2> QED
    BY <2>1, <2>2
<1>3. CASE named # {}
  <2>1. Max(named) \in named /\ \A y \in named : y <= Max(named)
    <3>1. named \in SUBSET (1 .. n)
      BY <1>1
    <3> HIDE DEF named, n
    <3> QED
      BY <1>1, <1>3, <3>1, MaxIn
  <2>2. Min(named) \in named /\ \A y \in named : Min(named) <= y
    <3>1. 1 .. n \subseteq Nat
      BY <1>1
    <3>2. named \subseteq 1 .. n
      BY <1>1
    <3> HIDE DEF named, n
    <3> QED
      BY <1>3, <3>1, <3>2, MinIn
  <2>3. Bare(t) = SubSeq(t, Min(named), Max(named))
    BY <1>3 DEF Bare
  <2>4. PICK i \in 1 .. n, j \in 1 .. n :
           i = Min(named) /\ j = Max(named) /\ i <= j /\ t[j] # ""
    BY <1>1, <2>1, <2>2
  <2>5. Bare(t) = SubSeq(t, i, j)
    BY <2>3, <2>4
  <2> HIDE DEF named, n
  <2>6. i \in Int /\ j \in Int /\ 1 <= i /\ i <= j /\ j <= n
    <3>1. n \in Nat /\ i \in 1 .. n /\ j \in 1 .. n
      BY <1>1
    <3>2. i <= j
      BY ONLY <2>4, Zenon
    <3> QED
      BY ONLY <3>1, <3>2
  <2>7. SubSeq(t, i, j) \in Seq(Segments) /\ Len(SubSeq(t, i, j)) = j - i + 1
    <3>1. \A k \in i .. j : k \in 1 .. n
      BY ONLY <1>1, <2>6
    <3> QED
      BY ONLY <1>1, <2>6, <3>1 DEF n
  <2>8. j - i + 1 # 0 /\ (j - i + 1 = n => j = n)
    BY ONLY <1>1, <2>6
  <2>9. SubSeq(t, i, j) \in Texts
    BY <2>7, <2>8 DEF Texts
  <2>10. SubSeq(t, i, j) = t => t[n] # ""
    BY <2>4, <2>7, <2>8 DEF n
  <2> QED
    BY <2>5, <2>9, <2>10 DEF n, Ends
<1> QED
  BY <1>2, <1>3

LEMMA TextsAreKeys == Texts \subseteq Keys
BY DEF Texts, Keys, Items

LEMMA JoinTyped ==
    ASSUME NEW b \in Texts, NEW p \in Seq(Items)
    PROVE  b \in Keys /\ b \o p \in Keys
<1>1. b \in Seq(Items) /\ b # <<>>
  BY DEF Texts, Items
<1>2. b \o p \in Seq(Items) /\ Len(b \o p) = Len(b) + Len(p) /\ Len(b) # 0
  BY <1>1
<1> QED
  BY <1>1, <1>2 DEF Keys

LEMMA RouteTyped ==
    ASSUME NEW d \in RouteRecords
    PROVE  /\ d.tenantId \in Texts /\ d.tenant \in Texts /\ RouteTenant(d) \in Texts
           /\ Bare(RouteTenant(d)) \in Texts /\ d.prefix \in Keys /\ d.methods \in Seq(STRING)
<1>1. d.tenantId \in Texts /\ d.tenant \in Texts /\ d.prefix \in Templates /\ d.methods \in Seq(STRING)
  BY DEF RouteRecords
<1>2. d.prefix \in Keys
  BY <1>1 DEF Templates, Keys
<1>3. RouteTenant(d) \in Texts
  BY <1>1 DEF RouteTenant
<1> QED
  BY <1>1, <1>2, <1>3, BareIs

LEMMA KeyTyped ==
    ASSUME NEW d \in RouteRecords
    PROVE  Key(d) \in Keys
<1>1. Bare(RouteTenant(d)) \in Texts /\ d.prefix \in Keys
  BY RouteTyped
<1>2. Bare(RouteTenant(d)) \o d.prefix \in Keys
  BY <1>1, JoinTyped DEF Keys
<1> QED
  BY <1>1, <1>2 DEF Key, Compose

LEMMA RowTyped ==
    ASSUME NEW d \in RouteRecords, NEW m \in Names
    PROVE  Row(d, m) \in Rows
<1>1. Key(d) \in Keys
  BY KeyTyped
<1> HIDE DEF RouteRecords
<1> QED
  BY <1>1 DEF Row, Rows

(* A document entered under a method adds its row and loses no key. *)
LEMMA EnterKeeps ==
    ASSUME NEW table \in Seq(Rows), NEW P, Keeps(table, P),
           NEW d \in RouteRecords, NEW m \in Names
    PROVE  Enter(table, m, d) \in Seq(Rows) /\ Keeps(Enter(table, m, d), P \cup {Row(d, m)})
<1> DEFINE e == Row(d, m)
           same == {n \in DOMAIN table : table[n].method = m /\ table[n].prefix = e.prefix}
           new == [n \in DOMAIN table |-> IF n \in same THEN e ELSE table[n]]
<1>1. Enter(table, m, d) = IF same = {} THEN Append(table, e) ELSE new
  BY DEF Enter, Row, Key
<1>2. e \in Rows /\ e.method = m
  BY RowTyped DEF Row
<1>3. Len(table) \in Nat /\ DOMAIN table = 1 .. Len(table)
  OBVIOUS
<1> HIDE DEF e
<1>4. CASE same = {}
  <2> DEFINE longer == Append(table, e)
  <2>1. /\ longer \in Seq(Rows) /\ DOMAIN longer = 1 .. Len(table) + 1
        /\ \A n \in DOMAIN table : n \in DOMAIN longer /\ longer[n] = table[n]
        /\ longer[Len(table) + 1] = e /\ Len(table) + 1 \in DOMAIN longer
        /\ \A n \in DOMAIN longer : n \in DOMAIN table \/ n = Len(table) + 1
    BY <1>2, <1>3
  <2>2. Enter(table, m, d) = longer
    BY <1>1, <1>4
  <2> HIDE DEF longer, same
  <2>3. \A n \in DOMAIN longer : longer[n] \in P \cup {e}
    BY <2>1 DEF Keeps
  <2>4. \A x \in P \cup {e} : \E n \in DOMAIN longer : longer[n].method = x.method /\ longer[n].prefix = x.prefix
    <3>1. ASSUME NEW x \in P PROVE \E n \in DOMAIN longer : longer[n].method = x.method /\ longer[n].prefix = x.prefix
      BY <2>1 DEF Keeps
    <3> QED
      BY <2>1, <3>1
  <2> QED
    BY <2>1, <2>2, <2>3, <2>4 DEF Keeps, e
<1>5. CASE same # {}
  <2>1. new \in [1 .. Len(table) -> Rows]
    BY <1>2, <1>3
  <2>2. new \in Seq(Rows) /\ DOMAIN new = DOMAIN table
    BY <1>3, <2>1
  <2>3. \A n \in DOMAIN table : /\ new[n] \in {table[n], e}
                                /\ new[n].method = table[n].method /\ new[n].prefix = table[n].prefix
    BY <1>2
  <2>4. \E n \in DOMAIN table : new[n] = e
    BY <1>5
  <2> HIDE DEF new, same
  <2>5. \A n \in DOMAIN new : new[n] \in P \cup {e}
    BY <2>2, <2>3 DEF Keeps
  <2>6. ASSUME NEW x \in P \cup {e}
        PROVE  \E n \in DOMAIN new : new[n].method = x.method /\ new[n].prefix = x.prefix
    <3>1. CASE x \in P
      <4>1. PICK n \in DOMAIN table : table[n].method = x.method /\ table[n].prefix = x.prefix
        BY <3>1 DEF Keeps
      <4> QED
        BY <2>2, <2>3, <4>1
    <3>2. CASE x = e
      BY <2>2, <2>4, <3>2
    <3> QED
      BY <3>1, <3>2
  <2>7. Keeps(new, P \cup {e})
    BY <2>5, <2>6 DEF Keeps
  <2>8. Enter(table, m, d) = new
    BY <1>1, <1>5 DEF new
  <2> QED
    BY <2>2, <2>7, <2>8 DEF e
<1> QED
  BY <1>4, <1>5

(* A document enters under one method after the other. *)
EnterRuns(table, d, it) ==
    it = [s \in SUBSET (DOMAIN MethodsOf(d)) |->
            IF s = {} THEN table ELSE Enter(it[s \ {Max(s)}], MethodsOf(d)[Max(s)], d)]

EntersOf(d) == [x \in (1 .. Len(MethodsOf(d))) \X Seq(Rows) |-> Enter(x[2], MethodsOf(d)[x[1]], d)]

LEMMA MethodsTyped ==
    ASSUME NEW d \in RouteRecords
    PROVE  MethodsOf(d) \in Seq(Names)
<1>1. d.methods \in Seq(Names)
  BY DEF RouteRecords, Names
<1>2. <<"GET">> \in Seq(Names)
  BY DEF Names
<1> QED
  BY <1>1, <1>2 DEF MethodsOf

LEMMA EnterTyped ==
    ASSUME NEW table \in Seq(Rows), NEW d \in RouteRecords, NEW m \in Names
    PROVE  Enter(table, m, d) \in Seq(Rows)
<1>1. Keeps(table, {table[n] : n \in DOMAIN table})
  BY DEF Keeps
<1> QED
  BY <1>1, EnterKeeps

LEMMA EntersTyped ==
    ASSUME NEW d \in RouteRecords
    PROVE  EntersOf(d) \in [(1 .. Len(MethodsOf(d))) \X Seq(Rows) -> Seq(Rows)]
<1>1. ASSUME NEW x \in (1 .. Len(MethodsOf(d))) \X Seq(Rows)
      PROVE  Enter(x[2], MethodsOf(d)[x[1]], d) \in Seq(Rows)
  <2>1. MethodsOf(d)[x[1]] \in Names
    BY MethodsTyped
  <2> QED
    BY <2>1, EnterTyped
<1> QED
  BY <1>1 DEF EntersOf

LEMMA EnterInStages ==
    ASSUME NEW table \in Seq(Rows), NEW d \in RouteRecords
    PROVE  ComesTo(EntersOf(d), table, Len(MethodsOf(d)), Seq(Rows), EnterRoute(table, d))
<1> DEFINE n == Len(MethodsOf(d))
           F == EntersOf(d)
           G == CHOOSE it : EnterRuns(table, d, it)
<1>1. n \in Nat /\ DOMAIN MethodsOf(d) = 1 .. n
  BY MethodsTyped
<1>2. F \in [(1 .. n) \X Seq(Rows) -> Seq(Rows)] /\ table \in Seq(Rows)
  BY EntersTyped
<1>3. \A k \in 1 .. n, v \in Seq(Rows) : F[<<k, v>>] = Enter(v, MethodsOf(d)[k], d)
  BY DEF EntersOf
<1> HIDE DEF F, n
<1>4. \A s \in SUBSET (1 .. n) : s # {} => Max(s) \in 1 .. n /\ s \ {Max(s)} \in SUBSET (1 .. n)
  BY <1>1, MaxIn
<1>5. PICK it \in [SUBSET (1 .. n) -> Seq(Rows)] : Folds(F, table, 1 .. n, it)
  BY <1>1, <1>2, FoldExists
<1>6. EnterRuns(table, d, it)
  <2>1. ASSUME NEW s \in SUBSET (1 .. n)
        PROVE  it[s] = IF s = {} THEN table ELSE Enter(it[s \ {Max(s)}], MethodsOf(d)[Max(s)], d)
    <3>1. CASE s = {}
      BY <1>5, <3>1 DEF Folds
    <3>2. CASE s # {}
      <4>1. it[s] = F[<<Max(s), it[s \ {Max(s)}]>>]
        BY <1>5, <3>2 DEF Folds
      <4>2. Max(s) \in 1 .. n /\ it[s \ {Max(s)}] \in Seq(Rows)
        BY <1>4, <1>5, <3>2
      <4>3. F[<<Max(s), it[s \ {Max(s)}]>>] = Enter(it[s \ {Max(s)}], MethodsOf(d)[Max(s)], d)
        BY <1>3, <4>2
      <4> QED
        BY <3>2, <4>1, <4>3
    <3> QED
      BY <3>1, <3>2
  <2>2. it = [s \in SUBSET (1 .. n) |-> it[s]]
    OBVIOUS
  <2> QED
    BY <1>1, <2>1, <2>2 DEF EnterRuns
<1>7. EnterRuns(table, d, G)
  BY <1>6
<1>8. EnterRoute(table, d) = G[1 .. n]
  BY <1>1 DEF EnterRoute, FoldLeft, MapThenFoldSet, EnterRuns
<1>9. \E g : EnterRuns(table, d, g) /\ EnterRoute(table, d) = g[1 .. n]
  BY <1>7, <1>8
<1>10. PICK g : EnterRuns(table, d, g) /\ EnterRoute(table, d) = g[1 .. n]
  BY <1>9
<1>11. \A s \in SUBSET (1 .. n) :
          g[s] = IF s = {} THEN table ELSE Enter(g[s \ {Max(s)}], MethodsOf(d)[Max(s)], d)
  BY <1>1, <1>10 DEF EnterRuns
<1>12. FoldedBy(F, table, n, Seq(Rows), g)
  <2>1. ASSUME NEW s \in SUBSET (1 .. n), s # {}, g[s \ {Max(s)}] \in Seq(Rows)
        PROVE  g[s] = F[<<Max(s), g[s \ {Max(s)}]>>]
    <3>1. Max(s) \in 1 .. n
      BY <1>4, <2>1
    <3>2. F[<<Max(s), g[s \ {Max(s)}]>>] = Enter(g[s \ {Max(s)}], MethodsOf(d)[Max(s)], d)
      BY <1>3, <2>1, <3>1
    <3> QED
      BY <1>11, <2>1, <3>2
  <2>2. g[{}] = table
    BY <1>11
  <2> QED
    BY <1>1, <1>2, <2>1, <2>2 DEF FoldedBy
<1> QED
  BY <1>10, <1>12, FoldStages DEF F, n

RowsOf(d) == {Row(d, MethodsOf(d)[i]) : i \in DOMAIN MethodsOf(d)}

(* So it does entered under all its methods. *)
LEMMA EnterRouteKeeps ==
    ASSUME NEW table \in Seq(Rows), NEW P, Keeps(table, P), NEW d \in RouteRecords
    PROVE  EnterRoute(table, d) \in Seq(Rows) /\ Keeps(EnterRoute(table, d), P \cup RowsOf(d))
<1> DEFINE M == MethodsOf(d)
           n == Len(M)
<1>1. M \in Seq(Names) /\ n \in Nat /\ DOMAIN M = 1 .. n
  BY MethodsTyped
<1>2. PICK h : StagesOf(EntersOf(d), table, n, Seq(Rows), h) /\ h[n] = EnterRoute(table, d)
  BY EnterInStages DEF ComesTo
<1>3. /\ h \in [0 .. n -> Seq(Rows)] /\ h[0] = table
      /\ \A k \in 1 .. n : h[k] = Enter(h[k - 1], M[k], d)
  <2>1. h \in [0 .. n -> Seq(Rows)] /\ h[0] = table /\ \A k \in 1 .. n : h[k] = EntersOf(d)[<<k, h[k - 1]>>]
    BY <1>2 DEF StagesOf
  <2>2. \A k \in 1 .. n : k - 1 \in 0 .. n
    BY <1>1
  <2>3. \A k \in 1 .. n : h[k - 1] \in Seq(Rows)
    BY <2>1, <2>2
  <2> QED
    BY <2>1, <2>3 DEF EntersOf
<1> HIDE DEF M, n
<1> DEFINE Entered(k) == P \cup {Row(d, M[i]) : i \in 1 .. k}
           Good == {k \in 0 .. n : Keeps(h[k], Entered(k))}
<1>4. 0 \in Good
  <2>1. Entered(0) = P /\ 0 \in 0 .. n
    BY <1>1
  <2>2. h[0] = table
    BY <1>3
  <2> HIDE DEF Entered
  <2> QED
    BY <2>1, <2>2
<1>5. ASSUME NEW k \in 0 .. n - 1, k \in Good PROVE k + 1 \in Good
  <2>1. PICK m \in 1 .. n : m = k + 1 /\ m - 1 = k /\ m \in 0 .. n /\ k \in 0 .. n
    BY <1>1
  <2>2. h[m] = Enter(h[k], M[m], d) /\ M[m] \in Names /\ h[k] \in Seq(Rows)
    BY <1>1, <1>3, <2>1
  <2>3. Keeps(h[m], Entered(k) \cup {Row(d, M[m])})
    <3>1. Keeps(h[k], Entered(k))
      BY <1>5
    <3> HIDE DEF Entered
    <3>2. Keeps(Enter(h[k], M[m], d), Entered(k) \cup {Row(d, M[m])})
      BY <2>2, <3>1, EnterKeeps
    <3> QED
      BY <2>2, <3>2
  <2>4. Entered(k) \cup {Row(d, M[m])} = Entered(m)
    <3>1. 1 .. m = (1 .. k) \cup {m}
      BY <2>1
    <3> QED
      BY <3>1
  <2> QED
    BY <2>1, <2>3, <2>4
<1>6. 0 .. n \subseteq Good
  <2> HIDE DEF Good
  <2> QED
    BY <1>1, <1>4, <1>5, UpTo
<1>7. n \in 0 .. n
  BY <1>1
<1>8. Keeps(h[n], Entered(n)) /\ h[n] \in Seq(Rows)
  BY <1>3, <1>6, <1>7
<1>9. Entered(n) = P \cup RowsOf(d)
  BY <1>1 DEF RowsOf, M
<1> HIDE DEF Entered
<1> QED
  BY <1>2, <1>8, <1>9 DEF n, M

(* One document after the other. *)
TableRuns(routes, it) ==
    it = [s \in SUBSET (DOMAIN routes) |->
            IF s = {} THEN <<>> ELSE EnterRoute(it[s \ {Max(s)}], routes[Max(s)])]

RoutesIn(routes) == [x \in (1 .. Len(routes)) \X Seq(Rows) |-> EnterRoute(x[2], routes[x[1]])]

LEMMA RoutesTyped ==
    ASSUME NEW routes \in Seq(RouteRecords)
    PROVE  RoutesIn(routes) \in [(1 .. Len(routes)) \X Seq(Rows) -> Seq(Rows)] /\ <<>> \in Seq(Rows)
<1>1. ASSUME NEW x \in (1 .. Len(routes)) \X Seq(Rows)
      PROVE  EnterRoute(x[2], routes[x[1]]) \in Seq(Rows)
  <2>1. routes[x[1]] \in RouteRecords /\ x[2] \in Seq(Rows)
    OBVIOUS
  <2>2. Keeps(x[2], {x[2][n] : n \in DOMAIN x[2]})
    BY DEF Keeps
  <2> QED
    BY <2>1, <2>2, EnterRouteKeeps
<1> QED
  BY <1>1 DEF RoutesIn

LEMMA TableInStages ==
    ASSUME NEW routes \in Seq(RouteRecords)
    PROVE  ComesTo(RoutesIn(routes), <<>>, Len(routes), Seq(Rows), TableOf(routes))
<1> DEFINE n == Len(routes)
           F == RoutesIn(routes)
           G == CHOOSE it : TableRuns(routes, it)
<1>1. n \in Nat /\ DOMAIN routes = 1 .. n
  OBVIOUS
<1>2. F \in [(1 .. n) \X Seq(Rows) -> Seq(Rows)] /\ <<>> \in Seq(Rows)
  BY RoutesTyped
<1>3. \A k \in 1 .. n, v \in Seq(Rows) : F[<<k, v>>] = EnterRoute(v, routes[k])
  BY DEF RoutesIn
<1> HIDE DEF F, n
<1>4. \A s \in SUBSET (1 .. n) : s # {} => Max(s) \in 1 .. n /\ s \ {Max(s)} \in SUBSET (1 .. n)
  BY <1>1, MaxIn
<1>5. PICK it \in [SUBSET (1 .. n) -> Seq(Rows)] : Folds(F, <<>>, 1 .. n, it)
  BY <1>1, <1>2, FoldExists
<1>6. TableRuns(routes, it)
  <2>1. ASSUME NEW s \in SUBSET (1 .. n)
        PROVE  it[s] = IF s = {} THEN <<>> ELSE EnterRoute(it[s \ {Max(s)}], routes[Max(s)])
    <3>1. CASE s = {}
      BY <1>5, <3>1 DEF Folds
    <3>2. CASE s # {}
      <4>1. it[s] = F[<<Max(s), it[s \ {Max(s)}]>>]
        BY <1>5, <3>2 DEF Folds
      <4>2. Max(s) \in 1 .. n /\ it[s \ {Max(s)}] \in Seq(Rows)
        BY <1>4, <1>5, <3>2
      <4>3. F[<<Max(s), it[s \ {Max(s)}]>>] = EnterRoute(it[s \ {Max(s)}], routes[Max(s)])
        BY <1>3, <4>2
      <4> QED
        BY <3>2, <4>1, <4>3
    <3> QED
      BY <3>1, <3>2
  <2>2. it = [s \in SUBSET (1 .. n) |-> it[s]]
    OBVIOUS
  <2> QED
    BY <1>1, <2>1, <2>2 DEF TableRuns
<1>7. TableRuns(routes, G)
  BY <1>6
<1>8. TableOf(routes) = G[1 .. n]
  BY <1>1 DEF TableOf, FoldLeft, MapThenFoldSet, TableRuns
<1>9. \E g : TableRuns(routes, g) /\ TableOf(routes) = g[1 .. n]
  BY <1>7, <1>8
<1>10. PICK g : TableRuns(routes, g) /\ TableOf(routes) = g[1 .. n]
  BY <1>9
<1>11. \A s \in SUBSET (1 .. n) :
          g[s] = IF s = {} THEN <<>> ELSE EnterRoute(g[s \ {Max(s)}], routes[Max(s)])
  BY <1>1, <1>10 DEF TableRuns
<1>12. FoldedBy(F, <<>>, n, Seq(Rows), g)
  <2>1. ASSUME NEW s \in SUBSET (1 .. n), s # {}, g[s \ {Max(s)}] \in Seq(Rows)
        PROVE  g[s] = F[<<Max(s), g[s \ {Max(s)}]>>]
    <3>1. Max(s) \in 1 .. n
      BY <1>4, <2>1
    <3>2. F[<<Max(s), g[s \ {Max(s)}]>>] = EnterRoute(g[s \ {Max(s)}], routes[Max(s)])
      BY <1>3, <2>1, <3>1
    <3> QED
      BY <1>11, <2>1, <3>2
  <2>2. g[{}] = <<>>
    BY <1>11
  <2> QED
    BY <1>1, <1>2, <2>1, <2>2 DEF FoldedBy
<1> QED
  BY <1>10, <1>12, FoldStages DEF F, n

AllRows(routes) == UNION {RowsOf(routes[i]) : i \in DOMAIN routes}

(* The table holds rows of the documents, and one for each key of theirs. *)
LEMMA TableKeeps ==
    ASSUME NEW routes \in Seq(RouteRecords)
    PROVE  TableOf(routes) \in Seq(Rows) /\ Keeps(TableOf(routes), AllRows(routes))
<1> DEFINE n == Len(routes)
<1>1. n \in Nat /\ DOMAIN routes = 1 .. n /\ \A k \in 1 .. n : routes[k] \in RouteRecords
  OBVIOUS
<1>2. PICK h : StagesOf(RoutesIn(routes), <<>>, n, Seq(Rows), h) /\ h[n] = TableOf(routes)
  BY TableInStages DEF ComesTo
<1>3. /\ h \in [0 .. n -> Seq(Rows)] /\ h[0] = <<>>
      /\ \A k \in 1 .. n : h[k] = EnterRoute(h[k - 1], routes[k])
  <2>1. h \in [0 .. n -> Seq(Rows)] /\ h[0] = <<>> /\ \A k \in 1 .. n : h[k] = RoutesIn(routes)[<<k, h[k - 1]>>]
    BY <1>2 DEF StagesOf
  <2>2. \A k \in 1 .. n : k - 1 \in 0 .. n
    BY <1>1
  <2>3. \A k \in 1 .. n : h[k - 1] \in Seq(Rows)
    BY <2>1, <2>2
  <2> QED
    BY <2>1, <2>3 DEF RoutesIn
<1> HIDE DEF n
<1> DEFINE Entered(k) == UNION {RowsOf(routes[i]) : i \in 1 .. k}
           Good == {k \in 0 .. n : Keeps(h[k], Entered(k))}
<1>4. 0 \in Good
  <2>1. Entered(0) = {}
    OBVIOUS
  <2>2. DOMAIN <<>> = {}
    OBVIOUS
  <2> QED
    BY <1>1, <1>3, <2>1, <2>2 DEF Keeps
<1>5. ASSUME NEW k \in 0 .. n - 1, k \in Good PROVE k + 1 \in Good
  <2>1. PICK m \in 1 .. n : m = k + 1 /\ m - 1 = k /\ m \in 0 .. n /\ k \in 0 .. n
    BY <1>1
  <2>2. h[m] = EnterRoute(h[k], routes[m]) /\ routes[m] \in RouteRecords /\ h[k] \in Seq(Rows)
    BY <1>1, <1>3, <2>1
  <2>3. Keeps(h[m], Entered(k) \cup RowsOf(routes[m]))
    <3> HIDE DEF Entered
    <3>1. Keeps(h[k], Entered(k))
      BY <1>5
    <3> QED
      BY <2>2, <3>1, EnterRouteKeeps
  <2>4. Entered(k) \cup RowsOf(routes[m]) = Entered(m)
    <3>1. 1 .. m = (1 .. k) \cup {m}
      BY <2>1
    <3> QED
      BY <3>1
  <2> QED
    BY <2>1, <2>3, <2>4
<1>6. 0 .. n \subseteq Good
  <2> HIDE DEF Good
  <2> QED
    BY <1>1, <1>4, <1>5, UpTo
<1>7. n \in 0 .. n
  BY <1>1
<1>8. Keeps(h[n], Entered(n)) /\ h[n] \in Seq(Rows)
  BY <1>3, <1>6, <1>7
<1>9. Entered(n) = AllRows(routes)
  BY <1>1 DEF AllRows
<1> HIDE DEF Entered
<1> QED
  BY <1>2, <1>8, <1>9 DEF n

-----------------------------------------------------------------------------
(* The match. *)

(* What a row is weighed by. *)
Length(e) == Score(Normal(e.prefix))

LEMMA NormalTyped ==
    ASSUME NEW p \in Keys
    PROVE  Tidy(p) \in Seq(Items) /\ Normal(p) \in Keys
<1> DEFINE n == Len(p)
           last == Trim[p[n]]
<1>1. p \in Seq(Items) /\ n \in Nat /\ n # 0 /\ p[n] \in Items
  BY DEF Keys
<1>2. last \in Items
  <2>1. Trim \in [Items -> Items]
    BY MatchingAssumption
  <2> QED
    BY <1>1, <2>1
<1>3. SubSeq(p, 1, n - 1) \in Seq(Items) /\ [p EXCEPT ![n] = last] \in Seq(Items)
  <2>1. \A k \in 1 .. n - 1 : p[k] \in Items
    BY <1>1
  <2> HIDE DEF last
  <2> QED
    BY <1>1, <1>2, <2>1
<1>4. Tidy(p) \in Seq(Items)
  BY <1>3 DEF Tidy, Front
<1>5. Root \in Keys
  BY RootTyped
<1> QED
  BY <1>4, <1>5 DEF Normal, Keys

LEMMA LengthTyped ==
    ASSUME NEW e \in Rows
    PROVE  Length(e) \in Nat /\ e.route \in RouteRecords
<1>1. e.prefix \in Keys /\ e.route \in RouteRecords
  BY DEF Rows
<1>2. Normal(e.prefix) \in Seq(Items)
  BY <1>1, NormalTyped DEF Keys
<1> QED
  BY <1>1, <1>2, ScoreTyped DEF Length

Picked(best, e, method, path) ==
    IF Suits(e, method, path) /\ Better(Length(e), best.score)
    THEN [route |-> e.route, score |-> Length(e)] ELSE best

NoneYet == [route |-> NoRoute, score |-> -1]
Finds == [route : RouteRecords \cup {NoRoute}, score : Int]

(* The fold of MatchRoute *)
Found(table, method, path) ==
    FoldLeft(LAMBDA best, e : Picked(best, e, method, path), NoneYet, table)

FindRuns(table, method, path, it) ==
    it = [s \in SUBSET (DOMAIN table) |->
            IF s = {} THEN NoneYet ELSE Picked(it[s \ {Max(s)}], table[Max(s)], method, path)]

FindsIn(table, method, path) ==
    [x \in (1 .. Len(table)) \X Finds |-> Picked(x[2], table[x[1]], method, path)]

LEMMA FindsTyped ==
    ASSUME NEW table \in Seq(Rows), NEW method, NEW path
    PROVE  FindsIn(table, method, path) \in [(1 .. Len(table)) \X Finds -> Finds] /\ NoneYet \in Finds
<1>1. ASSUME NEW x \in (1 .. Len(table)) \X Finds PROVE Picked(x[2], table[x[1]], method, path) \in Finds
  <2>1. PICK e \in Rows : e = table[x[1]]
    OBVIOUS
  <2>2. Length(e) \in Int /\ e.route \in RouteRecords
    BY LengthTyped
  <2>3. [route |-> e.route, score |-> Length(e)] \in Finds
    BY <2>2 DEF Finds
  <2> QED
    BY <2>1, <2>3 DEF Picked
<1>2. NoneYet \in Finds
  BY DEF NoneYet, Finds
<1> QED
  BY <1>1, <1>2 DEF FindsIn

LEMMA FindInStages ==
    ASSUME NEW table \in Seq(Rows), NEW method, NEW path
    PROVE  ComesTo(FindsIn(table, method, path), NoneYet, Len(table), Finds, Found(table, method, path))
<1> DEFINE n == Len(table)
           F == FindsIn(table, method, path)
           G == CHOOSE it : FindRuns(table, method, path, it)
<1>1. n \in Nat /\ DOMAIN table = 1 .. n
  OBVIOUS
<1>2. F \in [(1 .. n) \X Finds -> Finds] /\ NoneYet \in Finds
  BY FindsTyped
<1>3. \A k \in 1 .. n, v \in Finds : F[<<k, v>>] = Picked(v, table[k], method, path)
  BY DEF FindsIn
<1> HIDE DEF F, n
<1>4. \A s \in SUBSET (1 .. n) : s # {} => Max(s) \in 1 .. n /\ s \ {Max(s)} \in SUBSET (1 .. n)
  BY <1>1, MaxIn
<1>5. PICK it \in [SUBSET (1 .. n) -> Finds] : Folds(F, NoneYet, 1 .. n, it)
  BY <1>1, <1>2, FoldExists
<1>6. FindRuns(table, method, path, it)
  <2>1. ASSUME NEW s \in SUBSET (1 .. n)
        PROVE  it[s] = IF s = {} THEN NoneYet ELSE Picked(it[s \ {Max(s)}], table[Max(s)], method, path)
    <3>1. CASE s = {}
      BY <1>5, <3>1 DEF Folds
    <3>2. CASE s # {}
      <4>1. it[s] = F[<<Max(s), it[s \ {Max(s)}]>>]
        BY <1>5, <3>2 DEF Folds
      <4>2. Max(s) \in 1 .. n /\ it[s \ {Max(s)}] \in Finds
        BY <1>4, <1>5, <3>2
      <4>3. F[<<Max(s), it[s \ {Max(s)}]>>] = Picked(it[s \ {Max(s)}], table[Max(s)], method, path)
        BY <1>3, <4>2
      <4> QED
        BY <3>2, <4>1, <4>3
    <3> QED
      BY <3>1, <3>2
  <2>2. it = [s \in SUBSET (1 .. n) |-> it[s]]
    OBVIOUS
  <2> QED
    BY <1>1, <2>1, <2>2 DEF FindRuns
<1>7. FindRuns(table, method, path, G)
  BY <1>6
<1>8. Found(table, method, path) = G[1 .. n]
  BY <1>1 DEF Found, FoldLeft, MapThenFoldSet, FindRuns
<1>9. \E g : FindRuns(table, method, path, g) /\ Found(table, method, path) = g[1 .. n]
  BY <1>7, <1>8
<1>10. PICK g : FindRuns(table, method, path, g) /\ Found(table, method, path) = g[1 .. n]
  BY <1>9
<1>11. \A s \in SUBSET (1 .. n) :
          g[s] = IF s = {} THEN NoneYet ELSE Picked(g[s \ {Max(s)}], table[Max(s)], method, path)
  BY <1>1, <1>10 DEF FindRuns
<1>12. FoldedBy(F, NoneYet, n, Finds, g)
  <2>1. ASSUME NEW s \in SUBSET (1 .. n), s # {}, g[s \ {Max(s)}] \in Finds
        PROVE  g[s] = F[<<Max(s), g[s \ {Max(s)}]>>]
    <3>1. Max(s) \in 1 .. n
      BY <1>4, <2>1
    <3>2. F[<<Max(s), g[s \ {Max(s)}]>>] = Picked(g[s \ {Max(s)}], table[Max(s)], method, path)
      BY <1>3, <2>1, <3>1
    <3> QED
      BY <1>11, <2>1, <3>2
  <2>2. g[{}] = NoneYet
    BY <1>11
  <2> QED
    BY <1>1, <1>2, <2>1, <2>2 DEF FoldedBy
<1> QED
  BY <1>10, <1>12, FoldStages DEF F, n

(* b is the best of the rows R, or the nothing it began with. *)
BestOf(b, R, method, path) ==
    IF \E e \in R : Suits(e, method, path)
    THEN \E e \in R : /\ Suits(e, method, path) /\ b.route = e.route /\ b.score = Length(e)
                      /\ \A f \in R : Suits(f, method, path) => Length(f) <= Length(e)
    ELSE b = NoneYet

LEMMA BestIs ==
    ASSUME NEW method, NEW path, NEW R, NEW e \in R, Suits(e, method, path), NEW b,
           b.route = e.route, b.score = Length(e),
           \A f \in R : Suits(f, method, path) => Length(f) <= Length(e)
    PROVE  BestOf(b, R, method, path)
BY DEF BestOf

(* One more row is looked at. *)
LEMMA BestOfMore ==
    ASSUME NEW method, NEW path, NEW R \in SUBSET Rows, NEW b, BestOf(b, R, method, path), NEW e \in Rows
    PROVE  BestOf(Picked(b, e, method, path), R \cup {e}, method, path)
<1>1. \A f \in Rows : Length(f) \in Nat
  BY LengthTyped
<1> DEFINE p == Picked(b, e, method, path)
           found == [route |-> e.route, score |-> Length(e)]
<1>2. CASE ~Suits(e, method, path)
  <2>1. p = b
    BY <1>2 DEF Picked, Suits
  <2> QED
    BY <1>2, <2>1 DEF BestOf
<1>3. CASE Suits(e, method, path)
  <2>1. p = IF Length(e) > b.score THEN found ELSE b
    BY <1>3 DEF Picked, Suits, Better
  <2>2. CASE \E f \in R : Suits(f, method, path)
    <3>1. PICK f \in R : /\ Suits(f, method, path) /\ b.route = f.route /\ b.score = Length(f)
                         /\ \A g \in R : Suits(g, method, path) => Length(g) <= Length(f)
      BY <2>2 DEF BestOf
    <3>2. CASE Length(e) > Length(f)
      <4>1. p = found
        BY <2>1, <3>1, <3>2
      <4>2. \A g \in R \cup {e} : Suits(g, method, path) => Length(g) <= Length(e)
        BY <1>1, <3>1, <3>2
      <4>3. found.route = e.route /\ found.score = Length(e)
        OBVIOUS
      <4> HIDE DEF found
      <4>4. BestOf(found, R \cup {e}, method, path)
        BY <1>3, <4>2, <4>3, BestIs
      <4> QED
        BY <4>1, <4>4
    <3>3. CASE ~(Length(e) > Length(f))
      <4>1. p = b
        BY <2>1, <3>1, <3>3
      <4>2. \A g \in R \cup {e} : Suits(g, method, path) => Length(g) <= Length(f)
        BY <1>1, <3>1, <3>3
      <4>3. BestOf(b, R \cup {e}, method, path)
        BY <3>1, <4>2, BestIs
      <4> QED
        BY <4>1, <4>3
    <3> QED
      BY <3>2, <3>3
  <2>3. CASE ~\E f \in R : Suits(f, method, path)
    <3>1. b = NoneYet
      BY <2>3 DEF BestOf
    <3>2. p = found
      BY <1>1, <2>1, <3>1 DEF NoneYet
    <3>3. \A g \in R \cup {e} : Suits(g, method, path) => g = e
      BY <2>3
    <3>4. Length(e) <= Length(e)
      BY <1>1
    <3>5. found.route = e.route /\ found.score = Length(e)
      OBVIOUS
    <3> HIDE DEF found
    <3>6. BestOf(found, R \cup {e}, method, path)
      BY <1>3, <3>3, <3>4, <3>5, BestIs
    <3> QED
      BY <3>2, <3>6
  <2> QED
    BY <2>2, <2>3
<1> QED
  BY <1>2, <1>3

(* The loop ends with a best row of the table. *)
LEMMA FoundIsBest ==
    ASSUME NEW table \in Seq(Rows), NEW method, NEW path
    PROVE  BestOf(Found(table, method, path), {table[k] : k \in DOMAIN table}, method, path)
<1> DEFINE n == Len(table)
<1>1. n \in Nat /\ DOMAIN table = 1 .. n /\ \A k \in 1 .. n : table[k] \in Rows
  OBVIOUS
<1>2. PICK h : StagesOf(FindsIn(table, method, path), NoneYet, n, Finds, h) /\ h[n] = Found(table, method, path)
  BY FindInStages DEF ComesTo
<1>3. h[0] = NoneYet /\ \A k \in 1 .. n : h[k] = Picked(h[k - 1], table[k], method, path)
  <2>1. h \in [0 .. n -> Finds] /\ h[0] = NoneYet /\ \A k \in 1 .. n : h[k] = FindsIn(table, method, path)[<<k, h[k - 1]>>]
    BY <1>2 DEF StagesOf
  <2>2. \A k \in 1 .. n : k - 1 \in 0 .. n
    BY <1>1
  <2>3. \A k \in 1 .. n : h[k - 1] \in Finds
    BY <2>1, <2>2
  <2> QED
    BY <2>1, <2>3 DEF FindsIn
<1> HIDE DEF n
<1> DEFINE Upto(k) == {table[i] : i \in 1 .. k}
           Good == {k \in 0 .. n : BestOf(h[k], Upto(k), method, path)}
<1>4. 0 \in Good
  <2>1. Upto(0) = {} /\ 0 \in 0 .. n
    BY <1>1
  <2> HIDE DEF Upto
  <2> QED
    BY <1>3, <2>1 DEF BestOf
<1>5. ASSUME NEW k \in 0 .. n - 1, k \in Good PROVE k + 1 \in Good
  <2>1. PICK m \in 1 .. n : m = k + 1 /\ m - 1 = k /\ m \in 0 .. n /\ k \in 0 .. n
    BY <1>1
  <2>2. h[m] = Picked(h[k], table[m], method, path) /\ table[m] \in Rows
    BY <1>1, <1>3, <2>1
  <2>3. Upto(k) \in SUBSET Rows /\ BestOf(h[k], Upto(k), method, path)
    <3>1. \A i \in 1 .. k : i \in 1 .. n
      BY <1>1, <2>1
    <3> QED
      BY <1>1, <1>5, <3>1
  <2>4. Upto(k) \cup {table[m]} = Upto(m)
    <3>1. 1 .. m = (1 .. k) \cup {m}
      BY <2>1
    <3> QED
      BY <3>1
  <2> HIDE DEF Upto
  <2>5. BestOf(Picked(h[k], table[m], method, path), Upto(k) \cup {table[m]}, method, path)
    BY <2>2, <2>3, BestOfMore
  <2> QED
    BY <2>1, <2>2, <2>4, <2>5
<1>6. 0 .. n \subseteq Good
  <2> HIDE DEF Good
  <2> QED
    BY <1>1, <1>4, <1>5, UpTo
<1>7. BestOf(h[n], Upto(n), method, path)
  <2>1. n \in 0 .. n
    BY <1>1
  <2> HIDE DEF Upto
  <2> QED
    BY <1>6, <2>1
<1>8. Upto(n) = {table[k] : k \in DOMAIN table}
  BY <1>1
<1> QED
  BY <1>2, <1>7, <1>8 DEF n

(* The route matched is that of a row that hits and is as long as any of   *)
(* the rows the documents give; there is none only if no row hits.         *)
Longest(r, R, method, path) ==
    IF \E e \in R : Suits(e, method, path)
    THEN \E e \in R : /\ Suits(e, method, path) /\ r = e.route
                      /\ \A f \in R : Suits(f, method, path) => Length(f) <= Length(e)
    ELSE r = NoRoute

(* A row that another replaced had its key, so nothing is lost. *)
LEMMA MatchIsLongest ==
    ASSUME NEW routes \in Seq(RouteRecords), NEW method, NEW path
    PROVE  Longest(MatchRoute(TableOf(routes), method, path), AllRows(routes), method, path)
<1> DEFINE table == TableOf(routes)
           T == {table[k] : k \in DOMAIN table}
           b == Found(table, method, path)
<1>1. table \in Seq(Rows) /\ Keeps(table, AllRows(routes))
  BY TableKeeps
<1>2. BestOf(b, T, method, path)
  BY <1>1, FoundIsBest
<1>3. MatchRoute(table, method, path) = b.route
  BY DEF MatchRoute, Found, Picked, NoneYet, Length
<1> HIDE DEF b, table
<1>4. T \subseteq AllRows(routes)
  BY <1>1 DEF Keeps
<1>5. \A e \in AllRows(routes) : \E f \in T : f.method = e.method /\ f.prefix = e.prefix
  BY <1>1 DEF Keeps
<1> HIDE DEF T
<1>6. \A e \in AllRows(routes) : Suits(e, method, path) =>
          \E f \in T : Suits(f, method, path) /\ Length(f) = Length(e)
  <2>1. \A e, f : f.method = e.method /\ f.prefix = e.prefix =>
            (Suits(f, method, path) <=> Suits(e, method, path)) /\ Length(f) = Length(e)
    BY DEF Suits, Length
  <2> QED
    BY <1>5, <2>1
<1>7. CASE \E e \in T : Suits(e, method, path)
  <2>1. PICK e \in T : /\ Suits(e, method, path) /\ b.route = e.route
                       /\ \A f \in T : Suits(f, method, path) => Length(f) <= Length(e)
    BY <1>2, <1>7 DEF BestOf
  <2>2. \A f \in AllRows(routes) : Suits(f, method, path) => Length(f) <= Length(e)
    BY <1>6, <2>1
  <2>3. Longest(b.route, AllRows(routes), method, path)
    BY <1>4, <2>1, <2>2 DEF Longest
  <2> QED
    BY <1>3, <2>3 DEF table
<1>8. CASE ~\E e \in T : Suits(e, method, path)
  <2>1. b = NoneYet /\ ~\E e \in AllRows(routes) : Suits(e, method, path)
    BY <1>2, <1>6, <1>8 DEF BestOf
  <2>2. b.route = NoRoute
    BY <2>1 DEF NoneYet
  <2>3. Longest(b.route, AllRows(routes), method, path)
    BY <2>1, <2>2 DEF Longest
  <2> QED
    BY <1>3, <2>3 DEF table
<1> QED
  BY <1>7, <1>8

-----------------------------------------------------------------------------
(* A prefix below the tenant. *)

(* A prefix agrees place by place. *)
Agrees(p, q) == Len(p) <= Len(q) /\ \A n \in 1 .. Len(p) : p[n] = q[n]

LEMMA PrefixIs ==
    ASSUME NEW p \in Seq(Items), NEW q \in Seq(Items)
    PROVE  IsPrefix(p, q) <=> Agrees(p, q)
<1>1. SubSeq(p, 1, Len(p)) = [n \in 1 .. Len(p) |-> p[n]]
  OBVIOUS
<1>2. Len(p) <= Len(q) => SubSeq(q, 1, Len(p)) = [n \in 1 .. Len(p) |-> q[n]]
  OBVIOUS
<1> QED
  BY <1>1, <1>2 DEF IsPrefix, Agrees

(* What holds at the places of b \o p holds at those of b and those of p. *)
LEMMA PlacesAfter ==
    ASSUME NEW l \in Nat, NEW n \in Nat, NEW S
    PROVE  (1 .. l + n) \subseteq S <=> (1 .. l) \subseteq S /\ \A k \in 1 .. n : l + k \in S
<1>1. ASSUME (1 .. l) \subseteq S, \A k \in 1 .. n : l + k \in S, NEW k \in 1 .. l + n PROVE k \in S
  <2>1. CASE k \in 1 .. l
    BY <1>1, <2>1
  <2>2. CASE k \notin 1 .. l
    <3>1. k - l \in 1 .. n /\ l + (k - l) = k
      BY <2>2
    <3> QED
      BY <1>1, <3>1
  <2> QED
    BY <2>1, <2>2
<1>2. ASSUME (1 .. l + n) \subseteq S PROVE (1 .. l) \subseteq S /\ \A k \in 1 .. n : l + k \in S
  <2>1. 1 .. l \subseteq 1 .. l + n /\ \A k \in 1 .. n : l + k \in 1 .. l + n
    OBVIOUS
  <2> QED
    BY <1>2, <2>1
<1> QED
  BY <1>1, <1>2

(* What is left of a path behind its first l pieces. *)
LEMMA RestIs ==
    ASSUME NEW path \in Seq(Items), NEW l \in Nat, l <= Len(path)
    PROVE  /\ SubSeq(path, l + 1, Len(path)) \in Seq(Items)
           /\ Len(SubSeq(path, l + 1, Len(path))) = Len(path) - l
           /\ \A k \in 1 .. Len(path) - l : SubSeq(path, l + 1, Len(path))[k] = path[l + k]
OBVIOUS

LEMMA PiecesAre == \A x \in Segments : x \notin One /\ x \notin Rest /\ x \in Items
BY MatchingAssumption DEF Items

Behind(p, n) == \E i \in DOMAIN p : i < n /\ p[i] \in Rest
Stretches(p) == \E i \in DOMAIN p : p[i] \in Rest
Opposite(path, p, n) == path[IF Behind(p, n) THEN n + (Len(path) - Len(p)) ELSE n]
Meets(piece, item) == item \in Rest \/ (item \in One /\ piece # "") \/ item = piece

LEMMA TemplateIs ==
    ASSUME NEW path, NEW p
    PROVE  TemplateMatch(path, p) <=>
              /\ Len(path) - Len(p) = 0 \/ (Len(path) - Len(p) > 0 /\ Stretches(p))
              /\ \A n \in DOMAIN p : Meets(Opposite(path, p, n), p[n])
BY DEF TemplateMatch, Behind, Stretches, Opposite, Meets

(* c is p behind the literal pieces of b. *)
ShiftedBy(b, p, c) ==
    /\ c \in Seq(Items) /\ Len(c) = Len(b) + Len(p) /\ Len(b) \in Nat /\ Len(p) \in Nat
    /\ b \in Seq(Items)
    /\ \A k \in 1 .. Len(b) : c[k] = b[k] /\ c[k] \notin One \cup Rest /\ ~Behind(c, k)
    /\ \A k \in 1 .. Len(p) : c[Len(b) + k] = p[k] /\ (Behind(c, Len(b) + k) <=> Behind(p, k))
    /\ IsTemplate(c) <=> IsTemplate(p)
    /\ Stretches(c) <=> Stretches(p)

LEMMA Shifted ==
    ASSUME NEW b \in Seq(Segments), NEW p \in Seq(Items), NEW c, c = b \o p
    PROVE  ShiftedBy(b, p, c)
<1> DEFINE l == Len(b)
           n == Len(p)
<1>1. b \in Seq(Items) /\ l \in Nat /\ n \in Nat /\ \A k \in 1 .. l : b[k] \in Segments
  BY PiecesAre
<1>2. /\ c \in Seq(Items) /\ Len(c) = l + n
      /\ \A k \in 1 .. l : c[k] = b[k]
      /\ \A k \in 1 .. n : c[l + k] = p[k]
  BY <1>1
<1>3. DOMAIN c = 1 .. l + n /\ DOMAIN p = 1 .. n
  BY <1>2
<1> HIDE DEF l, n
<1>4. \A k \in 1 .. l : c[k] \notin One /\ c[k] \notin Rest
  BY <1>1, <1>2, PiecesAre
<1>5. \A i \in 1 .. l + n : i \in 1 .. l \/ \E j \in 1 .. n : i = l + j
  <2>1. \A i \in 1 .. l + n : i \notin 1 .. l => i - l \in 1 .. n /\ i = l + (i - l)
    BY <1>1
  <2> QED
    BY <2>1
<1>6. \A j \in 1 .. n : l + j \in 1 .. l + n
  BY <1>1
<1>7. \A k \in 1 .. l : ~Behind(c, k)
  <2>1. \A k \in 1 .. l, i \in 1 .. l + n : i < k => i \in 1 .. l
    BY <1>1
  <2> QED
    BY <1>3, <1>4, <2>1 DEF Behind
<1>8. ASSUME NEW k \in 1 .. n PROVE Behind(c, l + k) <=> Behind(p, k)
  <2>1. ASSUME Behind(c, l + k) PROVE Behind(p, k)
    <3>1. PICK i \in 1 .. l + n : i < l + k /\ c[i] \in Rest
      BY <1>3, <2>1 DEF Behind
    <3>2. PICK j \in 1 .. n : i = l + j
      BY <1>4, <1>5, <3>1
    <3>3. j < k /\ p[j] \in Rest
      BY <1>1, <1>2, <3>1, <3>2
    <3> QED
      BY <1>3, <3>3 DEF Behind
  <2>2. ASSUME Behind(p, k) PROVE Behind(c, l + k)
    <3>1. PICK j \in 1 .. n : j < k /\ p[j] \in Rest
      BY <1>3, <2>2 DEF Behind
    <3>2. l + j \in 1 .. l + n /\ l + j < l + k /\ c[l + j] \in Rest
      BY <1>1, <1>2, <1>6, <3>1
    <3> QED
      BY <1>3, <3>2 DEF Behind
  <2> QED
    BY <2>1, <2>2
<1>9. IsTemplate(c) <=> IsTemplate(p)
  <2>1. ASSUME IsTemplate(c) PROVE IsTemplate(p)
    <3>1. PICK i \in 1 .. l + n : c[i] \in One \cup Rest
      BY <1>3, <2>1 DEF IsTemplate
    <3>2. PICK j \in 1 .. n : i = l + j
      BY <1>4, <1>5, <3>1
    <3>3. p[j] \in One \cup Rest
      BY <1>2, <3>1, <3>2
    <3> QED
      BY <1>3, <3>3 DEF IsTemplate
  <2>2. ASSUME IsTemplate(p) PROVE IsTemplate(c)
    <3>1. PICK j \in 1 .. n : p[j] \in One \cup Rest
      BY <1>3, <2>2 DEF IsTemplate
    <3>2. l + j \in 1 .. l + n /\ c[l + j] \in One \cup Rest
      BY <1>2, <1>6, <3>1
    <3> QED
      BY <1>3, <3>2 DEF IsTemplate
  <2> QED
    BY <2>1, <2>2
<1>10. Stretches(c) <=> Stretches(p)
  <2>1. ASSUME Stretches(c) PROVE Stretches(p)
    <3>1. PICK i \in 1 .. l + n : c[i] \in Rest
      BY <1>3, <2>1 DEF Stretches
    <3>2. PICK j \in 1 .. n : i = l + j
      BY <1>4, <1>5, <3>1
    <3>3. p[j] \in Rest
      BY <1>2, <3>1, <3>2
    <3> QED
      BY <1>3, <3>3 DEF Stretches
  <2>2. ASSUME Stretches(p) PROVE Stretches(c)
    <3>1. PICK j \in 1 .. n : p[j] \in Rest
      BY <1>3, <2>2 DEF Stretches
    <3>2. l + j \in 1 .. l + n /\ c[l + j] \in Rest
      BY <1>2, <1>6, <3>1
    <3> QED
      BY <1>3, <3>2 DEF Stretches
  <2> QED
    BY <2>1, <2>2
<1> QED
  BY <1>1, <1>2, <1>4, <1>7, <1>8, <1>9, <1>10 DEF ShiftedBy, l, n

(* The composed prefix matches what begins with the tenant and goes on as  *)
(* the prefix says: literals in front make no template of it.              *)
LEMMA MatchesBelow ==
    ASSUME NEW b \in Seq(Segments), NEW p \in Seq(Items), NEW path \in Seq(Items)
    PROVE  Matches(path, b \o p) <=>
              IsPrefix(b, path) /\ Matches(SubSeq(path, Len(b) + 1, Len(path)), p)
<1>1. PICK c : c = b \o p
  OBVIOUS
<1>2. PICK q : q = SubSeq(path, Len(b) + 1, Len(path))
  OBVIOUS
<1> DEFINE l == Len(b)
           n == Len(p)
           m == Len(path)
<1>3. /\ c \in Seq(Items) /\ Len(c) = l + n /\ l \in Nat /\ n \in Nat /\ b \in Seq(Items)
      /\ \A k \in 1 .. l : c[k] = b[k] /\ c[k] \notin One \cup Rest /\ ~Behind(c, k)
      /\ \A k \in 1 .. n : c[l + k] = p[k] /\ (Behind(c, l + k) <=> Behind(p, k))
      /\ IsTemplate(c) <=> IsTemplate(p)
      /\ Stretches(c) <=> Stretches(p)
  <2>1. ShiftedBy(b, p, c)
    BY <1>1, Shifted, Zenon
  <2> QED
    BY <2>1 DEF ShiftedBy
<1>4. m \in Nat /\ DOMAIN c = 1 .. l + n /\ DOMAIN p = 1 .. n
  BY <1>3
<1>5. l <= m => q \in Seq(Items) /\ Len(q) = m - l /\ \A k \in 1 .. m - l : q[k] = path[l + k]
  BY <1>2, <1>3, RestIs
<1>6. IsPrefix(b, path) <=> l <= m /\ \A k \in 1 .. l : b[k] = path[k]
  BY <1>3, PrefixIs DEF Agrees
<1>7. IsPrefix(c, path) <=> l + n <= m /\ \A k \in 1 .. l + n : c[k] = path[k]
  <2>1. c \in Seq(Items) /\ Len(c) = l + n
    BY <1>3
  <2>2. IsPrefix(c, path) <=> Agrees(c, path)
    BY <2>1, PrefixIs, Zenon
  <2> QED
    BY ONLY <2>1, <2>2 DEF Agrees
<1>8. l <= m => (IsPrefix(p, q) <=> n <= m - l /\ \A k \in 1 .. n : p[k] = q[k])
  BY <1>5, PrefixIs DEF Agrees
<1>9. TemplateMatch(path, c) <=> /\ m - (l + n) = 0 \/ (m - (l + n) > 0 /\ Stretches(p))
                                 /\ \A k \in 1 .. l + n : Meets(Opposite(path, c, k), c[k])
  BY <1>3, <1>4, TemplateIs
<1>10. l <= m => (TemplateMatch(q, p) <=>
                     /\ (m - l) - n = 0 \/ ((m - l) - n > 0 /\ Stretches(p))
                     /\ \A k \in 1 .. n : Meets(Opposite(q, p, k), p[k]))
  BY <1>4, <1>5, TemplateIs
<1> HIDE DEF l, n, m
<1>11. CASE ~IsTemplate(p)
  <2> DEFINE S == {k \in 1 .. l + n : c[k] = path[k]}
  <2>1. Matches(path, c) <=> l + n <= m /\ (1 .. l + n) \subseteq S
    BY <1>3, <1>7, <1>11 DEF Matches, StaticMatch
  <2>2. (1 .. l) \subseteq S <=> \A k \in 1 .. l : b[k] = path[k]
    <3>1. \A k \in 1 .. l : k \in 1 .. l + n
      BY <1>3
    <3> QED
      BY <1>3, <3>1
  <2>3. (\A k \in 1 .. n : l + k \in S) <=> \A k \in 1 .. n : p[k] = path[l + k]
    <3>1. \A k \in 1 .. n : l + k \in 1 .. l + n
      BY <1>3
    <3> QED
      BY <1>3, <3>1
  <2>4. (1 .. l + n) \subseteq S <=> (1 .. l) \subseteq S /\ \A k \in 1 .. n : l + k \in S
    <3> HIDE DEF S
    <3> QED
      BY <1>3, PlacesAfter
  <2> HIDE DEF S
  <2>5. l <= m => (Matches(q, p) <=> l + n <= m /\ \A k \in 1 .. n : p[k] = path[l + k])
    <3> SUFFICES ASSUME l <= m PROVE Matches(q, p) <=> l + n <= m /\ \A k \in 1 .. n : p[k] = path[l + k]
      OBVIOUS
    <3>1. Matches(q, p) <=> n <= m - l /\ \A k \in 1 .. n : p[k] = q[k]
      BY <1>8, <1>11 DEF Matches, StaticMatch
    <3>2. (n <= m - l <=> l + n <= m) /\ (n <= m - l => \A k \in 1 .. n : k \in 1 .. m - l)
      BY <1>3, <1>4
    <3>3. n <= m - l => \A k \in 1 .. n : q[k] = path[l + k]
      BY <1>5, <3>2
    <3> QED
      BY <3>1, <3>2, <3>3
  <2>6. l + n <= m => l <= m
    BY <1>3, <1>4
  <2>7. Matches(path, c) <=> IsPrefix(b, path) /\ Matches(q, p)
    BY <1>6, <2>1, <2>2, <2>3, <2>4, <2>5, <2>6
  <2> QED
    BY <1>1, <1>2, <2>7
<1>12. CASE IsTemplate(p)
  <2> DEFINE S == {k \in 1 .. l + n : Meets(Opposite(path, c, k), c[k])}
             Long == m - (l + n) = 0 \/ (m - (l + n) > 0 /\ Stretches(p))
  <2>1. Matches(path, c) <=> Long /\ (1 .. l + n) \subseteq S
    BY <1>3, <1>9, <1>12 DEF Matches
  <2>2. (1 .. l) \subseteq S <=> \A k \in 1 .. l : b[k] = path[k]
    <3>1. \A k \in 1 .. l : k \in 1 .. l + n
      BY <1>3
    <3>2. \A k \in 1 .. l : Opposite(path, c, k) = path[k]
      BY <1>3 DEF Opposite
    <3>3. \A k \in 1 .. l : Meets(path[k], c[k]) <=> b[k] = path[k]
      BY <1>3 DEF Meets
    <3> QED
      BY <3>1, <3>2, <3>3
  <2>3. Long /\ l <= m =>
           ((\A k \in 1 .. n : l + k \in S) <=> \A k \in 1 .. n : Meets(Opposite(q, p, k), p[k]))
    <3> SUFFICES ASSUME Long, l <= m
                 PROVE  (\A k \in 1 .. n : l + k \in S) <=> \A k \in 1 .. n : Meets(Opposite(q, p, k), p[k])
      OBVIOUS
    <3>1. \A k \in 1 .. n : l + k \in 1 .. l + n
      BY <1>3
    <3>2. ASSUME NEW k \in 1 .. n PROVE Opposite(path, c, l + k) = Opposite(q, p, k)
      <4>1. l + n <= m
        BY <1>3, <1>4
      <4>2. CASE Behind(p, k)
        <5>1. Opposite(path, c, l + k) = path[(l + k) + (m - (l + n))]
          BY <1>3, <4>2 DEF Opposite, m, l, n
        <5>2. Opposite(q, p, k) = q[k + ((m - l) - n)]
          BY <1>5, <4>2 DEF Opposite, n
        <5>3. k + ((m - l) - n) \in 1 .. m - l /\ l + (k + ((m - l) - n)) = (l + k) + (m - (l + n))
          BY <1>3, <1>4, <4>1
        <5>4. q[k + ((m - l) - n)] = path[l + (k + ((m - l) - n))]
          BY <1>5, <5>3
        <5> QED
          BY <5>1, <5>2, <5>3, <5>4
      <4>3. CASE ~Behind(p, k)
        <5>1. Opposite(path, c, l + k) = path[l + k] /\ Opposite(q, p, k) = q[k]
          BY <1>3, <4>3 DEF Opposite, l
        <5>2. k \in 1 .. m - l
          BY <1>3, <1>4, <4>1
        <5> QED
          BY <1>5, <5>1, <5>2
      <4> QED
        BY <4>2, <4>3
    <3>3. \A k \in 1 .. n : l + k \in S <=> Meets(Opposite(q, p, k), p[k])
      BY <1>3, <3>1, <3>2
    <3> HIDE DEF S
    <3> QED
      BY <3>3
  <2>4. (1 .. l + n) \subseteq S <=> (1 .. l) \subseteq S /\ \A k \in 1 .. n : l + k \in S
    <3> HIDE DEF S
    <3> QED
      BY <1>3, PlacesAfter
  <2> HIDE DEF S
  <2>5. l <= m => (Matches(q, p) <=> Long /\ \A k \in 1 .. n : Meets(Opposite(q, p, k), p[k]))
    <3>1. l <= m => ((m - l) - n = 0 <=> m - (l + n) = 0) /\ ((m - l) - n > 0 <=> m - (l + n) > 0)
      BY <1>3, <1>4
    <3> QED
      BY <1>10, <1>12, <3>1 DEF Matches
  <2>6. Long => l <= m
    BY <1>3, <1>4
  <2> HIDE DEF Long
  <2>7. Matches(path, c) <=> IsPrefix(b, path) /\ Matches(q, p)
    BY <1>6, <2>1, <2>2, <2>3, <2>4, <2>5, <2>6
  <2> QED
    BY <1>1, <1>2, <2>7
<1> QED
  BY <1>11, <1>12

LEMMA SameText ==
    ASSUME NEW p \in Seq(Items), NEW q \in Seq(Items), Len(p) = Len(q),
           \A k \in 1 .. Len(p) : p[k] = q[k]
    PROVE  p = q
OBVIOUS

(* Nothing but white space behind the last slash. *)
Blank(p) == Trim[p[Len(p)]] = ""

LEMMA TidyIs ==
    ASSUME NEW p \in Keys
    PROVE  /\ p \in Seq(Items) /\ Len(p) \in Nat /\ Len(p) # 0 /\ Tidy(p) \in Seq(Items)
           /\ Blank(p) => Len(Tidy(p)) = Len(p) - 1 /\ \A k \in 1 .. Len(p) - 1 : Tidy(p)[k] = p[k]
           /\ ~Blank(p) => /\ Len(Tidy(p)) = Len(p) /\ Tidy(p)[Len(p)] = Trim[p[Len(p)]]
                           /\ \A k \in 1 .. Len(p) - 1 : Tidy(p)[k] = p[k]
<1>1. p \in Seq(Items) /\ Len(p) \in Nat /\ Len(p) # 0
  BY DEF Keys
<1>2. Tidy(p) \in Seq(Items)
  BY NormalTyped
<1>3. CASE Blank(p)
  <2>1. Tidy(p) = SubSeq(p, 1, Len(p) - 1)
    BY <1>3 DEF Blank, Tidy, Front
  <2>2. Len(SubSeq(p, 1, Len(p) - 1)) = Len(p) - 1 /\ \A k \in 1 .. Len(p) - 1 : SubSeq(p, 1, Len(p) - 1)[k] = p[k]
    <3>1. PICK m : m = Len(p) - 1 /\ m \in Nat /\ m <= Len(p)
      BY <1>1
    <3>2. Len(SubSeq(p, 1, m)) = m /\ \A k \in 1 .. m : SubSeq(p, 1, m)[k] = p[k]
      BY <1>1, <3>1
    <3> QED
      BY <3>1, <3>2
  <2> QED
    BY <1>1, <1>2, <1>3, <2>1, <2>2
<1>4. CASE ~Blank(p)
  <2>1. PICK last : last = Trim[p[Len(p)]]
    OBVIOUS
  <2>2. Tidy(p) = [p EXCEPT ![Len(p)] = last]
    BY <1>4, <2>1 DEF Blank, Tidy
  <2>3. /\ Len([p EXCEPT ![Len(p)] = last]) = Len(p) /\ [p EXCEPT ![Len(p)] = last][Len(p)] = last
        /\ \A k \in 1 .. Len(p) - 1 : [p EXCEPT ![Len(p)] = last][k] = p[k]
    BY <1>1
  <2> QED
    BY <1>1, <1>2, <1>4, <2>1, <2>2, <2>3
<1> QED
  BY <1>3, <1>4

(* What is cut from the end of a prefix is cut behind the tenant. *)
LEMMA TidyBelow ==
    ASSUME NEW b \in Texts, NEW p \in Keys
    PROVE  Normal(b \o p) = b \o Tidy(p)
<1>1. PICK c : c = b \o p
  OBVIOUS
<1> DEFINE l == Len(b)
           n == Len(p)
<1>2. /\ b \in Seq(Items) /\ l \in Nat /\ l # 0
      /\ p \in Seq(Items) /\ n \in Nat /\ n # 0 /\ Tidy(p) \in Seq(Items)
  <2>1. b \in Seq(Items) /\ b # <<>>
    BY JoinTyped DEF Keys
  <2> QED
    BY <2>1, TidyIs
<1>3. /\ c \in Seq(Items) /\ Len(c) = l + n /\ c \in Keys /\ Tidy(c) \in Seq(Items)
      /\ \A k \in 1 .. l : c[k] = b[k]
      /\ \A k \in 1 .. n : c[l + k] = p[k]
  <2>1. c \in Keys
    BY <1>1, <1>2, JoinTyped
  <2> QED
    BY <1>1, <1>2, <2>1, TidyIs
<1>4. PICK u : u = Tidy(c) /\ u \in Seq(Items)
  BY <1>3
<1>5. PICK t : t = Tidy(p) /\ t \in Seq(Items)
  BY <1>2
<1>6. PICK v : v = b \o t
  OBVIOUS
<1>7. /\ v \in Seq(Items) /\ v # <<>> /\ Len(v) = l + Len(t) /\ Len(t) \in Nat
      /\ \A k \in 1 .. l : v[k] = b[k]
      /\ \A k \in 1 .. Len(t) : v[l + k] = t[k]
  BY <1>2, <1>5, <1>6
<1>8. Blank(c) <=> Blank(p)
  <2>1. c[l + n] = p[n]
    BY <1>2, <1>3
  <2> QED
    BY <1>3, <2>1 DEF Blank
<1>9. /\ Blank(p) => Len(t) = n - 1 /\ \A k \in 1 .. n - 1 : t[k] = p[k]
      /\ ~Blank(p) => Len(t) = n /\ t[n] = Trim[p[n]] /\ \A k \in 1 .. n - 1 : t[k] = p[k]
  BY <1>5, TidyIs
<1> HIDE DEF l, n
<1>10. /\ Blank(p) => Len(u) = (l + n) - 1
       /\ ~Blank(p) => Len(u) = l + n /\ u[l + n] = Trim[c[l + n]]
       /\ \A k \in 1 .. (l + n) - 1 : u[k] = c[k]
  <2>1. /\ Blank(c) => Len(u) = Len(c) - 1 /\ \A k \in 1 .. Len(c) - 1 : u[k] = c[k]
        /\ ~Blank(c) => Len(u) = Len(c) /\ u[Len(c)] = Trim[c[Len(c)]] /\ \A k \in 1 .. Len(c) - 1 : u[k] = c[k]
    BY <1>3, <1>4, TidyIs
  <2> QED
    BY <1>3, <1>8, <2>1
<1>11. Len(u) = Len(v)
  BY <1>2, <1>7, <1>9, <1>10
<1>12. ASSUME NEW k \in 1 .. l PROVE u[k] = v[k]
  <2>1. k \in 1 .. (l + n) - 1
    BY <1>2
  <2> QED
    BY <1>3, <1>7, <1>10, <2>1
<1>13. ASSUME NEW k \in 1 .. Len(t) PROVE u[l + k] = v[l + k]
  <2>1. k \in 1 .. n /\ v[l + k] = t[k]
    BY <1>2, <1>7, <1>9
  <2>2. CASE k \in 1 .. n - 1
    <3>1. t[k] = p[k] /\ l + k \in 1 .. (l + n) - 1 /\ c[l + k] = p[k]
      BY <1>2, <1>3, <1>9, <2>1, <2>2
    <3> QED
      BY <1>10, <2>1, <3>1
  <2>3. CASE k \notin 1 .. n - 1
    <3>1. k = n
      BY <1>2, <2>1, <2>3
    <3>2. ~Blank(p)
      BY <1>2, <1>7, <1>9, <3>1
    <3>3. t[n] = Trim[p[n]] /\ u[l + n] = Trim[c[l + n]] /\ c[l + n] = p[n]
      BY <1>3, <1>9, <1>10, <2>1, <3>1, <3>2
    <3> QED
      BY <2>1, <3>1, <3>3
  <2> QED
    BY <2>2, <2>3
<1>14. \A k \in 1 .. Len(u) : u[k] = v[k]
  <2> DEFINE S == {k \in 1 .. Len(u) : u[k] = v[k]}
  <2>1. (\A k \in 1 .. l : k \in 1 .. Len(u)) /\ \A k \in 1 .. Len(t) : l + k \in 1 .. Len(u)
    BY <1>2, <1>7, <1>11
  <2>2. (1 .. l) \subseteq S /\ \A k \in 1 .. Len(t) : l + k \in S
    BY <1>12, <1>13, <2>1
  <2>3. 1 .. l + Len(t) \subseteq S
    <3> HIDE DEF S
    <3> QED
      BY <1>2, <1>7, <2>2, PlacesAfter
  <2> QED
    BY <1>7, <1>11, <2>3
<1>15. u = v
  BY <1>4, <1>7, <1>11, <1>14, SameText
<1> QED
  BY <1>1, <1>4, <1>5, <1>6, <1>7, <1>15 DEF Normal

(* A document serves what its key matches, and weighs as much. *)
LEMMA Underneath ==
    ASSUME NEW d \in RouteRecords, request.path \in Texts
    PROVE  /\ Serves(d) <=> /\ \E i \in DOMAIN MethodsOf(d) : MethodsOf(d)[i] = request.method
                            /\ Matches(Normal(request.path), Normal(Key(d)))
           /\ Weight(d) = Score(Normal(Key(d)))
<1> DEFINE path == Normal(request.path)
           b == Owner(d)
           p == d.prefix
           Offered == request.method \in (IF d.methods = <<>> THEN {"GET"} ELSE Range(d.methods))
<1>1. b \in Texts /\ p \in Keys /\ d.methods \in Seq(STRING)
  BY RouteTyped DEF Owner
<1>2. Offered <=> \E i \in DOMAIN MethodsOf(d) : MethodsOf(d)[i] = request.method
  <2>1. CASE d.methods = <<>>
    <3>1. DOMAIN <<"GET">> = {1} /\ <<"GET">>[1] = "GET"
      OBVIOUS
    <3>2. MethodsOf(d) = <<"GET">>
      BY <2>1 DEF MethodsOf
    <3> QED
      BY <2>1, <3>1, <3>2
  <2>2. CASE d.methods # <<>>
    BY <2>2 DEF MethodsOf, Range
  <2> QED
    BY <2>1, <2>2
<1>3. Key(d) = IF Under(d) THEN b \o p ELSE p
  BY DEF Key, Compose, Under, Owner
<1>4. path \in Seq(Items) /\ Tidy(p) \in Seq(Items) /\ b \in Seq(Segments) /\ b \in Seq(Items)
  <2>1. request.path \in Keys /\ b \in Keys
    BY <1>1, JoinTyped DEF Keys
  <2> QED
    BY <1>1, <2>1, NormalTyped DEF Keys, Texts
<1>5. Under(d) => (Serves(d) <=> /\ Offered /\ IsPrefix(b, path)
                                 /\ Matches(SubSeq(path, Len(b) + 1, Len(path)), Tidy(p)))
  BY DEF Serves
<1>6. ~Under(d) => (Serves(d) <=> Offered /\ Matches(path, Normal(p)))
  BY DEF Serves
<1>7. Weight(d) = IF Under(d) THEN Score(b) + Score(Tidy(p)) ELSE Score(Normal(p))
  BY DEF Weight
<1> HIDE DEF path, b, p, Offered
<1>8. CASE Under(d)
  <2>1. Normal(Key(d)) = b \o Tidy(p)
    BY <1>1, <1>3, <1>8, TidyBelow
  <2>2. Matches(path, b \o Tidy(p)) <=>
            IsPrefix(b, path) /\ Matches(SubSeq(path, Len(b) + 1, Len(path)), Tidy(p))
    BY <1>4, MatchesBelow, Zenon
  <2>3. Score(b \o Tidy(p)) = Score(b) + Score(Tidy(p))
    BY <1>4, ScoreAdds
  <2> QED
    BY <1>2, <1>5, <1>7, <1>8, <2>1, <2>2, <2>3 DEF path
<1>9. CASE ~Under(d)
  BY <1>2, <1>3, <1>6, <1>7, <1>9 DEF path
<1> QED
  BY <1>8, <1>9

-----------------------------------------------------------------------------
(* The route matched against documents that are known, in whatever order.  *)

Matched(s) == MatchRoute(TableOf(s.routes), s.request.method, s.request.path)

(* r serves the request and is as long as any of S that does. *)
LongestOf(r, S) ==
    IF \E d \in S : Serves(d)
    THEN r \in S /\ Serves(r) /\ \A d \in S : Serves(d) => Weight(d) <= Weight(r)
    ELSE r = NoRoute

LEMMA WeightTyped ==
    ASSUME NEW d \in RouteRecords, request.path \in Texts
    PROVE  Weight(d) \in Nat
<1>1. Normal(Key(d)) \in Seq(Items)
  BY KeyTyped, NormalTyped DEF Keys
<1> QED
  BY <1>1, ScoreTyped, Underneath

(* What serves is what has a row that suits. *)
LEMMA ServingRows ==
    ASSUME NEW d \in RouteRecords, request.path \in Texts
    PROVE  /\ \A e \in RowsOf(d) : e.route = d /\ Length(e) = Weight(d)
           /\ Serves(d) <=> \E e \in RowsOf(d) : Suits(e, request.method, request.path)
           /\ \A e \in RowsOf(d) : Suits(e, request.method, request.path) => Serves(d)
<1> DEFINE M == MethodsOf(d)
           Fits == Matches(Normal(request.path), Normal(Key(d)))
<1>1. \A i \in DOMAIN M : Row(d, M[i]) \in RowsOf(d)
  BY DEF RowsOf
<1>2. \A e \in RowsOf(d) : \E i \in DOMAIN M : e = Row(d, M[i])
  BY DEF RowsOf
<1>3. \A m : Row(d, m).route = d /\ Row(d, m).prefix = Key(d) /\ Row(d, m).method = m
  BY DEF Row
<1>4. /\ Serves(d) <=> (\E i \in DOMAIN M : M[i] = request.method) /\ Fits
      /\ Weight(d) = Score(Normal(Key(d)))
  BY Underneath
<1>5. \A m : /\ Suits(Row(d, m), request.method, request.path) <=> m = request.method /\ Fits
             /\ Length(Row(d, m)) = Weight(d)
  BY <1>3, <1>4 DEF Suits, Length
<1> HIDE DEF M, Fits
<1> QED
  BY <1>1, <1>2, <1>3, <1>4, <1>5

(* In terms of the documents. *)
LEMMA MatchServes ==
    ASSUME NEW routes \in Seq(RouteRecords), request.path \in Texts
    PROVE  LongestOf(MatchRoute(TableOf(routes), request.method, request.path), Range(routes))
<1> DEFINE r == MatchRoute(TableOf(routes), request.method, request.path)
           R == AllRows(routes)
           S == Range(routes)
           Hit(e) == Suits(e, request.method, request.path)
<1>1. Longest(r, R, request.method, request.path)
  BY MatchIsLongest
<1>2. /\ \A d \in S : d \in RouteRecords
      /\ \A d \in S : \A e \in RowsOf(d) : e \in R
      /\ \A e \in R : \E d \in S : e \in RowsOf(d)
  BY DEF Range, AllRows
<1>3. \A d \in S : /\ \A e \in RowsOf(d) : e.route = d /\ Length(e) = Weight(d)
                   /\ Serves(d) <=> \E e \in RowsOf(d) : Hit(e)
                   /\ \A e \in RowsOf(d) : Hit(e) => Serves(d)
  BY <1>2, ServingRows
<1> HIDE DEF r, R, S
<1>4. CASE \E e \in R : Hit(e)
  <2>1. PICK e \in R : Hit(e) /\ r = e.route /\ \A f \in R : Hit(f) => Length(f) <= Length(e)
    BY <1>1, <1>4 DEF Longest
  <2>2. PICK d \in S : e \in RowsOf(d)
    BY <1>2, <2>1
  <2>3. r = d /\ Serves(d) /\ Weight(d) = Length(e)
    BY <1>3, <2>1, <2>2
  <2>4. ASSUME NEW x \in S, Serves(x) PROVE Weight(x) <= Weight(d)
    <3>1. PICK f \in RowsOf(x) : Hit(f)
      BY <1>3, <2>4
    <3>2. f \in R /\ Length(f) = Weight(x)
      BY <1>2, <1>3, <3>1
    <3> QED
      BY <2>1, <2>3, <3>1, <3>2
  <2>5. LongestOf(r, S)
    BY <2>3, <2>4 DEF LongestOf
  <2> QED
    BY <2>5 DEF r, S
<1>5. CASE ~\E e \in R : Hit(e)
  <2>1. r = NoRoute
    BY <1>1, <1>5 DEF Longest
  <2>2. ~\E d \in S : Serves(d)
    BY <1>2, <1>3, <1>5
  <2>3. LongestOf(r, S)
    BY <2>1, <2>2 DEF LongestOf
  <2> QED
    BY <2>3 DEF r, S
<1> QED
  BY <1>4, <1>5

LEMMA NoRouteIsNone == NoRoute \notin RouteRecords
BY DEF NoRoute, RouteRecords

(* A text is what it begins with and the rest. *)
LEMMA TextsJoin ==
    ASSUME NEW t \in Seq(Items), NEW path \in Seq(Items), IsPrefix(t, path)
    PROVE  path = t \o SubSeq(path, Len(t) + 1, Len(path))
<1>1. PICK q : q = SubSeq(path, Len(t) + 1, Len(path))
  OBVIOUS
<1>2. Len(t) <= Len(path) /\ \A n \in 1 .. Len(t) : t[n] = path[n]
  BY PrefixIs DEF Agrees
<1>3. /\ q \in Seq(Items) /\ Len(q) = Len(path) - Len(t) /\ Len(t) \in Nat /\ Len(path) \in Nat
      /\ \A k \in 1 .. Len(path) - Len(t) : q[k] = path[Len(t) + k]
  BY <1>1, <1>2, RestIs
<1>4. PICK v : v = t \o q
  OBVIOUS
<1>5. /\ v \in Seq(Items) /\ Len(v) = Len(path)
      /\ \A n \in 1 .. Len(t) : v[n] = t[n]
      /\ \A k \in 1 .. Len(path) - Len(t) : v[Len(t) + k] = q[k]
  BY <1>3, <1>4
<1> DEFINE S == {k \in 1 .. Len(path) : path[k] = v[k]}
<1>6. (1 .. Len(t)) \subseteq S /\ \A k \in 1 .. Len(path) - Len(t) : Len(t) + k \in S
  BY <1>2, <1>3, <1>5
<1>7. PICK l, n : l = Len(t) /\ n = Len(path) - Len(t) /\ l \in Nat /\ n \in Nat /\ l + n = Len(path)
  BY <1>2, <1>3
<1>8. 1 .. l + n \subseteq S
  <2> HIDE DEF S
  <2> QED
    BY <1>6, <1>7, PlacesAfter
<1>9. path = v
  <2>1. Len(path) = Len(v) /\ \A k \in 1 .. Len(path) : path[k] = v[k]
    BY <1>5, <1>7, <1>8
  <2> QED
    BY <1>5, <2>1, SameText
<1> QED
  BY <1>1, <1>4, <1>9

(* What is kept of a text that ends without white space begins it, and the *)
(* whole of it is kept if it does not end with a slash.                    *)
LEMMA KeptOf ==
    ASSUME NEW p \in Keys, Exact(p)
    PROVE  /\ IsPrefix(Normal(p), p)
           /\ Ends(p) => Normal(p) = p
<1>1. /\ p \in Seq(Items) /\ Len(p) \in Nat /\ Len(p) # 0 /\ Tidy(p) \in Seq(Items)
      /\ Blank(p) => Len(Tidy(p)) = Len(p) - 1 /\ \A k \in 1 .. Len(p) - 1 : Tidy(p)[k] = p[k]
      /\ ~Blank(p) => /\ Len(Tidy(p)) = Len(p) /\ Tidy(p)[Len(p)] = Trim[p[Len(p)]]
                      /\ \A k \in 1 .. Len(p) - 1 : Tidy(p)[k] = p[k]
  BY TidyIs
<1>2. Blank(p) <=> ~Ends(p)
  BY DEF Exact, Blank, Ends
<1>3. CASE ~Blank(p)
  <2>1. \A k \in 1 .. Len(p) : k \in 1 .. Len(p) - 1 \/ k = Len(p)
    BY <1>1
  <2>2. \A k \in 1 .. Len(p) : Tidy(p)[k] = p[k]
    BY <1>1, <1>3, <2>1 DEF Exact
  <2>3. Tidy(p) = p
    BY <1>1, <1>3, <2>2, SameText
  <2>4. Normal(p) = p
    BY <1>1, <2>3 DEF Normal
  <2>5. IsPrefix(p, p)
    BY <1>1, PrefixIs DEF Agrees
  <2> QED
    BY <2>4, <2>5
<1>4. CASE Blank(p)
  <2>1. CASE Len(p) = 1
    <3>1. p[1] = ""
      BY <1>2, <1>4, <2>1 DEF Ends
    <3>2. Len(Tidy(p)) = 0
      BY <1>1, <1>4, <2>1
    <3>3. Normal(p) = Root
      <4>1. Tidy(p) = <<>>
        BY <1>1, <3>2
      <4> QED
        BY <4>1 DEF Normal
    <3>4. Root \in Seq(Items) /\ Len(Root) = 1
      BY RootTyped DEF Keys, Root
    <3>5. PICK e : e = Root[1]
      OBVIOUS
    <3>6. p[1] = e
      BY <3>1, <3>5 DEF Root
    <3>7. p = Root
      <4>1. \A k \in 1 .. Len(p) : k = 1
        BY <2>1
      <4>2. \A k \in 1 .. Len(p) : p[k] = Root[k]
        BY <3>5, <3>6, <4>1
      <4> QED
        BY <1>1, <2>1, <3>4, <4>2, SameText
    <3>8. IsPrefix(p, p)
      BY <1>1, PrefixIs DEF Agrees
    <3> QED
      BY <1>2, <1>4, <3>3, <3>7, <3>8
  <2>2. CASE Len(p) # 1
    <3>1. Len(Tidy(p)) # 0 /\ Agrees(Tidy(p), p)
      BY <1>1, <1>4, <2>2 DEF Agrees
    <3>2. Normal(p) = Tidy(p)
      BY <1>1, <3>1 DEF Normal
    <3> QED
      BY <1>1, <1>2, <1>4, <3>1, <3>2, PrefixIs
  <2> QED
    BY <2>1, <2>2
<1> QED
  BY <1>3, <1>4

(* A text that begins with t keeps it, if t does not end with a slash or   *)
(* white space.                                                            *)
LEMMA KeepsBeginning ==
    ASSUME NEW t \in Keys, NEW p \in Keys, IsPrefix(t, p), Exact(t), Ends(t)
    PROVE  IsPrefix(t, Normal(p))
<1>1. t \in Seq(Items) /\ Len(t) \in Nat /\ Len(t) # 0
  BY DEF Keys
<1>2. /\ p \in Seq(Items) /\ Len(p) \in Nat /\ Len(p) # 0 /\ Tidy(p) \in Seq(Items)
      /\ Blank(p) => Len(Tidy(p)) = Len(p) - 1 /\ \A k \in 1 .. Len(p) - 1 : Tidy(p)[k] = p[k]
      /\ ~Blank(p) => /\ Len(Tidy(p)) = Len(p) /\ Tidy(p)[Len(p)] = Trim[p[Len(p)]]
                      /\ \A k \in 1 .. Len(p) - 1 : Tidy(p)[k] = p[k]
  BY TidyIs
<1>3. Agrees(t, p)
  BY <1>1, <1>2, PrefixIs
<1>4. CASE Len(t) = Len(p)
  <2>1. t = p
    BY <1>1, <1>2, <1>3, <1>4, SameText DEF Agrees
  <2>2. Normal(p) = p
    BY <2>1, KeptOf
  <2>3. IsPrefix(p, p)
    BY <1>2, PrefixIs DEF Agrees
  <2> QED
    BY <2>1, <2>2, <2>3
<1>5. CASE Len(t) # Len(p)
  <2>0. Len(t) <= Len(p) - 1
    BY <1>1, <1>2, <1>3, <1>5 DEF Agrees
  <2>1. Len(t) <= Len(p) - 1 /\ \A k \in 1 .. Len(t) : k \in 1 .. Len(p) - 1 /\ t[k] = p[k]
    BY <1>1, <1>2, <1>3, <2>0 DEF Agrees
  <2>2. Len(t) <= Len(Tidy(p)) /\ Len(Tidy(p)) # 0 /\ \A k \in 1 .. Len(t) : Tidy(p)[k] = p[k]
    BY <1>1, <1>2, <2>1
  <2>3. Agrees(t, Tidy(p)) /\ Normal(p) = Tidy(p)
    BY <1>2, <2>1, <2>2 DEF Agrees, Normal
  <2> QED
    BY <1>1, <1>2, <2>3, PrefixIs
<1> QED
  BY <1>4, <1>5

LEMMA JoinBegins ==
    ASSUME NEW t \in Seq(Items), NEW p \in Seq(Items), NEW c, c = t \o p
    PROVE  c \in Seq(Items) /\ IsPrefix(t, c)
<1>1. c \in Seq(Items) /\ Agrees(t, c)
  BY DEF Agrees
<1> QED
  BY <1>1, PrefixIs

LEMMA PrefixesChain ==
    ASSUME NEW t \in Seq(Items), NEW p \in Seq(Items), NEW q \in Seq(Items), IsPrefix(t, p), IsPrefix(p, q)
    PROVE  IsPrefix(t, q)
<1>1. Agrees(t, p) /\ Agrees(p, q)
  BY PrefixIs
<1>2. Agrees(t, q)
  BY <1>1 DEF Agrees
<1> QED
  BY <1>2, PrefixIs

(* A path that a document of the tenant serves begins with the tenant. *)
LEMMA BeginsWithTenant ==
    ASSUME NEW d \in RouteRecords, request.path \in Texts, Serves(d),
           NEW t, t = RouteTenant(d), t # Anyone, Bare(t) = t, Exact(t), Exact(request.path)
    PROVE  IsPrefix(t, request.path)
<1>1. PICK path : path = request.path
  OBVIOUS
<1>2. t \in Texts /\ t \in Keys /\ t \in Seq(Items) /\ t \in Seq(Segments) /\ Ends(t)
  <2>1. t \in Texts
    BY RouteTyped
  <2>2. Ends(t)
    BY <2>1, BareIs
  <2>3. t \in Keys
    BY <2>1, TextsAreKeys
  <2> QED
    BY <2>1, <2>2, <2>3 DEF Keys, Texts
<1>3. path \in Keys /\ Normal(path) \in Seq(Items) /\ path \in Seq(Items) /\ Exact(path)
  <2>1. path \in Keys
    BY <1>1, TextsAreKeys
  <2> QED
    BY <1>1, <2>1, NormalTyped DEF Keys
<1>4. Matches(Normal(path), Normal(Key(d)))
  BY <1>1, Underneath
<1>5. IsPrefix(t, Key(d)) /\ Key(d) \in Keys
  <2>1. CASE Under(d)
    <3>1. Key(d) = t \o d.prefix /\ d.prefix \in Seq(Items)
      BY <2>1, RouteTyped DEF Under, Owner, Key, Compose, Keys
    <3>2. PICK c : c = t \o d.prefix
      OBVIOUS
    <3>3. c \in Seq(Items) /\ IsPrefix(t, c)
      BY <1>2, <3>1, <3>2, JoinBegins
    <3> QED
      BY <3>1, <3>2, <3>3, KeyTyped
  <2>2. CASE ~Under(d)
    <3>1. Key(d) = d.prefix /\ IsPrefix(t, d.prefix)
      BY <2>2 DEF Under, Owner, Key, Compose
    <3> QED
      BY <3>1, KeyTyped
  <2> QED
    BY <2>1, <2>2
<1>6. PICK c : c = Normal(Key(d)) /\ c \in Seq(Items) /\ IsPrefix(t, c)
  BY <1>2, <1>5, KeepsBeginning, NormalTyped DEF Keys
<1>7. PICK rest : rest = SubSeq(c, Len(t) + 1, Len(c)) /\ rest \in Seq(Items) /\ c = t \o rest
  <2>1. c = t \o SubSeq(c, Len(t) + 1, Len(c))
    BY <1>2, <1>6, TextsJoin
  <2>2. Len(t) \in Nat /\ Len(t) <= Len(c)
    <3>1. Agrees(t, c)
      BY <1>2, <1>6, PrefixIs
    <3> QED
      BY <1>2, <3>1 DEF Agrees
  <2>3. SubSeq(c, Len(t) + 1, Len(c)) \in Seq(Items)
    BY <1>6, <2>2, RestIs
  <2> QED
    BY <2>1, <2>3
<1>8. Matches(Normal(path), t \o rest)
  BY <1>4, <1>6, <1>7
<1>9. IsPrefix(t, Normal(path))
  <2>1. t \in Seq(Segments) /\ rest \in Seq(Items) /\ Normal(path) \in Seq(Items)
    BY <1>2, <1>3, <1>7
  <2> QED
    BY <1>8, <2>1, MatchesBelow, Zenon
<1>10. IsPrefix(Normal(path), path)
  BY <1>3, KeptOf
<1> QED
  BY <1>1, <1>2, <1>3, <1>9, <1>10, PrefixesChain

-----------------------------------------------------------------------------
(* The request keeps the route it was matched to. *)

Typed ==
    /\ scenario \in Scenarios
    /\ store \in StoreRecords /\ edits \in 0 .. MaxEdits
    /\ pc \in {"match", "access", "hashes", "permission", "done"}
    /\ at \in 0 .. (Len(scenario.plugins) + 1)
    /\ pc \in {"hashes", "permission"} => at \in DOMAIN scenario.plugins
    /\ tenant \in Texts /\ who \in Texts
    /\ consumer \in Consumers \cup {Nobody}
    /\ verdict \in Verdicts
    /\ store.on \subseteq seen.on /\ store.permitted \subseteq seen.permitted
    /\ steady.on \subseteq store.on /\ steady.permitted \subseteq store.permitted

Routed ==
    IF pc = "match" THEN route = NoRoute /\ verdict = "open"
    ELSE /\ route = Matched(scenario)
         /\ IF route = NoRoute THEN pc = "done" /\ verdict = "not_found"
            ELSE tenant = TenantOf(route, scenario.request.tenant, scenario.request.path)

(* What the assumptions say of the scenario. *)
LEMMA ScenariosTyped ==
    ASSUME scenario \in Scenarios
    PROVE  /\ scenario.store \in StoreRecords /\ scenario.plugins \in Seq(Plugins)
           /\ Len(scenario.plugins) \in Nat /\ DOMAIN scenario.plugins = 1 .. Len(scenario.plugins)
           /\ scenario.routes \in Seq(RouteRecords) /\ scenario.request.path \in Texts
           /\ scenario.request.tenant \in Texts
           /\ scenario.request.token.tenant \in Texts
           /\ LongestOf(Matched(scenario), Range(scenario.routes))
<1>1. scenario.plugins \in Seq(Plugins) /\ scenario.routes \in Seq(RouteRecords) /\ scenario.request.path \in Texts
  BY AdmissionAssumption
<1>2. LongestOf(Matched(scenario), Range(scenario.routes))
  BY <1>1, MatchServes DEF Matched, request
<1>3. Len(scenario.plugins) \in Nat /\ DOMAIN scenario.plugins = 1 .. Len(scenario.plugins)
  BY <1>1
<1> QED
  BY <1>1, <1>2, <1>3, AdmissionAssumption

LEMMA MatchedTyped ==
    ASSUME scenario \in Scenarios
    PROVE  /\ Matched(scenario) \in Range(scenario.routes) \cup {NoRoute}
           /\ Matched(scenario) # NoRoute => Matched(scenario) \in RouteRecords
<1>1. scenario.routes \in Seq(RouteRecords) /\ LongestOf(Matched(scenario), Range(scenario.routes))
  BY ScenariosTyped
<1>2. \A d \in Range(scenario.routes) : d \in RouteRecords
  BY <1>1 DEF Range
<1> QED
  BY <1>1, <1>2 DEF LongestOf

LEMMA TenantTyped ==
    ASSUME NEW r \in RouteRecords, NEW header \in Texts, NEW path \in Texts
    PROVE  TenantOf(r, header, path) \in Texts
<1> DEFINE named == {n \in DOMAIN path : path[n] # ""}
<1>1. path \in Seq(Segments) /\ Len(path) \in Nat /\ DOMAIN path = 1 .. Len(path)
  BY DEF Texts
<1>2. named \subseteq DOMAIN path
  OBVIOUS
<1>3. \/ TenantOf(r, header, path) \in {RouteTenant(r), header}
      \/ named # {} /\ TenantOf(r, header, path) = <<path[Min(named)]>>
  BY Zenon DEF TenantOf
<1> HIDE DEF named
<1>4. RouteTenant(r) \in Texts
  BY RouteTyped
<1>5. ASSUME named # {} PROVE <<path[Min(named)]>> \in Texts
  <2>1. named \subseteq Nat
    BY ONLY <1>1, <1>2
  <2>2. Min(named) \in named
    BY <2>1, <1>5, MinIn
  <2>3. Min(named) \in DOMAIN path
    BY ONLY <1>2, <2>2
  <2>4. path[Min(named)] \in Segments
    BY ONLY <1>1, <2>3
  <2> HIDE DEF named
  <2> QED
    BY <2>4 DEF Texts
<1> QED
  BY <1>3, <1>4, <1>5

(* The match ends the request, or sends it to the first plugin. *)
LEMMA MatchKeeps ==
    ASSUME Typed, Routed, Match
    PROVE  Typed' /\ Routed'
<1>1. scenario' = scenario /\ UNCHANGED <<store, edits, seen, steady, consumer>>
  BY DEF Match, outside
<1>2. route' = Matched(scenario) /\ tenant' = IF route' = NoRoute THEN Anyone
                                              ELSE TenantOf(route', scenario.request.tenant, scenario.request.path)
  BY DEF Match, Matched, request
<1>3. route' = NoRoute \/ route' \in RouteRecords
  BY <1>2, MatchedTyped DEF Typed
<1>4. /\ scenario.request.path \in Texts /\ scenario.request.tenant \in Texts
      /\ Len(scenario.plugins) \in Nat
  BY ScenariosTyped DEF Typed
<1>5. tenant' \in Texts
  <2>1. CASE route' = NoRoute
    BY <1>2, <2>1, RootTyped DEF Root, Anyone
  <2>2. CASE route' # NoRoute
    <3>1. TenantOf(route', scenario.request.tenant, scenario.request.path) \in Texts
      BY <1>3, <1>4, <2>2, TenantTyped
    <3> QED
      BY <1>2, <2>2, <3>1
  <2> QED
    BY <2>1, <2>2
<1>6. /\ pc = "match" /\ who' = tenant'
      /\ \/ route' = NoRoute /\ pc' = "done" /\ verdict' = "not_found" /\ at' = at
         \/ route' # NoRoute /\ pc' = "done" /\ verdict' = "no_tenant" /\ at' = at
         \/ tenant' # Anyone /\ pc' = "access" /\ at' = 1 /\ verdict' = verdict
  BY DEF Match, End
<1>7. Typed'
  BY <1>1, <1>4, <1>5, <1>6 DEF Typed, Verdicts
<1>8. Routed'
  BY <1>1, <1>2, <1>6 DEF Routed
<1> QED
  BY <1>7, <1>8

(* No plugin changes the route, the tenant or the scenario. *)
Stepping ==
    /\ UNCHANGED <<scenario, store, edits, seen, steady, route, tenant>>
    /\ pc \notin {"match", "done"}
    /\ pc' \in {"access", "hashes", "permission", "done"}
    /\ at' \in 0 .. (Len(scenario.plugins) + 1)
    /\ pc' \in {"hashes", "permission"} => at' \in DOMAIN scenario.plugins
    /\ who' \in Texts /\ consumer' \in Consumers \cup {Nobody}
    /\ verdict' \in Verdicts

LEMMA PluginsStep ==
    ASSUME Typed,
           RestrictIp \/ CheckJwt \/ CheckOAuth \/ CheckKey \/ LookUpHashes
           \/ CheckLists \/ CheckPermission \/ Forward
    PROVE  Stepping
<1>1. /\ Len(scenario.plugins) \in Nat /\ DOMAIN scenario.plugins = 1 .. Len(scenario.plugins)
      /\ scenario.request.token.tenant \in Texts
  BY ScenariosTyped DEF Typed
<1> DEFINE n == Len(scenario.plugins)
<1>2. \A k \in 1 .. n : k \in 0 .. n + 1 /\ k + 1 \in 0 .. n + 1
  BY <1>1
<1>3. at \in 0 .. n + 1 /\ (pc \in {"hashes", "permission"} => at \in 1 .. n)
  BY <1>1 DEF Typed
<1>4. who \in Texts /\ consumer \in Consumers \cup {Nobody} /\ verdict \in Verdicts
  BY DEF Typed
<1>5. "refused" \in Verdicts /\ "forwarded" \in Verdicts
  BY DEF Verdicts
<1>6. \A t, f : Holders(t, f) \subseteq Consumers
  BY DEF Holders
<1>7. \A p : Runs(p) => pc = "access" /\ at \in 1 .. n
  BY <1>1 DEF Runs
<1> HIDE DEF n
<1> USE DEF Stepping, Pass, Refuse, End, outside
<1>8. CASE RestrictIp
  BY <1>1, <1>2, <1>3, <1>4, <1>5, <1>7, <1>8 DEF RestrictIp, n
<1>9. CASE CheckJwt
  BY <1>1, <1>2, <1>3, <1>4, <1>5, <1>7, <1>9 DEF CheckJwt, request, n
<1>10. CASE CheckOAuth
  BY <1>1, <1>2, <1>3, <1>4, <1>5, <1>7, <1>10 DEF CheckOAuth, n
<1>11. CASE CheckKey
  BY <1>1, <1>2, <1>3, <1>4, <1>5, <1>6, <1>7, <1>11 DEF CheckKey, n
<1>12. CASE LookUpHashes
  BY <1>1, <1>2, <1>3, <1>4, <1>5, <1>6, <1>12 DEF LookUpHashes, n
<1>13. CASE CheckLists
  BY <1>1, <1>2, <1>3, <1>4, <1>5, <1>7, <1>13 DEF CheckLists, n
<1>14. CASE CheckPermission
  BY <1>1, <1>2, <1>3, <1>4, <1>5, <1>14 DEF CheckPermission, n
<1>15. CASE Forward
  BY <1>1, <1>2, <1>3, <1>4, <1>5, <1>15 DEF Forward, n
<1> QED
  BY <1>8, <1>9, <1>10, <1>11, <1>12, <1>13, <1>14, <1>15

LEMMA SteppingKeeps ==
    ASSUME Typed, Routed, Stepping
    PROVE  Typed' /\ Routed'
<1>1. Typed'
  BY DEF Typed, Stepping
<1>2. Routed'
  BY DEF Routed, Stepping
<1> QED
  BY <1>1, <1>2

(* What happens behind the request does not touch its route. *)
LEMMA EditsKeepRoute ==
    ASSUME Typed, Routed, NEW new \in StoreRecords, Edit(new)
    PROVE  Typed' /\ Routed'
<1>1. UNCHANGED <<scenario, pc, at, route, tenant, who, consumer, verdict>>
  BY DEF Edit
<1>2. Routed'
  BY <1>1 DEF Routed
<1>3. edits' \in 0 .. MaxEdits
  BY AdmissionAssumption DEF Edit, Typed
<1>4. /\ store' = new /\ new.on \subseteq seen'.on /\ new.permitted \subseteq seen'.permitted
      /\ steady'.on \subseteq new.on /\ steady'.permitted \subseteq new.permitted
  BY DEF Edit, Held
<1>5. Typed'
  BY <1>1, <1>3, <1>4 DEF Typed
<1> QED
  BY <1>2, <1>5

(* The types and the route, for good. *)
LEMMA RoutingHolds ==
    Spec => [](Typed /\ Routed)
<1>1. Init => Typed /\ Routed
  <2> SUFFICES ASSUME Init PROVE Typed /\ Routed
    OBVIOUS
  <2>1. scenario \in Scenarios /\ store = scenario.store
    BY DEF Init
  <2>2. store \in StoreRecords /\ Len(scenario.plugins) \in Nat
    BY <2>1, ScenariosTyped
  <2>3. MaxEdits \in Nat
    BY AdmissionAssumption
  <2>4. Anyone \in Texts
    BY RootTyped DEF Root, Anyone
  <2>5. Typed
    BY <2>1, <2>2, <2>3, <2>4 DEF Init, Typed, Verdicts, Held
  <2> QED
    BY <2>5 DEF Init, Routed
<1>2. (Typed /\ Routed) /\ [Next]_vars => (Typed /\ Routed)'
  <2> SUFFICES ASSUME Typed, Routed, [Next]_vars PROVE Typed' /\ Routed'
    OBVIOUS
  <2>1. CASE Match
    BY <2>1, MatchKeeps
  <2>2. CASE RestrictIp \/ CheckJwt \/ CheckOAuth \/ CheckKey \/ LookUpHashes
             \/ CheckLists \/ CheckPermission \/ Forward
    BY <2>2, PluginsStep, SteppingKeeps
  <2>3. store \in StoreRecords
    BY DEF Typed
  <2>4. ASSUME NEW c \in Consumers, Switch(c) PROVE Typed' /\ Routed'
    <3>1. PICK new : new = [store EXCEPT !.on = IF c \in @ THEN @ \ {c} ELSE @ \cup {c}]
      OBVIOUS
    <3>2. new \in StoreRecords
      BY <2>3, <3>1 DEF StoreRecords
    <3>3. Edit(new)
      BY <2>4, <3>1 DEF Switch
    <3> QED
      BY <3>2, <3>3, EditsKeepRoute
  <2>5. ASSUME NEW c \in Consumers, Hash(c) PROVE Typed' /\ Routed'
    <3>1. PICK new : new = [store EXCEPT !.form[c] = {"hashed"}]
      OBVIOUS
    <3>2. new \in StoreRecords
      BY <2>3, <3>1 DEF StoreRecords, Forms
    <3>3. Edit(new)
      BY <2>5, <3>1 DEF Hash
    <3> QED
      BY <3>2, <3>3, EditsKeepRoute
  <2>6. ASSUME NEW p \in DOMAIN Permissions, Permit(p) PROVE Typed' /\ Routed'
    <3>1. PICK new : new = [store EXCEPT !.permitted = IF p \in @ THEN @ \ {p} ELSE @ \cup {p}]
      OBVIOUS
    <3>2. new \in StoreRecords
      BY <2>3, <3>1 DEF StoreRecords
    <3>3. Edit(new)
      BY <2>6, <3>1 DEF Permit
    <3> QED
      BY <3>2, <3>3, EditsKeepRoute
  <2>7. CASE UNCHANGED vars
    BY <2>7 DEF Typed, Routed, vars
  <2> QED
    BY <2>1, <2>2, <2>4, <2>5, <2>6, <2>7 DEF Next, Handle, Done
<1> QED
  BY <1>1, <1>2, PTL DEF Spec

(* Every variable has its type; the route is one of those that were read,  *)
(* or none; who has held throughout has held at some time.                 *)
THEOREM TypesKept == Spec => []TypeOK
<1>1. Typed /\ Routed => TypeOK
  <2> SUFFICES ASSUME Typed, Routed PROVE TypeOK
    OBVIOUS
  <2>1. route \in Range(scenario.routes) \cup {NoRoute}
    BY MatchedTyped DEF Typed, Routed
  <2>2. steady.on \subseteq seen.on /\ steady.permitted \subseteq seen.permitted
    BY DEF Typed
  <2> QED
    BY <2>1, <2>2 DEF Typed, TypeOK
<1> QED
  BY <1>1, RoutingHolds, PTL

(* A request goes to a route that serves it and is as long as any that     *)
(* does, and is answered 404 only if none does: no document that was read  *)
(* is lost in the table, where two of them may share a key, and the loop   *)
(* of match_route misses none (load_routes and match_route of              *)
(* src/app/config_store.py).                                               *)
THEOREM GoesToLongest == Spec => []RoutedToLongest
<1>1. Typed /\ Routed => RoutedToLongest
  <2> SUFFICES ASSUME Typed, Routed, pc # "match" PROVE RoutedToLongest
    BY DEF RoutedToLongest
  <2>1. LongestOf(route, Range(scenario.routes)) /\ (route = NoRoute => verdict = "not_found")
    BY ScenariosTyped DEF Typed, Routed
  <2>2. NoRoute \notin Range(scenario.routes)
    BY ScenariosTyped, NoRouteIsNone DEF Typed, Range
  <2> QED
    BY <2>1, <2>2 DEF LongestOf, RoutedToLongest, Serving
<1> QED
  BY <1>1, RoutingHolds, PTL

(* The path upstream sees is the one that came or lacks the tenant once.   *)
(* It lacks the tenant of the route whenever neither ends in what the match *)
(* forgives: the key begins with the tenant, whether the prefix names it   *)
(* or the table put it in front, and what is cut from the end of the two   *)
(* texts does not reach it (_compose_cache_path, _normalize_match_path,    *)
(* strip_tenant_from_path).                                                *)
THEOREM TenantIsCutOnce == Spec => []TenantCutOnce
<1>1. Typed /\ Routed => TenantCutOnce
  <2> SUFFICES ASSUME Typed, Routed, verdict = "forwarded" PROVE TenantCutOnce
    BY DEF TenantCutOnce
  <2> DEFINE path == request.path
  <2>1. path \in Texts /\ LongestOf(Matched(scenario), Range(scenario.routes))
    BY ScenariosTyped DEF Typed, request
  <2>2. route = Matched(scenario) /\ route # NoRoute /\ tenant = TenantOf(route, request.tenant, path)
    BY DEF Routed, request
  <2>3. route \in RouteRecords /\ Serves(route)
    BY <2>1, <2>2, MatchedTyped DEF Typed, LongestOf
  <2>4. tenant \in Seq(Items) /\ path \in Seq(Items)
    BY <2>1, TextsAreKeys DEF Typed, Keys
  <2>5. CASE tenant # Anyone /\ IsPrefix(tenant, path)
    <3>1. path = tenant \o SubSeq(path, Len(tenant) + 1, Len(path))
      BY <2>4, <2>5, TextsJoin
    <3>2. Upstream = IF path = tenant THEN Root ELSE SubSeq(path, Len(tenant) + 1, Len(path))
      BY <2>5 DEF Upstream, Strip
    <3>3. Cut
      BY <3>1, <3>2 DEF Cut
    <3> QED
      BY <3>3 DEF TenantCutOnce
  <2>6. CASE tenant = Anyone \/ ~IsPrefix(tenant, path)
    <3>1. Upstream = path
      BY <2>6 DEF Upstream, Strip
    <3>2. ASSUME RouteTenant(route) # Anyone, Bare(tenant) = tenant, Exact(tenant), Exact(path)
          PROVE  FALSE
      <4>1. tenant = RouteTenant(route)
        BY <2>2, <3>2 DEF TenantOf
      <4>2. IsPrefix(tenant, path)
        BY <2>1, <2>3, <3>2, <4>1, BeginsWithTenant
      <4> QED
        BY <2>6, <3>2, <4>1, <4>2
    <3> QED
      BY <3>1, <3>2 DEF TenantCutOnce
  <2> QED
    BY <2>5, <2>6
<1> QED
  BY <1>1, RoutingHolds, PTL

(* The sequences of a finite set hold all of it. *)
LEMMA OrdersHoldAll ==
    ASSUME NEW X, NEW s \in Seq(X), NEW o \in SetToSeqs(Range(s))
    PROVE  o \in Seq(X) /\ Range(o) = Range(s)
<1> DEFINE S == Range(s)
           D == 1 .. Cardinality(S)
<1>1. S \subseteq X
  BY DEF Range
<1>2. IsFiniteSet(S)
  <2>1. s \in Surjection(1 .. Len(s), S)
    BY DEF Surjection, Range
  <2>2. IsFiniteSet(1 .. Len(s))
    BY FS_Interval
  <2> HIDE DEF S
  <2> QED
    BY <2>1, <2>2, FS_Surjection
<1>3. Cardinality(S) \in Nat
  BY <1>2, FS_CardinalityType
<1>4. o \in [D -> S] /\ \A i, j \in D : i # j => o[i] # o[j]
  BY DEF SetToSeqs
<1> HIDE DEF S
<1>5. o \in Injection(D, S)
  BY <1>4 DEF Injection, IsInjective
<1>6. IsFiniteSet(D) /\ Cardinality(D) = Cardinality(S)
  <2>1. PICK c \in Int : c = Cardinality(S) /\ c >= 0
    BY <1>3
  <2>2. IsFiniteSet(1 .. c) /\ Cardinality(1 .. c) = IF 1 > c THEN 0 ELSE c - 1 + 1
    BY FS_Interval
  <2>3. Cardinality(1 .. c) = c
    BY <2>1, <2>2
  <2> QED
    BY <2>1, <2>2, <2>3
<1>7. o \in Surjection(D, S)
  BY <1>2, <1>5, <1>6, FS_Injection
<1>8. Range(o) = S
  BY <1>4, <1>7 DEF Surjection, Range
<1>9. o \in Seq(X)
  <2>1. o \in [D -> X]
    BY <1>1, <1>4
  <2> QED
    BY <1>3, <2>1
<1> QED
  BY <1>8, <1>9 DEF S

(* Where no two routes of equal length serve a request, it goes to the     *)
(* same one in whatever order the documents came into the table: after a   *)
(* restart as after any sequence of updates (load_routes, match_route).    *)
THEOREM OrderDoesNotMatter == Spec => []HistoryDoesNotMatter
<1>1. Typed /\ Routed => HistoryDoesNotMatter
  <2> SUFFICES ASSUME Typed, Routed, pc # "match",
                      \A d, e \in Serving : Weight(d) = Weight(e) => d = e,
                      NEW other \in SetToSeqs(Range(scenario.routes))
               PROVE  MatchRoute(TableOf(other), request.method, request.path) = route
    BY DEF HistoryDoesNotMatter
  <2> DEFINE S == Range(scenario.routes)
             r == MatchRoute(TableOf(other), request.method, request.path)
  <2>1. scenario.routes \in Seq(RouteRecords) /\ request.path \in Texts /\ LongestOf(route, S)
    BY ScenariosTyped DEF Typed, Routed, request
  <2>2. other \in Seq(RouteRecords) /\ Range(other) = S
    BY <2>1, OrdersHoldAll
  <2>3. LongestOf(r, S)
    BY <2>1, <2>2, MatchServes
  <2>4. \A d \in S : Weight(d) \in Nat
    <3>1. \A d \in S : d \in RouteRecords
      BY <2>1 DEF Range
    <3> QED
      BY <2>1, <3>1, WeightTyped
  <2>5. Serving = {d \in S : Serves(d)}
    BY DEF Serving
  <2> HIDE DEF S, r
  <2>6. CASE \E d \in S : Serves(d)
    <3>1. /\ r \in S /\ Serves(r) /\ (\A d \in S : Serves(d) => Weight(d) <= Weight(r))
          /\ route \in S /\ Serves(route) /\ (\A d \in S : Serves(d) => Weight(d) <= Weight(route))
      BY <2>1, <2>3, <2>6 DEF LongestOf
    <3>2. Weight(r) = Weight(route)
      BY <2>4, <3>1
    <3>3. r = route
      BY <2>5, <3>1, <3>2
    <3> QED
      BY <3>3 DEF r
  <2>7. CASE ~\E d \in S : Serves(d)
    <3>1. r = NoRoute /\ route = NoRoute
      BY <2>1, <2>3, <2>7 DEF LongestOf
    <3> QED
      BY <3>1 DEF r
  <2> QED
    BY <2>6, <2>7
<1> QED
  BY <1>1, RoutingHolds, PTL
=============================================================================
