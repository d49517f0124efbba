---------------------------- MODULE ResponseCache ----------------------------
(* The response cache (src/app/plugins/cache.py) in Redis, as used by      *)
(* concurrent requests of app().                                           *)
(*                                                                         *)
(* before_request looks an answer up, after_response stores one, and each  *)
(* computes the key anew: extra["cache_key"] is set on a hit only, and a   *)
(* hit never comes to after_response.  In between a plugin that            *)
(* authenticates may put another tenant into the context.  Upstream the    *)
(* resource may change at any time, and an answer may take up to MaxDelay  *)
(* seconds to be stored or served, so a late request can overwrite a newer *)
(* answer with an older one.                                               *)
(*                                                                         *)
(* The key is the hash of one text, of which the client writes most.  A    *)
(* text is a sequence of pieces, ":" and "?" being pieces of their own;    *)
(* equal hashes are taken for equal texts.                                 *)
(*                                                                         *)
(* Of an upstream answer the module keeps for whom it was made, whether it *)
(* may be stored, and for how long it has been out of date.                *)
(***************************************************************************)
EXTENDS Integers, Sequences

CONSTANTS Coroutines,   \* coroutines of app()
          Pieces,       \* what texts are made of
          Tenants, Methods,
          Paths,        \* a path, percent-decoded, with its query string
          Listed,       \* how a path's route lists the plugin: "name" or "object"
          PluginTtl,    \* config.ttl_seconds of the plugin item, or None
          RouteTtl,     \* cache.ttl_seconds of the route, or None
          DefaultTtl,   \* CACHE_TTL_SECONDS
          Cases,        \* the requests that arrive
          MaxDelay,     \* bound: seconds from an answer or a hit to its use
          AgeCap,       \* bound: where the age of an answer stops
          None

Texts == Seq(Pieces)

(* f"{tenant}:{method}:{path}?{query_string}" *)
KeyText(t, m, p) == t \o <<":", m, ":">> \o p.path \o <<"?">> \o p.query

Keys == {KeyText(t, m, p) : t \in Tenants, m \in Methods, p \in Paths}

(* "large": a 200 longer than CACHE_MAX_BODY_BYTES.  "age": 0 while the    *)
(* resource is what the answer says, then 1 and a second more with time.   *)
Answers == [tenant : Tenants, method : Methods, path : Paths,
            kind : {"ok", "large", "error"}, age : 0..AgeCap]

(* "tenant": of the route, header or path.  "claim": of the token, on      *)
(* routes that have a plugin which takes the tenant from it; "first": that *)
(* plugin runs before the cache.                                           *)
AllCases == [method : Methods, path : Paths, tenant : Tenants,
             claim : Tenants \cup {None}, first : BOOLEAN]

(* _plugin_config: the route's own "cache" is looked at only if no plugin  *)
(* item is an object of this type.                                         *)
ConfiguredTtl(p) == IF Listed[p] = "object" THEN PluginTtl[p] ELSE RouteTtl[p]
TtlOf(p) == IF ConfiguredTtl(p) = None THEN DefaultTtl ELSE ConfiguredTtl(p)

ASSUME CacheAssumption ==
    /\ Listed \in [Paths -> {"name", "object"}]
    /\ None \notin Int
    /\ PluginTtl \in [Paths -> Int \cup {None}]
    /\ RouteTtl \in [Paths -> Int \cup {None}]
    /\ DefaultTtl \in Int
    /\ "GET" \in Methods /\ Methods \cup {":", "?"} \subseteq Pieces
    /\ Tenants \subseteq Texts /\ Paths \subseteq [path : Texts, query : Texts]
    /\ None \notin Answers /\ None \notin Tenants
    /\ Cases \subseteq AllCases
    /\ MaxDelay \in Nat /\ AgeCap \in Nat \ {0}
    /\ \A p \in Paths : TtlOf(p) + 2 * MaxDelay < AgeCap

VARIABLES stored,   \* Redis: what a key holds, or None
          pc,       \* how far a request has come
          in,       \* the request
          tenant,   \* context.tenant
          hit,      \* extra["cache_hit"]
          answer,   \* extra["response_data"]
          waited    \* seconds since the hit or the answer

request == <<pc, in, tenant, hit, answer, waited>>
cacheVars == <<stored, pc, in, tenant, hit, answer, waited>>

Entries == [answer : Answers, left : Nat]   \* left = 0: no expiry

(* The tenant a request has after the plugins that ran before the cache,   *)
(* and after all of them.                                                  *)
EarlyTenant(c) == IF c.first /\ c.claim # None THEN c.claim ELSE c.tenant
FinalTenant(c) == IF c.claim # None THEN c.claim ELSE c.tenant

-----------------------------------------------------------------------------
(* Plausible defects of the operators below, used by no action. *)

StoreKeyLookedUp(s) ==                        \* the key remembered on a miss too
    KeyText(EarlyTenant(in[s]), in[s].method, in[s].path)
EntryOfForever(s) == [answer |-> answer[s], left |-> 0]            \* SET without EX
EntryOfLonger(s) == [answer |-> answer[s], left |-> TtlOf(in[s].path) + DefaultTtl]

-----------------------------------------------------------------------------

(* _cache_key, at the look-up and at the write. *)
LookupKey(s) == KeyText(tenant[s], in[s].method, in[s].path)
StoreKey(s) == KeyText(tenant[s], in[s].method, in[s].path)

CacheInit ==
    /\ stored = [k \in Keys |-> None]
    /\ pc = [s \in Coroutines |-> "idle"]
    /\ in = [s \in Coroutines |-> None]
    /\ tenant = [s \in Coroutines |-> None]
    /\ hit = [s \in Coroutines |-> None]
    /\ answer = [s \in Coroutines |-> None]
    /\ waited = [s \in Coroutines |-> 0]

(* A request comes to the cache's before_request, which skips all but GET. *)
Arrive(s, c) ==
    /\ pc[s] = "idle"
    /\ pc' = [pc EXCEPT ![s] = IF c.method = "GET" THEN "lookup" ELSE "hooks"]
    /\ in' = [in EXCEPT ![s] = c]
    /\ tenant' = [tenant EXCEPT ![s] = EarlyTenant(c)]
    /\ UNCHANGED <<stored, hit, answer, waited>>

Lookup(s) ==
    /\ pc[s] = "lookup"
    /\ LET found == stored[LookupKey(s)] IN
         hit' = [hit EXCEPT ![s] = IF found = None THEN None ELSE found.answer]
    /\ pc' = [pc EXCEPT ![s] = "hooks"]
    /\ UNCHANGED <<stored, in, tenant, answer, waited>>

(* app() is done with a request. *)
End(s) ==
    /\ pc' = [pc EXCEPT ![s] = "idle"]
    /\ in' = [in EXCEPT ![s] = None]
    /\ tenant' = [tenant EXCEPT ![s] = None]
    /\ hit' = [hit EXCEPT ![s] = None]
    /\ answer' = [answer EXCEPT ![s] = None]
    /\ waited' = [waited EXCEPT ![s] = 0]

(* Redis fails the look-up, or another hook refuses the request. *)
Refuse(s) == pc[s] \in {"lookup", "hooks"} /\ End(s) /\ UNCHANGED stored

(* The other hooks have run; a hit is sent and nothing runs after it. *)
Serve(s) == pc[s] = "hooks" /\ hit[s] # None /\ End(s) /\ UNCHANGED stored

(* No hit: upstream answers, for the tenant the hooks have settled on. *)
ForwardMiss(s, kind) ==
    /\ pc[s] = "hooks" /\ hit[s] = None
    /\ LET t == FinalTenant(in[s]) IN
         /\ tenant' = [tenant EXCEPT ![s] = t]
         /\ answer' = [answer EXCEPT ![s] =
                         [tenant |-> t, method |-> in[s].method, path |-> in[s].path,
                          kind |-> kind, age |-> 0]]
    /\ pc' = [pc EXCEPT ![s] = "after"]
    /\ waited' = [waited EXCEPT ![s] = 0]
    /\ UNCHANGED <<stored, in, hit>>

(* The checks of after_response. *)
MayStore(s) ==
    in[s].method = "GET" /\ answer[s].kind = "ok" /\ TtlOf(in[s].path) > 0

EntryOf(s) == [answer |-> answer[s], left |-> TtlOf(in[s].path)]

StoreAnswer(s) ==
    /\ pc[s] = "after"
    /\ MayStore(s)
    /\ stored' = [stored EXCEPT ![StoreKey(s)] = EntryOf(s)]
    /\ End(s)

(* Nothing to store, a hook that ran before this one raised, or Redis      *)
(* failed: the client has its answer already.                              *)
NotStored(s) == pc[s] = "after" /\ End(s) /\ UNCHANGED stored

-----------------------------------------------------------------------------
(* Upstream, Redis and time: external. *)

Outdated(a, p) == IF a # None /\ a.path = p /\ a.age = 0 THEN [a EXCEPT !.age = 1] ELSE a
Older(a) == IF a # None /\ a.age \in 1..(AgeCap - 1) THEN [a EXCEPT !.age = @ + 1] ELSE a

(* The resource behind a path changes: every answer made of it is old. *)
Change(p) ==
    /\ stored' = [k \in Keys |-> IF stored[k] = None THEN None
                                 ELSE [stored[k] EXCEPT !.answer = Outdated(@, p)]]
    /\ hit' = [s \in Coroutines |-> Outdated(hit[s], p)]
    /\ answer' = [s \in Coroutines |-> Outdated(answer[s], p)]
    /\ UNCHANGED <<pc, in, tenant, waited>>

(* A second of an entry's life in Redis. *)
Expire(e) ==
    IF e = None \/ e.left = 1 THEN None
    ELSE [answer |-> Older(e.answer), left |-> IF e.left = 0 THEN 0 ELSE e.left - 1]

CacheTick ==
    /\ \A s \in Coroutines : waited[s] < MaxDelay \/ (hit[s] = None /\ answer[s] = None)
    /\ stored' = [k \in Keys |-> Expire(stored[k])]
    /\ hit' = [s \in Coroutines |-> Older(hit[s])]
    /\ answer' = [s \in Coroutines |-> Older(answer[s])]
    /\ waited' = [s \in Coroutines |-> IF hit[s] = None /\ answer[s] = None THEN waited[s]
                                     ELSE waited[s] + 1]
    /\ UNCHANGED <<pc, in, tenant>>

Handle(s) ==
    \/ Lookup(s) \/ Serve(s) \/ StoreAnswer(s) \/ NotStored(s)
    \/ \E kind \in {"ok", "large", "error"} : ForwardMiss(s, kind)

CacheNext ==
    \/ \E s \in Coroutines : Handle(s) \/ Refuse(s) \/ \E c \in Cases : Arrive(s, c)
    \/ \E p \in Paths : Change(p)
    \/ CacheTick

CacheSpec == CacheInit /\ [][CacheNext]_cacheVars

(* Requests go on and time passes; requests need not come. *)
FairCacheSpec ==
    CacheSpec /\ WF_cacheVars(CacheTick) /\ \A s \in Coroutines : WF_cacheVars(Handle(s))

-----------------------------------------------------------------------------

CacheTypeOK ==
    /\ stored \in [Keys -> Entries \cup {None}]
    /\ pc \in [Coroutines -> {"idle", "lookup", "hooks", "after"}]
    /\ in \in [Coroutines -> Cases \cup {None}]
    /\ tenant \in [Coroutines -> Tenants \cup {None}]
    /\ hit \in [Coroutines -> Answers \cup {None}]
    /\ answer \in [Coroutines -> Answers \cup {None}]
    /\ waited \in [Coroutines -> 0..MaxDelay]

(* A hit is an answer upstream once gave, 200 and within the size limit,   *)
(* to a GET of the same tenant, path and query, whichever tenant the       *)
(* requests that stored and looked up had before or after, and in whatever *)
(* order they ran.  Only where a tenant has a ":" in it or a decoded path  *)
(* a "?" may it have been made for another request, whose key reads alike. *)
Plain(t, p) ==
    (\A i \in DOMAIN t : t[i] # ":") /\ (\A i \in DOMAIN p.path : p.path[i] # "?")

HitIsOwn ==
    \A s \in Coroutines : hit[s] # None =>
        LET t == EarlyTenant(in[s]) IN
        /\ hit[s].method = "GET" /\ in[s].method = "GET" /\ hit[s].kind = "ok"
        /\ KeyText(hit[s].tenant, "GET", hit[s].path) = KeyText(t, "GET", in[s].path)
        /\ Plain(t, in[s].path) /\ Plain(hit[s].tenant, hit[s].path)
               => hit[s].tenant = t /\ hit[s].path = in[s].path

(* A hit is never out of date for longer than the TTL of the route it was  *)
(* stored by and the two delays, however often an older answer overwrote a *)
(* newer one.                                                              *)
StalenessBounded ==
    \A s \in Coroutines : hit[s] # None =>
        hit[s].age <= TtlOf(hit[s].path) + 2 * MaxDelay

(* Once upstream stops changing, the cache ends up holding nothing that is *)
(* out of date, though requests go on.                                     *)
CacheConverges ==
    (<>[][\A p \in Paths : ~Change(p)]_cacheVars)
        => <>[](\A k \in Keys : stored[k] # None => stored[k].answer.age = 0)

=============================================================================
