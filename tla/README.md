# Fluxium Gateway in TLA+

TLA+ modules of the gateway in `src/`, TLC configurations that check them on
small instances, and TLAPS proofs about them for all instances. The reference
is the code; a doc or a comment is quoted only as something to compare it with.

    tlc -config MCRouteConfig.cfg MCRouteConfig.tla      # one run
    tlapm RouteConfigProofs.tla                          # one module's proofs

`PROJECT.json` lists the components, the runs, for each property a mutant of
the model that breaks it, the source lines behind each definition, the hazards
and the theorems.

## 1. The system

One gateway process is one asyncio event loop. Coroutines interleave only at an
`await`, so what runs between two awaits is one action in the modules. What the
coroutines share:

| state | where | changed by |
| --- | --- | --- |
| `_routes_cache`, the route table | `app/config_store.py` | full loads, `subscribe_config_updates` |
| `plugins.plugins`, the plugin registry | `app/main.py`, `plugins/engine.py` | plugin reloads |
| `CIRCUIT_BREAKER_STATE` | `plugins/circuit_breaker.py` | every call through the breaker |
| `TOKEN_CACHE` | `plugins/forward_auth.py` | every token fetch and refresh |
| lock, process and pipes of a sandboxed plugin | `plugins/dynamic.py`, `plugin_worker.py` | every hook call |
| the aiohttp session | `handler_http.py` | first use, shutdown |

Outside the process: MongoDB (routes, plugins, consumers, permissions, usage),
Redis (rate limit counters, cached responses, the channel `config_updates`), an
OAuth2 token endpoint, an event broker, upstream services.

**Flow of a request** (`app()`): match the route, find the tenant, `run_before`
(hooks by order: access, rate limit, cache look-up, sandboxed plugins), answer
from the cache if a hook set it, otherwise `run_forward` (nested
`around_request`: breaker, retry, forward_auth, body and header plugins,
upstream innermost), send the answer, `run_after` (hooks in reverse), metrics,
usage. Admin requests save plugin documents and reload the registry while other
requests are anywhere in that flow; the listener changes the route table.

### Components

| component | state and operations | hard behaviour | what makes it correct | module |
| --- | --- | --- | --- | --- |
| circuit breaker | failures and `opened_until` per key; one `around_request` | overlapping calls, stragglers, routes of different thresholds on one key | counts agree with the outage, open ends, only stragglers shorten it | `CircuitBreaker` |
| route table | table; `load_routes`, event handling, startup | edits during a load, lost events, deletes of what is gone | never an older version, no half table, what was announced is served | `RouteConfig` |
| route matching | the table's order | templates, longest prefix, tenant in or outside the prefix | the longest route that serves wins, whatever the history of the table | `RouteMatching`, `Admission` |
| access decisions | collections of consumers and permissions | two queries per decision, changes between them, plugins that change the tenant | who passes was entitled to, nobody is refused for a change | `Admission` |
| plugin engine | registry; normalise, order, three phases | each phase looks the registry up anew | none bypassed, order and mirror | `PluginEngine` |
| request pipeline | per-request context | every hook may raise; reloads between phases | refused goes no further, accounted for once | `RequestPipeline`, `RequestContract` |
| sandboxed plugins | lock, process, pipes | worker deaths, unread lines, waiting calls | replies are not confused, every call ends | `PluginWorker`, `HookContract` |
| plugin administration | collection, registry; save, list, reload | look-up and insert are two calls, reloads overlap saves | one document per type, what was saved is served | `PluginAdmin` |
| rate limit | Redis counters; stamp, INCR, EXPIRE | three steps, each may fail, be repeated or be late | limit neither exceeded nor applied early, no counter for ever | `RateLimit` |
| upstream auth, retry | token cache; fetch, refresh, repeat | others' refreshes, slow endpoint, nesting of the two | tokens not kept too long, calls bounded, ends | `UpstreamAuth` |
| response cache | keys and TTL in Redis; look up, store | key computed twice, tenant changed between; older answers overwrite newer | a hit belongs to the request, staleness bounded | `ResponseCache` |
| body and header plugins, event bridge | the request's body and headers | any nesting, retry around what has effects | checked, rewritten and sent once as configured | `ForwardChain` |
| upstream call, session | shared session | shutdown during requests | environment of three modules | partly |
| life cycle | startup and shutdown tasks | requests before the load | startup in `RouteConfig` | partly |
| plugin base and errors | exception types | `PluginError` or anything else | in `RequestPipeline` | partly |
| metrics, usage | counters | errors between answer and count | in `RequestPipeline` | partly |
| request logging plugin, structured logging, telemetry, doc endpoints | none | none | formatting and I/O | not modelled |

## 2. The modules

Each component module has its state as variables, one action per handler or per
stretch of code between two awaits, and its properties at the end. Operators
headed "plausible defects" are used by no action: each replaces a named
operator of the module in a mutant and must break a property. Variables
commented `history` record what the properties speak of; no guard reads them
except for a bound (`MaxUpstream`, `CallsCap`, `StreakCap`, `AgeCap`).

**`CircuitBreaker`** A slot is a coroutine in `around_request`; `ShortCircuit`
and `Admit` are the code before `await call_next()`, `Succeed` and `Fail` the
code after it. The clock is kept as seconds left of `opened_until`, and `Tick`
takes one away from every key. A route is a configuration (threshold, timeout)
and `KeyOf` its entry in the dictionary: the code's key has no tenant, so
tenants may share one. History: failures in a row, whether the key was opened
since the last success, which calls were admitted since.

**`RouteConfig`** `ReadNext`/`Swap` are the cursor and the final assignment of
`load_routes`, run by two tasks: `startup()` and the listener. `Receive` takes
a message, drops it (`_should_process_event`), re-reads a document or starts a
full load; `Apply` changes the table after the awaited read. Who edits routes
is external: `Store`, `Remove`, `Announce` (after the change) and
`AnnounceFirst` (before a removal), restricted by `Habits`, so that a run says
what it assumes of the editor. A message published while nobody subscribes is
lost, and so is one whose environment the gateway does not count as its own;
`OurEnvs` are the names by which the editor means it. History: `left`, keys an
edit took from a document, and `lost`, documents whose last announcement the
listener did not get. `ListenerDies` ends the task for good, as the code does.

**`RouteMatching`**, **`Admission`** The first gives composition of tenant and
prefix, the order of the table's keys, static and template matching and the
search by length as operators. Paths, prefixes and tenants are sequences of the
pieces between slashes, empty ones included, so that what the code strips where
it composes a key and where it matches (`Bare`, `Normal`; white space by `Trim`) and
does not where it cuts the tenant (`Strip`) stays three things. The second is
`app()` up to `run_forward`: `Match` finds route and tenant, then each access
plugin decides in the order of the list; `CheckKey`, `LookUpHashes` and
`CheckPermission` hold the awaited queries, between which `Switch`, `Hash` and
`Permit` change the collections. History: what held at some time (`seen`) and
throughout (`steady`) while the request was handled.

**`PluginEngine`**, **`RequestPipeline`** The first gives normalisation, order
and the chain as operators; the second is `app()` as a state machine over them:
`pc` is how far it has come, `todo` the hooks of the current phase, `chain` and
`depth` the nesting of `execute()`. A hook returns, raises a `PluginError`,
raises anything else, or (a cache plugin) sets the hit. `Reload` changes the
registry between any two steps. `Leave` at the place of the upstream is
`foward_call` with its own catch. `escaped` is an exception that leaves `app()`. `blank` is a tenant of
nothing but white space (`GET /%20/x` on a route of no tenant): it is counted,
and `record_gateway_request` does not bill it. A bill that raises may have been
written, its reply lost.

**`RequestContract`** What `app()` promises of each request, told without the
plugins: upstream may be called while nothing is answered; then one answer, a
refusal (the end, and only if upstream was not called) or another (`"cached"`
only without upstream); one count after the answer, one bill after the count unless the
tenant is `blank`; an exception may leave at any moment. `Contract` in `RequestPipeline` is the
refinement mapping: answer, calls and accounts are the pipeline's own, and every
place of `app()` before the end is `"open"`.

**`HookContract`**, **`PluginWorker`** The contract: calls are served one at a
time in the order asked for, pass only if approved, and all end. The worker
module has the proxy (`_ensure_proc`, `_send`, the lock), the pipes as
sequences of messages, and the worker's loop; `Die` is the process ending at
any moment, `Reap` asyncio noticing it. `Contract` is the refinement mapping:
queue = holder followed by the waiters; approved = what the plugin judged.

**`RateLimit`** `Stamp`, `Increment`, `Expire` are the three awaits of
`check_rate_limit`; `IncrementRaises` and `ExpireRaises` their failures.
redis-py repeats a command that got no reply, so one INCR may count more than
once. `Effective` folds overrides as `_resolve_limit_config` does.

**`PluginAdmin`** `Find`/`Write` are the two awaited calls of `save_plugin`,
`List`/`Register` the two halves of a reload. A call may fail, and MongoDB may
have done the write of a call that failed. Nothing keeps two saves or two reloads
from overlapping. Three histories say what an overlap did: `raced` has the types
of which two pending saves found no document, `before` and `late` which reloads
were overtaken by one that listed later.

**`UpstreamAuth`** `Reuse`, `Post`, `Issue`, `Store` are `_fetch_oauth_token`
cut at its await; `RejectedOnce` is the refresh after a 401 with its
`TOKEN_CACHE.pop`; `Again` is the loop of `retry`, inside or outside
forward_auth by the route's orders. Tokens are numbered; the endpoint issues,
the server revokes and the upstream rejects the expired and the revoked. A
reply says how long its token lasts or does not (`Replies`): then the code
assumes `DefaultLife` (300 s), which `CacheEndsInTime` leaves to it.

**`ResponseCache`** A request looks an answer up (`before_request`), goes
upstream, and stores (`after_response`) under a key computed anew; an identity
plugin before or after the cache may have put another tenant into the context.
The key is the text that the code hashes, a sequence of pieces of which ":" and
"?" are two, so that two requests may have one key. `CacheTick` lets keys expire
and answers that the resource has outgrown age; `Change` is the resource
changing. An answer is kept as whose it is, whether it may be stored and for how
long it has been out of date.

**`ForwardChain`** One request going down and up the nested forward plugins:
`at` is the plugin entered or returned to, `body` and `headers` the one context
they all work on, so that an attempt of `retry` finds what the attempt before
left. A body is its fields, a header is who gave it its value: transformation
may set or remove any of them and forward_auth write any (`target`), the
correlation id too. CORS headers of an answer are two, one that `cors` always
sets and one that it sets if configured; upstream may set either, and
`MergedCors` replaces what `cors` sets. Upstream answers 200, 503 or raises.
redis-py repeats PUBLISH and XADD when the reply is lost: one call of `Publish`
makes one event or up to `MaxRepeats` more.

What composes what: `RequestPipeline` extends `PluginEngine`; `Admission`
extends `RouteMatching`; `PluginWorker` instantiates `HookContract`
and `RequestPipeline` `RequestContract`, the abstract specifications they
implement; every `MC...` module extends the module it instantiates and only gives values; every
`...Proofs` module extends the module it proves about. Breaker, upstream auth
and the chain of forward plugins appear in the pipeline as forward plugins that
may call next any number of times; worker, rate limit, cache and access plugins
as hooks that return or raise; reloads as `Reload`. The component modules say
when they do so.

## 3. The runs

Every passing run finishes in a few minutes at most. Deadlock is checked for
the breaker, the cache, the forward chain and admission (whose ends stutter);
in the others requests are finite and the system stops when all have ended.

| run | checks | instance and bounds, and why they are enough |
| --- | --- | --- |
| `breaker` | `OutageIsNoticed`, `OpenIsEarned`, `OpenExpires`, `OnlyStragglersShorten` | three slots; two routes on one key with thresholds 3 and 2 and timeouts 1 and 2, a third route alone. Three overlapping calls are needed to open, be a straggler and fail anew. `StreakCap` = 4 is above every threshold; past it the history only stays |
| `routes` | `AnnouncedRoutesServed`, `NoVersionRegression`, `UnchangedRoutesStay`, `TableConverges` | two documents, two methods, two paths: an edit can move, gain and lose a key, and two documents can share one. All habits of the editor, faults included; announcements with and without tenant, of two environments of which one is ours; two edits, one waiting event |
| `pipeline` | `NoneBypassed`, `RefusedGoesNoFurther`, `HooksOrdered`, `AccountedOnce`, `KeepsContract` | one request (requests share only the registry), two plugin lists with equal orders, order 0 and -1, bare names and ignored elements; reloads that add types and that change a phase; three calls of the upstream |
| `worker` | `PassedWasApproved`, `EveryCallEnds`, `KeepsContract` | three calls: one whose exchange goes wrong, one that would inherit the leftovers, one queued behind |
| `rate_limit` | `AtMostLimit`, `RefusedOnlyOverLimit`, `NoOrphanCounter` | five requests: three of one consumer, one of hers under a tag with another limit, one with window 0; windows of 2 s over 3 s, calls up to 1 s late, each INCR counted up to twice |
| `plugin_admin` | `OneDocPerType`, `SavedIsServed` | two types (one stored as forward), three saves, three reloads, all overlapping: two saves that both insert and one that updates after them, a reload overtaken and one after both |
| `upstream_auth` | `CacheEndsInTime`, `CallsBounded`, `RejectedUnderNewToken`, `EveryRequestEnds` | two requests, two attempts, one route with forward_auth outside retry; tokens of 2 s, expired at once, or of 1 s unstated where 3 s are assumed, 1 s skew, two revocations |
| `response_cache` | `HitIsOwn`, `StalenessBounded`, `CacheConverges` | two requests at a time, any number one after the other; two tenants, three paths of two routes (default TTL 1, TTL -1), of which two requests have one key; identity plugins before and after the cache; answers up to 1 s late on either side. `AgeCap` = 4 is above every age the bound allows |
| `forward_chain` | `TypeOK`, `ClientValuesKept`, `SentWasChecked`, `AnswerMarked`, `PublishedFirst`, `RetriesSound` | every chain of at most two of the eight plugins, of three with retry, and four longer ones, six configurations (renames that hand a value on, that undo each other and that fill a default's place; headers set, removed and written by forward_auth, the id and the content type among them), 12 clients, two attempts, each event published up to twice |
| `admission` | `TypeOK`, `RoutedToLongest`, `HistoryDoesNotMatter`, `TenantCutOnce`, `Entitled`, `NoFalseRefusal` | every table of up to two of twelve routes and of three of seven, in every order, against eleven paths, unclean tenants, prefixes and paths among them; three routes behind ten lists of access plugins, five configurations, three consumers of whom two share a secret across tenants; two edits of the collections |
| `routes_gap` | violates `TableFollowsStore` | one edit while the process starts |
| `worker_prints` | violates `PassedWasApproved` | `Prints` = TRUE |

Properties worth reading twice:

- `AnnouncedRoutesServed` and `TableConverges` speak of `OwedKeys`, the keys the
  gateway can be expected to serve rightly: the code cannot know of a lost
  announcement and has no way to drop a key that an edit left.
- `AtMostLimit` leaves out requests whose INCR came after the end of their
  window (`late`): those start the expired counter again.
- `OnlyStragglersShorten` says what is left of the recovery timeout when calls
  of before the opening come back.
- `ClientValuesKept` and `AttemptsAlike` hold for `RewrittenOnce` chains only: see
  below for retry around an unstable transformation.
- `HistoryDoesNotMatter` runs the match again over every order in which the same
  routes could have come into the dictionary.

### Fairness

- `CircuitBreaker!FairSpec`: WF of `Tick` only. Time passes; nothing is assumed
  of the upstream, so `OpenExpires` holds with calls that never return.
- `RouteConfig!FairSpec`: WF of the startup load and of the listener (the event
  loop runs both tasks and MongoDB answers) and of `Publish` (the editor
  announces what it stored). No fairness on storing, removing or announcing
  before a removal.
- `FairWorkerSpec` of `PluginWorker`: WF of the proxy's steps (event loop) and of the
  worker's (`Work`). The second assumes that the plugin's own code ends: the
  proxy sets no time limit, so a hook that hangs holds the lock for ever.
- `UpstreamAuth!FairSpec`: WF of each request's steps. Back-off sleeps end, the
  token request has a timeout and so has aiohttp's call of the upstream (five
  minutes unless set otherwise). Time and revocations need not happen.
- `FairCacheSpec` of `ResponseCache`: WF of `CacheTick` and of each request's `Handle`: time
  passes, Redis and upstream answer. `CacheConverges` assumes besides that the
  resources change finitely often.
- The other modules state safety only and have no fairness.

### Findings

- **Edits during start-up are lost** (`routes_gap`). `startup()` loads, then
  subscribes; what is announced in between changes nothing and nothing reloads.
- **Output of plugin code is taken for a reply** (`worker_prints`). A plugin
  that prints while it is built shifts every later reply by one call.

Other behaviour that a reader may not expect; each shows in the model when a
guard of a property or a constant is changed, and no separate run is kept:

- A call admitted before the circuit opened closes it when it succeeds
  (`circuit_breaker.py:68`), however little of the recovery timeout has passed:
  `OnlyStragglersShorten` without the stragglers fails.
- A request whose `after_response` raises anything but a `PluginError` (a sandboxed
  plugin raises `RuntimeError`) is answered and not counted (`main.py:563`).
- An edit that leaves a path or a method leaves the old key in the table; a
  delete event that arrives after the document is gone finds nothing and the
  route is served on; an upsert that names the tenant of a document without
  `tenant_id` never finds it. `MCRouteConfigGap.cfg` with `Habits =
  {"drop_key"}` or `{"remove_first"}` or `Tenanted = {r1}` shows each.
- Two saves of a new type at once insert it twice (`OneDocPerType` without
  `=> t \in raced`), and a later save updates a document that a reload then
  hides (`SavedIsServed` without `~Doubled(t) =>`). The older of two listings may
  be registered last and bring old code back (`loaded` without its case for
  `late`).
- An INCR that arrives after the counter of its window expired starts it again
  (`RateLimit!AtMostLimit` without `\ late`).
- A reload that changes a plugin's phase between `run_before` and `run_forward`
  lets a request past it (`RequestPipeline!NoneBypassed` with
  `steady' = steady` in `Reload`).
- The comment "STATIC MATCH" as the prioritised one (`config_store.py:232`) does
  not hold: a matching template whose text is longer wins, and at equal length
  the one that came into the table first.
- The match forgives what the cut does not: with a `tenant_id` of "/acme", or a
  path that ends in white space (`GET /acme%20`), the route is found and upstream
  gets the path with the tenant on it (`TenantCutOnce` without its conditions).
- `api_key` and `consumer_acl` read `tenant_id` alone. A route that has its tenant in
  the field `tenant` is open, behind `jwt_auth`, to the consumers of whichever
  tenant the token names (`EntitledTenant`).
- A route without a tenant takes the first path segment for the tenant, and
  cuts it off (`main.py:397`), if the path does not begin with two slashes.
- When the plugin item of a route is an object, the route's own
  `cache.ttl_seconds` is not looked at (`cache.py`), as in the README's example.
- The key of the response cache is ambiguous where a tenant has a ":" in it or a
  percent-decoded path a "?" (`cache.py:27-30`): `HitIsOwn` without `Plain` fails,
  and the answer served may be of another tenant's or path's TTL.
- A response cache that runs before the plugin that finds the identity serves
  by the tenant the request named (`EarlyTenant`).
- `retry` around `transformation` rewrites what it rewrote before: the same
  again if the rewriting is `Stable`, something else otherwise. `retry` around
  `event_bridge` publishes once per attempt, around `correlation_id` makes an
  id per attempt. A `transformation` below `correlation_id` that sets or removes
  its header, or a `forward_auth` with it for target, lets client and upstream
  be told different ids (the exceptions of `CorrelationAgrees`).
- `consumer_acl` before `api_key` knows no consumer, and with `allow_anonymous`
  lets everybody by. An answer made of an error raised inside `cors` carries no CORS headers.

## 4. The proofs

A proof module states an inductive invariant, shows with one lemma per action
(or per conjunct) that every step keeps it, and draws the properties from it.
TLC checked each invariant on its run's instance before it was proved. No
constant is bounded: the theorems hold for all values that satisfy the
`...Assumption`s of the module, and for the few hypotheses named below.

| module | theorems | the argument |
| --- | --- | --- |
| `CircuitBreakerProofs` | `TypeCorrect`, `CounterBounded`, `OutagesNoticed`, `OpenEarned`, `OpenCircuitAdmitsNone`, `StragglersShorten` | before a trip the counter is the number of failures in a row, so reaching the threshold trips (`CounterIsStreak`); a trip is remembered with its cause until a success (`TripIsEarned`) |
| `RouteConfigProofs` | `VersionsOnlyRise`, `StoredRoutesStay` | what the listener has read and not applied is not newer than the collection (`KnownIsOld`) and not older than the table (`Overtakes`); a full load has by now all that was there when it began (`Kept`) |
| | `AnnouncedIsServed` | what is owed at a key and not served there yet is on its way (`Delivery`): in a waiting event, in what the listener has read, or in what its load has still to read |
| `RequestPipelineProofs` | `RefusalsAreFinal`, `AccountsAgree`, `TypesCorrect` | what is so of a request at each place of `app()` (`Fits`); a step moves one request |
| | `ImplementsContract` | step by step: `Fits` says at which places a request is not answered, not counted, not billed, which is what the contract's action asks for (`BeforeImplements`, `ForwardImplements`, `AfterImplements`); the other requests end neither sooner nor later for it (`StateStays`) |
| | `PluginsAreNotBypassed` | a plugin registered under one phase since the request came is still to run, has run, or is in the chain above the call (`Cover`) |
| | `HooksKeepOrder` | what a phase has run and what it has still to run are together the route's list, filtered by what was registered, in its order or reversed (`Align`) |
| `AdmissionProofs` | `EntitledAlways`, `NobodyIsRefusedFalsely` | what `api_key` found holds from its place in the list on (`ConsumerFound`), what `consumer_acl` asked from its own (`PermissionChecked`), and the tenant they ask for is the token's once `jwt_auth` has run (`TenantFollows`); a consumer that was on throughout has not been missed by the first of the two queries unless its key was hashed since, and then the second finds it (`NotMissed`) |
| | `GoesToLongest`, `OrderDoesNotMatter` | each fold of `RouteMatching` goes through its stages (`ComesTo`): the length of a text below another is the sum of both (`ScoreAdds`), the table has a row for every key of the documents and no other (`TableKeeps`), the loop's best is a best of the rows so far (`FoundIsBest`); and the key of a document matches and weighs what the document does (`ServingRows`, from `MatchesBelow` and `TidyBelow`). A request keeps what it was matched to (`Routed`) |
| | `TypesKept`, `TenantIsCutOnce` | the same: the route is one of the documents, and what a composed prefix matches begins with its tenant (`BeginsWithTenant`), which is what is cut if neither needed forgiving (`Exact`) |
| `ForwardChainProofs` | `ChecksBeforeSending`, `EventsComeFirst`, `AnswersAreMarked` | for every place of the chain what is so of body, headers, events and answer between that place and upstream (`Checked`, `Announced`, `CorsChecked`, `CorsCarried`, `IdCarried`, `FailedLast`). A retry goes round again only through what is below it |
| | `TypesKept` | a place is come by on the way down once, or once in each attempt if `retry` is above it, and an event is published at most `MaxRepeats` times more than that (`Counts`, `Most`) |
| | `ClientValuesAreKept` | `json_rename` goes through the stages of its fold (`Stages`): a value is the client's where it was or by a renaming (`ValuesAreTheirs`), a name given and not taken again keeps it (`TakenStays`), one taken and not given again is gone (`MovedIsGone`), so that a `Stable` rewriting done twice is that done once (`RewritingAgain`). Between attempts the body is the client's or the rewritten one (`BodiesFit`) |
| | `RetriesAreSound` | below the innermost plugin that writes a header, the header is what that plugin writes (`HeadersFit`; the content type that transformation adds counts as written where no plugin above gives one), and an id outside `retry` is made before the first attempt (`IdStays`) |
| `RateLimitProofs` | `LimitHolds` | while the window of a counter lasts, the counter is at least the number of requests it let through (`Accounted`), because it does not expire earlier (`OutlivesWindow`) |
| | `RefusalsAreEarned` | the counter is at most what the requests of its key have added, each as often as its INCR may have been done (`CountersAccrue`). The sum over a set of requests is taken apart one request at a time |
| | `OrphansAreExplained` | by the property itself, with the types |
| `UpstreamAuthProofs` | `CachedTokensEnd`, `CallsAreBounded`, `RejectionsAreFinal` | a token on its way to the cache ends in time (`ReplyEndsInTime`); calls made follow from the attempt and the refresh, by nesting (`CallsCounted`); after a 401 tokens are newer than it (`RefreshedIsNew`) |
| `UpstreamAuthProofs`, of `ResponseCache` | `HitsAreOwn`, `HitsAreYoung` | a key reads like the key of the request whose answer it holds (`EntriesOwn`), and a text is cut in one way only at the first of a mark (`CutOnce`), so that plain texts of one key are equal; age and life left of an entry add up to at most TTL plus delay (`EntriesYoung`) |
| `PluginAdminProofs` | `StoredOncePerType` | a save that found none is alone with that and right until it writes (`InsertsOnce`), of every type not in `raced`; a place that was found keeps its type (`FoundStands`) |
| | `SavesAreServed` | of a type stored once, a list is nowhere newer than the collection nor than a list read later, and nowhere older than the registry unless it is overtaken (`Kept`); it has what was saved when it was read (`ListServes`) |
| `PluginAdminProofs`, of `PluginWorker` | `WorkerTypes`, `RepliesNotConfused`, `ImplementsContract` | replies carry no identifier; what protects them is that the pipes hold nothing but the exchange the holder of the lock waits for (`Exchange`, `NoExchange`), because a holder leaves early only when the process is gone, and a new process has new pipes. `Unserved` keeps a call from being exchanged twice, `Fresh` a judgement from being taken back, which makes the worker's answer an `Approve` of the contract |

The provers know a fold only by the recursive function behind it, so each one
needs an induction of its own, by the smallest counterexample (`UpTo`,
`FoldExists`). `AdmissionProofs` and `ForwardChainProofs` each begin it from the
same few lemmas, and `RateLimitProofs` has it for a sum over a set.

Two proof modules have a second part about another component: the response
cache beside the token cache (both are what the gateway keeps of upstream), and
the worker beside the administration that registers what runs in it. They
EXTEND both components, which is why `PluginWorker` and `ResponseCache` name
their specifications `WorkerSpec` and `CacheSpec`.

Hypotheses besides the modules' assumptions, each of which some instance lacks:

- `RepliesNotConfused` and the worker's `ImplementsContract` assume `Prints =
  FALSE`; with a plugin that prints the first is false (`worker_prints`). The
  second is the safety part of `PluginWorker!KeepsContract`: initial states map to initial states, and
  each step to a step of `HookContract` or a stutter. The pipeline's
  `ImplementsContract` needs no hypothesis and is the whole of its `KeepsContract`.
- `AnnouncedIsServed` assumes that the names by which the editor means this
  gateway are names the gateway counts as its own (`OursIsMeant`); where they are
  not, the gateway drops what is meant for it.
- `EntitledAlways` and `NobodyIsRefusedFalsely` assume that no route lists `api_key`
  twice (`ListedOnce`): with `jwt_auth` between the two, the consumer that the
  first found for another tenant could stay.

Only model-checked, not proved:

- liveness, which is out of the prover's reach: `OpenExpires`, `EveryCallEnds`,
  `TableConverges`, `EveryRequestEnds`, `CacheConverges`, and the fairness part
  of `PluginWorker!KeepsContract`.

## 5. What is left out, and why

- Strings: header contents, JSON texts, the characters of a path. A path is the
  pieces between its slashes in `Admission`, a sequence of pieces where it is part of a cache key, and one
  value elsewhere; a message is its kind and
  what it names.
- Route matching: placeholders that are part of a piece or have a regular
  expression other than `.*`, more than one `{x:.*}` in a prefix, tenants with
  braces; path parameters, which the code returns and nothing uses. `Width` and
  `Trim` are any functions of pieces, so the theorems hold for the texts' own.
- Access: verification of tokens (PyJWT, the JWKS client): a token is valid or
  not. `client_id` is unique within a tenant. A query of a collection is
  answered from one moment of it.
- `Admission` and `ForwardChain` follow one request, which shares nothing there.
  A plugin type is in a chain at most once; back-off times are left out.
- Breaker and rate limit: the breaker's dictionary is per process; rate limit
  counters are shared and their `Requests` may belong to several processes with
  equal clocks.
- Worker: lines longer than the stream limit; a worker stopped on a full stderr
  pipe (nobody reads it); a hook cancelled by the server while it waits for a
  reply, which uvicorn does not do; workers left behind by replaced proxies.
- Upstream auth: several token cache entries (they do not interact).
- Response cache: serialisation; equal hashes are taken for equal texts. A failure of Redis refuses the request
  (`Refuse`) or leaves the answer unstored (`NotStored`).
- Route table: a full load is read in one cursor whose documents come in any
  order; requests answered 404 before the first load.
- Two windows of different lengths with the same number share a counter in the
  code; at today's clock values their numbers are far apart, which
  `RateLimitAssumption` states.

**Not modelled**: the request logging plugin, structured logging, telemetry and
the documentation endpoints: they change no state that anything else reads.
**Partly**: the client session (opened at first use, closed at shutdown: no
request survives it), the life cycle beyond `startup()`, the texts and codes of
errors, labels and histograms of metrics.

## 6. What could come next

1. `PluginAdmin` composed with `PluginWorker`: a reload replaces a proxy while its
   calls wait; which processes stay.
2. `RouteConfig` with more than one gateway process, and its liveness under a
   listener that restarts, once the code restarts it.
3. Breaker around retry around forward_auth in one chain, with time.
4. Placeholders with a regular expression in `RouteMatching`: a placeholder
   would be a set of segments.
