--------------------------- MODULE RequestPipeline ---------------------------
(***************************************************************************)
(* What becomes of a request (app() in src/app/main.py, lines 148 to 590,  *)
(* with run_before, run_after and run_forward of the plugin engine), while *)
(* POST /admin/plugins/reload changes the registry of plugins.             *)
(*                                                                         *)
(* Every hook of a plugin and the call of the upstream suspend the         *)
(* request, so requests and reloads interleave between any two hooks; the  *)
(* engine looks a plugin up when its turn comes.  A plugin is known by its *)
(* type and by what its hook does: return, raise a PluginError, raise      *)
(* anything else or, in a cache plugin, find the response.                 *)
(***************************************************************************)
EXTENDS PluginEngine

CONSTANTS Requests,      \* requests in flight
          Lists,         \* the plugin lists of the routes
          CacheTypes,    \* plugins that may set cache_hit
          AfterRaises,   \* what after_response hooks may raise
          Registered,    \* the registry the process starts with
          Reloads,       \* what a reload may load: functions from types to phases
          MaxUpstream    \* bound: calls of the upstream made for one request

ASSUME PipelineAssumption ==
    /\ "" \notin Types
    /\ Lists \subseteq Seq(Elements)
    /\ CacheTypes \subseteq Types
    /\ AfterRaises \subseteq {"plugin_error", "exception"}
    /\ Registered \in Registries
    /\ \A m \in Reloads : DOMAIN m \subseteq Types /\ Range(m) \subseteq Phases \ {"absent"}
    /\ MaxUpstream \in Nat \ {0}

VARIABLES registry,  \* plugins.plugins
          pc,        \* how far app() has come
          route,     \* the plugin list of the matched route
          blank,     \* its tenant is nothing but white space
          todo,      \* the plugins whose hook the current phase has still to run
          hit,       \* context.extra["cache_hit"] is set
          chain,     \* forward_plugins of run_forward
          depth,     \* how deep execute() is: the plugin running, or the upstream
          outcome,   \* how run_forward, or the element last left, ended
          answer,    \* the response sent, "none" before
          counted,   \* REQUEST_COUNT increments made for the request
          billed,    \* record_gateway_request calls that succeeded
          ran,       \* history: the hooks that returned, by phase
          upstream,  \* history: calls of the upstream
          steady     \* history: the types that have had one phase since the arrival

progress == <<todo, hit, chain, depth, outcome>>
accounts == <<counted, billed>>
vars == <<registry, pc, route, blank, todo, hit, chain, depth, outcome, answer,
          counted, billed, ran, upstream, steady>>

Ended == {"done", "escaped"}
PCs == {"idle", "before", "forward", "respond", "after", "count", "bill"} \cup Ended
Refusals == {"404", "400", "refused", "500"}
Outcomes == {"response", "plugin_error", "exception"}
Answers == {"none", "cached"} \cup Refusals \cup {"upstream", "plugin_status", "502"}

Init ==
    /\ registry = Registered
    /\ pc = [r \in Requests |-> "idle"]
    /\ route = [r \in Requests |-> <<>>]
    /\ blank \in [Requests -> BOOLEAN]
    /\ todo = [r \in Requests |-> <<>>]
    /\ hit = [r \in Requests |-> FALSE]
    /\ chain = [r \in Requests |-> <<>>]
    /\ depth = [r \in Requests |-> 0]
    /\ outcome = [r \in Requests |-> "response"]
    /\ answer = [r \in Requests |-> "none"]
    /\ counted = [r \in Requests |-> 0]
    /\ billed = [r \in Requests |-> 0]
    /\ ran = [r \in Requests |-> [before |-> <<>>, around |-> {}, after |-> <<>>]]
    /\ upstream = [r \in Requests |-> 0]
    /\ steady = [r \in Requests |-> {}]

-----------------------------------------------------------------------------
(* Plausible defects of the operators below, used by no action. *)

AfterRefusalBefore == "before"            \* no return once the refusal is sent
HooksAfterInOrder(list) == BeforeOrder(list)         \* reversed() forgotten
ChainOfOrdered(list, reg) ==                         \* order 1 is left out too
    TypesAt(list, Sorted(list, {n \in Listed(list) :
        OrderOf(list, n) > 1 /\ reg[list[n].type] = "forward"}))
AfterRefusalCounted == "count"            \* the return is skipped further down

-----------------------------------------------------------------------------

(* A cached response was sent, or run_after is over. *)
Countable(r) == pc[r] = "count" \/ (pc[r] = "after" /\ todo[r] = <<>>)

(* Where a request goes when its refusal has been sent. *)
AfterRefusal == "done"

(* A before_after plugin: `phase` says so and the type is registered. *)
RunsHooks(t) == registry[t] = "before_after"

(* cached_response is set when run_before is over. *)
ServesFromCache(r) == hit[r]

HooksBefore(list) == BeforeOrder(list)
HooksAfter(list) == AfterOrder(list)
ChainOf(list, reg) == ForwardChain(list, reg)

(* The route matched and the tenant was found; run_before makes its list. *)
Arrive(r, list) ==
    /\ pc[r] = "idle"
    /\ pc' = [pc EXCEPT ![r] = "before"]
    /\ route' = [route EXCEPT ![r] = list]
    /\ todo' = [todo EXCEPT ![r] = HooksBefore(list)]
    /\ steady' = [steady EXCEPT ![r] = {t \in Types : registry[t] # "absent"}]
    /\ UNCHANGED <<registry, blank, hit, chain, depth, outcome, answer, accounts, ran,
                   upstream>>

(* No route, or no tenant. *)
TurnAway(r, status) ==
    /\ pc[r] = "idle"
    /\ answer' = [answer EXCEPT ![r] = status]
    /\ pc' = [pc EXCEPT ![r] = "done"]
    /\ UNCHANGED <<registry, route, blank, progress, accounts, ran, upstream, steady>>

(* A header of the request does not decode: app() raises. *)
HeadersRaise(r) ==
    /\ pc[r] = "idle"
    /\ pc' = [pc EXCEPT ![r] = "escaped"]
    /\ UNCHANGED <<registry, route, blank, progress, answer, accounts, ran, upstream, steady>>

(* The type is not registered, or not a before_after plugin: continue. *)
SkipHook(r) ==
    /\ pc[r] \in {"before", "after"}
    /\ todo[r] # <<>>
    /\ ~RunsHooks(Head(todo[r]))
    /\ todo' = [todo EXCEPT ![r] = Tail(@)]
    /\ UNCHANGED <<registry, pc, route, blank, hit, chain, depth, outcome, answer, accounts,
                   ran, upstream, steady>>

(* before_request returns; a cache plugin may have found the response. *)
RunBefore(r) ==
    /\ pc[r] = "before"
    /\ todo[r] # <<>>
    /\ LET t == Head(todo[r]) IN
         /\ RunsHooks(t)
         /\ ran' = [ran EXCEPT ![r].before = Append(@, t)]
         /\ \/ UNCHANGED hit
            \/ t \in CacheTypes /\ hit' = [hit EXCEPT ![r] = TRUE]
    /\ todo' = [todo EXCEPT ![r] = Tail(@)]
    /\ UNCHANGED <<registry, pc, route, blank, chain, depth, outcome, answer, accounts,
                   upstream, steady>>

(* before_request raises: a PluginError has its status, the rest is a 500. *)
RefuseBefore(r, status) ==
    /\ pc[r] = "before"
    /\ todo[r] # <<>>
    /\ RunsHooks(Head(todo[r]))
    /\ answer' = [answer EXCEPT ![r] = status]
    /\ todo' = [todo EXCEPT ![r] = IF AfterRefusal = "done" THEN <<>> ELSE Tail(@)]
    /\ pc' = [pc EXCEPT ![r] = AfterRefusal]
    /\ UNCHANGED <<registry, route, blank, hit, chain, depth, outcome, accounts, ran, upstream,
                   steady>>

ServeCached(r) ==
    /\ pc[r] = "before"
    /\ todo[r] = <<>>
    /\ ServesFromCache(r)
    /\ answer' = [answer EXCEPT ![r] = "cached"]
    /\ pc' = [pc EXCEPT ![r] = "count"]
    /\ UNCHANGED <<registry, route, blank, progress, accounts, ran, upstream, steady>>

(* execute(d): the plugin at place d of the chain, or the upstream after   *)
(* the last one.                                                           *)
Enters(r, d, list) ==
    /\ depth' = [depth EXCEPT ![r] = d]
    /\ IF d > Len(list)
       THEN upstream' = [upstream EXCEPT ![r] = @ + 1] /\ UNCHANGED ran
       ELSE ran' = [ran EXCEPT ![r].around = @ \cup {list[d]}] /\ UNCHANGED upstream

(* The body is read and run_forward makes the chain from the registry. *)
StartForward(r) ==
    /\ pc[r] = "before"
    /\ todo[r] = <<>>
    /\ ~ServesFromCache(r)
    /\ chain' = [chain EXCEPT ![r] = ChainOf(route[r], registry)]
    /\ Enters(r, 1, chain'[r])
    /\ pc' = [pc EXCEPT ![r] = "forward"]
    /\ UNCHANGED <<registry, route, blank, todo, hit, outcome, answer, accounts, steady>>

(* The running plugin awaits call_next(), perhaps not for the first time. *)
CallNext(r) ==
    /\ pc[r] = "forward"
    /\ depth[r] \in 1..Len(chain[r])
    /\ upstream[r] < MaxUpstream
    /\ Enters(r, depth[r] + 1, chain[r])
    /\ UNCHANGED <<registry, pc, route, blank, todo, hit, chain, outcome, answer, accounts,
                   steady>>

(* The running plugin, or the upstream, is left with a response or raises. *)
Leave(r, o) ==
    /\ pc[r] = "forward"
    /\ depth[r] > Len(chain[r]) => o # "plugin_error"
    /\ outcome' = [outcome EXCEPT ![r] = o]
    /\ depth' = [depth EXCEPT ![r] = @ - 1]
    /\ pc' = [pc EXCEPT ![r] = IF depth[r] = 1 THEN "respond" ELSE "forward"]
    /\ UNCHANGED <<registry, route, blank, todo, hit, chain, answer, accounts, ran, upstream,
                   steady>>

(* The response of the chain, or what stands for its error, is sent and    *)
(* run_after makes its list.                                               *)
Respond(r) ==
    /\ pc[r] = "respond"
    /\ answer' = [answer EXCEPT ![r] =
                    CASE outcome[r] = "response" -> "upstream"
                      [] outcome[r] = "plugin_error" -> "plugin_status"
                      [] outcome[r] = "exception" -> "502"]
    /\ todo' = [todo EXCEPT ![r] = HooksAfter(route[r])]
    /\ pc' = [pc EXCEPT ![r] = "after"]
    /\ UNCHANGED <<registry, route, blank, hit, chain, depth, outcome, accounts, ran, upstream,
                   steady>>

(* A header of the response does not encode: app() raises, nothing sent. *)
RespondRaises(r) ==
    /\ pc[r] = "respond"
    /\ pc' = [pc EXCEPT ![r] = "escaped"]
    /\ UNCHANGED <<registry, route, blank, progress, answer, accounts, ran, upstream, steady>>

RunAfter(r) ==
    /\ pc[r] = "after"
    /\ todo[r] # <<>>
    /\ RunsHooks(Head(todo[r]))
    /\ ran' = [ran EXCEPT ![r].after = Append(@, Head(todo[r]))]
    /\ todo' = [todo EXCEPT ![r] = Tail(@)]
    /\ UNCHANGED <<registry, pc, route, blank, hit, chain, depth, outcome, answer, accounts,
                   upstream, steady>>

(* after_response raises.  A PluginError ends the phase; app() does not    *)
(* catch anything else.                                                    *)
AfterRaisesIn(r, o) ==
    /\ pc[r] = "after"
    /\ todo[r] # <<>>
    /\ RunsHooks(Head(todo[r]))
    /\ todo' = [todo EXCEPT ![r] = <<>>]
    /\ pc' = IF o = "exception" THEN [pc EXCEPT ![r] = "escaped"] ELSE pc
    /\ UNCHANGED <<registry, route, blank, hit, chain, depth, outcome, answer, accounts, ran,
                   upstream, steady>>

(* REQUEST_COUNT and REQUEST_LATENCY. *)
Count(r) ==
    /\ Countable(r)
    /\ counted' = [counted EXCEPT ![r] = @ + 1]
    /\ pc' = [pc EXCEPT ![r] = "bill"]
    /\ UNCHANGED <<registry, route, blank, progress, answer, billed, ran, upstream, steady>>

(* record_gateway_request: MongoDB takes the increment.  For a tenant that *)
(* is nothing once stripped it is not asked.                               *)
Billing(r) == IF blank[r] THEN billed ELSE [billed EXCEPT ![r] = @ + 1]

Bill(r) ==
    /\ pc[r] = "bill"
    /\ billed' = Billing(r)
    /\ pc' = [pc EXCEPT ![r] = "done"]
    /\ UNCHANGED <<registry, route, blank, progress, answer, counted, ran, upstream, steady>>

(* It raises, and MongoDB may have done what it does not answer. *)
BillRaises(r) ==
    /\ pc[r] = "bill" /\ ~blank[r]
    /\ billed' \in {billed, Billing(r)}
    /\ pc' = [pc EXCEPT ![r] = "escaped"]
    /\ UNCHANGED <<registry, route, blank, progress, answer, counted, ran, upstream, steady>>

(* plugins.plugins.update(instances): types are added and replaced. *)
Reload(m) ==
    /\ registry' = [t \in Types |-> IF t \in DOMAIN m THEN m[t] ELSE registry[t]]
    /\ steady' = [r \in Requests |-> {t \in steady[r] : registry'[t] = registry[t]}]
    /\ UNCHANGED <<pc, route, blank, progress, answer, accounts, ran, upstream>>

Before(r) ==
    \/ \E list \in Lists : Arrive(r, list)
    \/ \E status \in {"404", "400"} : TurnAway(r, status)
    \/ HeadersRaise(r)
    \/ SkipHook(r)
    \/ RunBefore(r)
    \/ \E status \in {"refused", "500"} : RefuseBefore(r, status)
    \/ ServeCached(r)

Forward(r) ==
    \/ StartForward(r)
    \/ CallNext(r)
    \/ \E o \in Outcomes : Leave(r, o)

After(r) ==
    \/ Respond(r)
    \/ RespondRaises(r)
    \/ RunAfter(r)
    \/ \E o \in AfterRaises : AfterRaisesIn(r, o)
    \/ Count(r)
    \/ Bill(r)
    \/ BillRaises(r)

Next ==
    \/ \E r \in Requests : Before(r) \/ Forward(r) \/ After(r)
    \/ \E m \in Reloads : Reload(m)

Spec == Init /\ [][Next]_vars

-----------------------------------------------------------------------------

TypeOK ==
    /\ registry \in Registries
    /\ pc \in [Requests -> PCs]
    /\ route \in [Requests -> Lists \cup {<<>>}]
    /\ hit \in [Requests -> BOOLEAN] /\ blank \in [Requests -> BOOLEAN]
    /\ outcome \in [Requests -> Outcomes]
    /\ answer \in [Requests -> Answers]
    /\ counted \in [Requests -> Nat]
    /\ billed \in [Requests -> Nat]
    /\ upstream \in [Requests -> 0..MaxUpstream]
    /\ steady \in [Requests -> SUBSET Types]
    /\ \A r \in Requests :
          /\ todo[r] \in Seq(Types)
          /\ chain[r] \in Seq(Types)
          /\ depth[r] \in 0 .. Len(chain[r]) + 1
          /\ pc[r] = "forward" => depth[r] > 0
          /\ ran[r].before \in Seq(Types) /\ ran[r].after \in Seq(Types)
          /\ ran[r].around \subseteq Types

(* No call of the upstream goes round a plugin: each one the route asks    *)
(* for, with an order other than 0, that has been registered under one     *)
(* phase since the request came has run in that phase by then, however     *)
(* reloads fall between the phases.  (A plugin whose phase a reload does   *)
(* change may be in neither when each is looked at, engine.py:71 and :121.)*)
NoneBypassed ==
    \A r \in Requests : upstream[r] > 0 =>
        Asked(route[r]) \cap steady[r] \subseteq Range(ran[r].before) \cup ran[r].around

(* A request that was refused, or served from the cache, goes no further:  *)
(* neither the upstream nor a later phase sees it (main.py:443, :469, :505)*)
RefusedGoesNoFurther ==
    \A r \in Requests : answer[r] \in Refusals \cup {"cached"} =>
        upstream[r] = 0 /\ ran[r].around = {} /\ ran[r].after = <<>>

(* The places of `after` that hold one of S that is also in `before` go    *)
(* back through the places of `before` that hold one of S, from the last   *)
(* one and with no gap.                                                    *)
Unwinds(before, after, S) ==
    LET seen == {j \in DOMAIN before : before[j] \in S}
        back == {i \in DOMAIN after : \E j \in seen : after[i] = before[j]}
    IN  \E f \in [back -> seen] :
          /\ \A i \in back : after[i] = before[f[i]]
          /\ \A i, k \in back : i < k => f[k] < f[i]
          /\ \A i \in back, j \in seen : f[i] < j => \E k \in back : f[k] = j

(* The hooks after the response unwind those before it: of the plugins     *)
(* that saw the request, the last to see it is the first to see the        *)
(* response and none is left out before an earlier one, though the list is *)
(* made anew from a registry that may have gained types (engine.py:94).    *)
(* Plugins whose phase was changed meanwhile are left out on both sides.   *)
HooksMirror ==
    \A r \in Requests : Unwinds(ran[r].before, ran[r].after, steady[r])

(* A plugin never sees a request before one of a smaller order has, and    *)
(* one of order 0 never does (README.md:30, engine.py:59): the hooks that  *)
(* ran belong to different places of the list, by order.                   *)
HooksInOrder ==
    \A r \in Requests :
        LET before == ran[r].before
            list == route[r]
        IN  \E f \in [DOMAIN before -> DOMAIN list] :
              /\ \A n \in DOMAIN before :
                    list[f[n]].type = before[n] /\ OrderOf(list, f[n]) # 0
              /\ \A m, n \in DOMAIN before :
                    m < n => f[m] # f[n] /\ OrderOf(list, f[m]) <= OrderOf(list, f[n])

(* The hooks keep their order before the response and, reversed, after it. *)
HooksOrdered == HooksInOrder /\ HooksMirror

Served == {"cached", "upstream", "plugin_status", "502"}

(* Counting and billing agree, over every error path: at most once each,   *)
(* never a bill without a count, and a request that ran to its end is      *)
(* counted exactly when it got past the plugins before it, and billed then *)
(* unless its tenant is blank (usage_meter.py:19).  Not so one whose       *)
(* after_response hook raises anything but a PluginError: it leaves app()  *)
(* answered and uncounted (main.py:563).                                   *)
AccountedOnce ==
    \A r \in Requests :
        /\ counted[r] <= 1 /\ billed[r] <= counted[r]
        /\ counted[r] = 1 => answer[r] \in Served
        /\ pc[r] = "done" =>
              /\ counted[r] = 1 <=> answer[r] \in Served
              /\ billed[r] = (IF blank[r] THEN 0 ELSE counted[r])

(* The whole of app() implements RequestContract: the places of a request  *)
(* between its arrival and its end, the hooks, the chain and the registry  *)
(* are invisible.                                                          *)
State(r) == IF pc[r] \in Ended THEN pc[r] ELSE "open"
Contract == INSTANCE RequestContract WITH state <- [r \in Requests |-> State(r)]

(* One answer at most, no call of upstream after it or for a request that  *)
(* is refused or served from the cache, one count after it and one bill    *)
(* after that, and nothing once a request has ended; over every return of  *)
(* app() and every exception that leaves it (main.py:392 to :590).         *)
KeepsContract == Contract!Spec
=============================================================================
