------------------------------ MODULE RateLimit ------------------------------
(***************************************************************************)
(* The rate_limit plugin (src/app/plugins/rate_limit.py) and the counters  *)
(* it keeps in Redis (src/app/rate_limit.py).                              *)
(*                                                                         *)
(* A request reads the gateway's clock to name its window, then increments *)
(* the counter of its scope and window, and, being the first there, gives  *)
(* the counter a time to live.  These are separate calls to Redis: other   *)
(* requests and the clock move between them, each of them may fail, and    *)
(* the client repeats an INCR that got no reply.                           *)
(* One route of one tenant: tenant and prefix are part of every key, so    *)
(* counters of others are never met.                                       *)
(***************************************************************************)
EXTENDS Integers, FiniteSets, SequencesExt

CONSTANTS Requests,      \* requests that reach the plugin
          ConsumerOf,    \* [Requests -> consumers \cup {NoConsumer}]
          TagsOf,        \* [Requests -> sequences of tags]
          NoConsumer,    \* the consumer of an anonymous request
          ByConsumer,    \* by_consumer of the route's configuration
          BaseConfig,    \* limit and window_seconds of the route
          ConsumerLimits,  \* consumer_limits: [some consumers -> overrides]
          TagLimits,     \* consumer_tag_limits: [some tags -> overrides]
          Start,         \* the clock at first, in seconds
          Horizon,       \* bound: the clock stops here
          MaxDelay,      \* bound: seconds from a stamp to its last call to Redis
          MaxRepeats     \* bound: times redis-py repeats an INCR that was
                         \* counted but whose reply was lost

VARIABLES now,       \* int(time.time())
          counter,   \* Redis: key -> count, 0 when the key does not exist
          deadline,  \* Redis: key -> when it expires, NoDeadline if never
          stage,     \* where each request is
          stamp,     \* the `now` each request read
          added,     \* history: increments of each request that Redis counted
          late       \* history: requests counted after the end of their window

vars == <<now, counter, deadline, stage, stamp, added, late>>

NoDeadline == 0

-----------------------------------------------------------------------------
(* Plausible defects of the operators below, used by no action. *)

AllowsOneMore(count, cfg) == count <= cfg.limit + 1
AllowsOneLess(count, cfg) == count < cfg.limit
FirstIsSecond(count) == count = 2          \* the time to live is not set at once

-----------------------------------------------------------------------------
(* The configuration of a request: the route's, under the override of its  *)
(* consumer, under those of its tags, the last tag winning.                *)
OverridesOf(r) ==
    LET consumer == IF ConsumerOf[r] \in DOMAIN ConsumerLimits
                    THEN <<ConsumerLimits[ConsumerOf[r]]>> ELSE <<>>
        tags == SelectSeq(TagsOf[r], LAMBDA t : t \in DOMAIN TagLimits)
    IN  consumer \o [n \in DOMAIN tags |-> TagLimits[tags[n]]]

Effective(r) == FoldLeft(LAMBDA cfg, override : override @@ cfg, BaseConfig, OverridesOf(r))

(* Whose quota a request spends. *)
Scope(r) == IF ByConsumer THEN ConsumerOf[r] ELSE NoConsumer

WindowsOf(r) == Effective(r).window_seconds

(* The counter of a request; meaningful once it has its stamp. *)
Key(r) == <<Scope(r), stamp[r] \div WindowsOf(r)>>

Keys == {<<Scope(r), t \div WindowsOf(r)>> :
            r \in {s \in Requests : WindowsOf(s) # 0}, t \in Start .. Horizon}

(* What the plugin does with the count INCR returns. *)
Allows(count, cfg) == count <= cfg.limit
First(count) == count = 1

(* A key with deadline d does not exist any more at time t. *)
Gone(d, t) == d # NoDeadline /\ d <= t

ASSUME RateLimitAssumption ==
    /\ IsFiniteSet(Requests)
    /\ Start \in Nat \ {0} /\ Horizon \in Nat /\ Start <= Horizon
    /\ MaxDelay \in Nat /\ MaxRepeats \in Nat
    /\ \A r \in Requests : Effective(r).limit \in Int /\ WindowsOf(r) \in Nat
    \* Two windows of different lengths never have the same number: they are
    \* far apart at today's clock values.
    /\ \A r, s \in Requests : \A t, u \in Start .. Horizon :
          (WindowsOf(r) # WindowsOf(s) /\ WindowsOf(r) # 0 /\ WindowsOf(s) # 0)
             => t \div WindowsOf(r) # u \div WindowsOf(s)

Init ==
    /\ now = Start
    /\ counter = [k \in Keys |-> 0]
    /\ deadline = [k \in Keys |-> NoDeadline]
    /\ stage = [r \in Requests |-> "new"]
    /\ stamp = [r \in Requests |-> 0]
    /\ added = [r \in Requests |-> 0]
    /\ late = {}

-----------------------------------------------------------------------------

(* The request reads the clock and names its window; `now // 0` raises. *)
Stamp(r) ==
    /\ stage[r] = "new"
    /\ stamp' = [stamp EXCEPT ![r] = now]
    /\ stage' = [stage EXCEPT ![r] = IF WindowsOf(r) = 0 THEN "failed" ELSE "incr"]
    /\ UNCHANGED <<now, counter, deadline, added, late>>

(* The window the request named has not ended. *)
OnTime(r) == now \div WindowsOf(r) = stamp[r] \div WindowsOf(r)

Decision(count, cfg) == IF Allows(count, cfg) THEN "allowed" ELSE "refused"

(* Redis increments the counter, once more for every reply that was lost,  *)
(* and the last reply comes back.                                          *)
Increment(r) ==
    /\ stage[r] = "incr"
    /\ \E n \in 0 .. MaxRepeats :
         LET count == counter[Key(r)] + n + 1
         IN  /\ counter' = [counter EXCEPT ![Key(r)] = count]
             /\ added' = [added EXCEPT ![r] = n + 1]
             /\ late' = IF OnTime(r) THEN late ELSE late \cup {r}
             /\ stage' = [stage EXCEPT ![r] =
                             IF First(count) THEN "expire" ELSE Decision(count, Effective(r))]
    /\ UNCHANGED <<now, deadline, stamp>>

(* INCR raises after its last attempt, none or some of them counted. *)
IncrementRaises(r) ==
    /\ stage[r] = "incr"
    /\ stage' = [stage EXCEPT ![r] = "failed"]
    /\ \E n \in 0 .. MaxRepeats + 1 :
         /\ counter' = [counter EXCEPT ![Key(r)] = @ + n]
         /\ added' = [added EXCEPT ![r] = n]
    /\ UNCHANGED <<now, deadline, stamp, late>>

(* The first request of a window sets the time to live, then decides. *)
Expire(r) ==
    /\ stage[r] = "expire"
    /\ deadline' = [deadline EXCEPT ![Key(r)] = now + WindowsOf(r)]
    /\ stage' = [stage EXCEPT ![r] = Decision(1, Effective(r))]
    /\ UNCHANGED <<now, counter, stamp, added, late>>

ExpireRaises(r) ==
    /\ stage[r] = "expire"
    /\ stage' = [stage EXCEPT ![r] = "failed"]
    /\ UNCHANGED <<now, counter, deadline, stamp, added, late>>

(* A second passes, and Redis drops the keys whose time has come.  No call *)
(* to Redis takes more than MaxDelay seconds.                              *)
Tick ==
    /\ now < Horizon
    /\ \A r \in Requests : stage[r] \in {"incr", "expire"} => now < stamp[r] + MaxDelay
    /\ now' = now + 1
    /\ counter' = [k \in Keys |-> IF Gone(deadline[k], now + 1) THEN 0 ELSE counter[k]]
    /\ deadline' = [k \in Keys |->
                      IF Gone(deadline[k], now + 1) THEN NoDeadline ELSE deadline[k]]
    /\ UNCHANGED <<stage, stamp, added, late>>

Step(r) == Stamp(r) \/ Increment(r) \/ IncrementRaises(r) \/ Expire(r) \/ ExpireRaises(r)

Next == (\E r \in Requests : Step(r)) \/ Tick

Spec == Init /\ [][Next]_vars

-----------------------------------------------------------------------------

(* Types; a key with a deadline exists until just before it. *)
TypeOK ==
    /\ now \in Start .. Horizon
    /\ counter \in [Keys -> 0 .. Cardinality(Requests) * (MaxRepeats + 1)]
    /\ deadline \in [Keys -> Nat]
    /\ \A k \in Keys : deadline[k] # NoDeadline => counter[k] > 0 /\ now < deadline[k]
    /\ stage \in [Requests -> {"new", "incr", "expire", "allowed", "refused", "failed"}]
    /\ stamp \in [Requests -> {0} \cup (Start .. Horizon)]
    /\ added \in [Requests -> 0 .. MaxRepeats + 1]
    /\ late \subseteq Requests

(* Requests that count against the same quota of the same window. *)
Rivals(r) == {s \in Requests : stage[s] # "new" /\ WindowsOf(s) # 0 /\ Key(s) = Key(r)}

(* Of the requests counted before the end of their window no more get      *)
(* through than the limit, for any interleaving of the calls to Redis, the *)
(* failing ones and the late ones included: the counter outlives its       *)
(* window, whichever request gave it its time to live and however late.    *)
(* (It does not hold of the late ones: an INCR that comes after the        *)
(* counter expired starts it again, and lets the limit through once more.) *)
AtMostLimit ==
    \A r \in Requests : stage[r] = "allowed" =>
        Cardinality({s \in Rivals(r) \ late :
                        stage[s] = "allowed" /\ Effective(s) = Effective(r)})
            <= Effective(r).limit

(* Nobody is refused before the quota is spent: the requests of the same   *)
(* scope and window have incremented the counter more often than the limit *)
(* of the refused one (Redis may have counted a request more than once).   *)
RefusedOnlyOverLimit ==
    \A r \in Requests : stage[r] = "refused" =>
        SumFunctionOnSet(added, Rivals(r)) > Effective(r).limit

(* A counter does not stay in Redis for ever: one without a deadline has   *)
(* its first request about to set it, or a call for it failed, or lost the *)
(* reply that would have told somebody the count was 1.                    *)
NoOrphanCounter ==
    \A k \in Keys : (counter[k] > 0 /\ deadline[k] = NoDeadline) =>
        \E r \in Requests :
            /\ WindowsOf(r) # 0 /\ Key(r) = k
            /\ stage[r] \in {"expire", "failed"} \/ added[r] > 1
=============================================================================
