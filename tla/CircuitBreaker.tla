--------------------------- MODULE CircuitBreaker ---------------------------
(***************************************************************************)
(* The circuit_breaker forward plugin (src/app/plugins/circuit_breaker.py).*)
(*                                                                         *)
(* CIRCUIT_BREAKER_STATE is one process-wide dictionary.  Its key is built *)
(* from the target and the prefix of the route, so the routes of several   *)
(* tenants, or two versions of one route document, may share an entry      *)
(* while their thresholds differ: a Route is one such configuration, and   *)
(* KeyOf gives its entry.  A slot is one coroutine inside around_request.  *)
(* The code suspends only at `await call_next()`, so what runs before it   *)
(* is one step, and what runs after it is another; calls of other slots    *)
(* interleave freely in between.                                           *)
(*                                                                         *)
(* The monotonic clock appears as the time left: openFor[k] stands for     *)
(* max(0, opened_until - now), so `opened_until > now` is openFor[k] > 0   *)
(* and clearing an expired opened_until changes nothing.                   *)
(***************************************************************************)
EXTENDS Integers

CONSTANTS Slots,            \* concurrent calls of around_request
          Routes,           \* route configurations with this plugin
          Keys,             \* entries of CIRCUIT_BREAKER_STATE
          KeyOf,            \* the entry a route uses
          Threshold,        \* failure_threshold of a route
          RecoveryTimeout,  \* recovery_timeout_seconds of a route
          StreakCap         \* bound: where the history variable streak stops

Replies == {"none", "short_circuit", "response", "exception"}

ASSUME RouteAssumption ==
    /\ KeyOf \in [Routes -> Keys]
    /\ Threshold \in [Routes -> Nat \ {0}]        \* max(1, int(...))
    /\ RecoveryTimeout \in [Routes -> Nat \ {0}]  \* max(1, int(...))
    /\ Routes \cap Replies = {}

ASSUME CapAssumption ==
    /\ StreakCap \in Nat
    /\ \A r \in Routes : Threshold[r] <= StreakCap

VARIABLES failures,  \* state["failures"] of each key
          openFor,   \* seconds until opened_until of each key
          call,      \* the route a slot is calling, or the slot's last reply
          streak,    \* history: failed calls of the key since its last success
          tripped,   \* history: the key was opened since its last success
          fresh      \* history: slots admitted since their key last opened

codeVars == <<failures, openFor, call>>
vars == <<failures, openFor, call, streak, tripped, fresh>>

InFlight(s) == call[s] \in Routes
SlotsOf(k) == {s \in Slots : InFlight(s) /\ KeyOf[call[s]] = k}

-----------------------------------------------------------------------------
(* Plausible defects of the operators below.  No action uses them; each    *)
(* shows that some property can fail.                                      *)

IsOpenNever(k) == FALSE                                   \* no open check
TripsEarly(r) == failures[KeyOf[r]] + 2 >= Threshold[r]   \* counts one ahead
TripsLate(r) == failures[KeyOf[r]] >= Threshold[r]        \* counts one behind

-----------------------------------------------------------------------------

(* state["opened_until"] > now *)
IsOpen(k) == openFor[k] > 0

(* state["failures"] + 1 >= threshold *)
Trips(r) == failures[KeyOf[r]] + 1 >= Threshold[r]

(* What a second leaves of a countdown. *)
Left(n) == IF n > 0 THEN n - 1 ELSE 0

(* The history stops counting at its bound. *)
Longer(n) == IF n < StreakCap THEN n + 1 ELSE n

Init ==
    /\ failures = [k \in Keys |-> 0]
    /\ openFor = [k \in Keys |-> 0]
    /\ call = [s \in Slots |-> "none"]
    /\ streak = [k \in Keys |-> 0]
    /\ tripped = [k \in Keys |-> FALSE]
    /\ fresh = {}

(* The circuit is open: 503 without calling upstream. *)
ShortCircuit(s, r) ==
    /\ ~InFlight(s)
    /\ IsOpen(KeyOf[r])
    /\ call' = [call EXCEPT ![s] = "short_circuit"]
    /\ UNCHANGED <<failures, openFor, streak, tripped, fresh>>

(* The circuit is closed or its timeout has passed: await call_next(). *)
Admit(s, r) ==
    /\ ~InFlight(s)
    /\ ~IsOpen(KeyOf[r])
    /\ call' = [call EXCEPT ![s] = r]
    /\ fresh' = fresh \cup {s}
    /\ UNCHANGED <<failures, openFor, streak, tripped>>

(* call_next returned a status below 500. *)
Succeed(s) ==
    /\ InFlight(s)
    /\ LET k == KeyOf[call[s]] IN
         /\ failures' = [failures EXCEPT ![k] = 0]
         /\ openFor' = [openFor EXCEPT ![k] = 0]
         /\ streak' = [streak EXCEPT ![k] = 0]
         /\ tripped' = [tripped EXCEPT ![k] = FALSE]
    /\ call' = [call EXCEPT ![s] = "response"]
    /\ fresh' = fresh \ {s}

(* call_next raised, or returned a status of 500 or more. *)
Fail(s, reply) ==
    /\ InFlight(s)
    /\ LET r == call[s]
           k == KeyOf[r]
       IN  /\ streak' = [streak EXCEPT ![k] = Longer(@)]
           /\ \/ /\ Trips(r)
                 /\ openFor' = [openFor EXCEPT ![k] = RecoveryTimeout[r]]
                 /\ failures' = [failures EXCEPT ![k] = 0]
                 /\ tripped' = [tripped EXCEPT ![k] = TRUE]
                 /\ fresh' = fresh \ SlotsOf(k)
              \/ /\ ~Trips(r)
                 /\ failures' = [failures EXCEPT ![k] = @ + 1]
                 /\ fresh' = fresh \ {s}
                 /\ UNCHANGED <<openFor, tripped>>
    /\ call' = [call EXCEPT ![s] = reply]

(* A second passes. *)
Tick ==
    /\ \E k \in Keys : openFor[k] > 0
    /\ openFor' = [k \in Keys |-> Left(openFor[k])]
    /\ UNCHANGED <<failures, call, streak, tripped, fresh>>

Return(s) == Succeed(s) \/ \E reply \in {"response", "exception"} : Fail(s, reply)

Next ==
    \/ \E s \in Slots, r \in Routes : ShortCircuit(s, r) \/ Admit(s, r)
    \/ \E s \in Slots : Return(s)
    \/ Tick

Spec == Init /\ [][Next]_vars

(* Time passes whatever the calls do; nothing is assumed of upstream. *)
FairSpec == Spec /\ WF_vars(Tick)

-----------------------------------------------------------------------------

TypeOK ==
    /\ failures \in [Keys -> Nat]
    /\ openFor \in [Keys -> Nat]
    /\ call \in [Slots -> Routes \cup Replies]
    /\ streak \in [Keys -> 0..StreakCap]
    /\ tripped \in [Keys -> BOOLEAN]
    /\ fresh \subseteq Slots

(* The counter never reaches the threshold of every route that shares it:  *)
(* whatever interleaving of failures led here, one more of them can open   *)
(* the circuit (line 56 and line 63 leave no failure uncounted).           *)
FailuresBelowThreshold ==
    \A k \in Keys : failures[k] > 0 =>
        \E r \in Routes : KeyOf[r] = k /\ failures[k] < Threshold[r]

(* An outage is noticed: once as many calls in a row failed as the most    *)
(* patient route sharing the key allows, the circuit has been opened since *)
(* the last success, however the calls of the key overlapped.              *)
OutageIsNoticed ==
    \A k \in Keys :
        (streak[k] > 0 /\ \A r \in Routes : KeyOf[r] = k => streak[k] >= Threshold[r])
            => tripped[k]

(* A circuit is never open without cause: at least the threshold of one of *)
(* its routes failed in a row, with no success in between.                 *)
OpenIsEarned ==
    \A k \in Keys : openFor[k] > 0 =>
        \E r \in Routes : KeyOf[r] = k /\ streak[k] >= Threshold[r]

(* While a circuit is open the only calls of its key still upstream are    *)
(* those admitted before it opened: none is let through.                   *)
OpenAdmitsNone ==
    \A k \in Keys : openFor[k] > 0 => SlotsOf(k) \cap fresh = {}

(* An open circuit is let close: stragglers can extend the interruption    *)
(* (lines 57 and 64), but only as often as there are stragglers.           *)
OpenExpires == \A k \in Keys : openFor[k] > 0 ~> openFor[k] = 0

(* What may cut an interruption short of its recovery timeout: nothing but *)
(* a call of the key that was upstream when the circuit opened.  It closes *)
(* the circuit when it succeeds (line 68), and one of a route with a       *)
(* shorter timeout may replace the longer one when it fails (line 57).     *)
OnlyStragglersShorten ==
    [][\A k \in Keys : openFor'[k] < openFor[k] =>
          Tick \/ \E s \in SlotsOf(k) \ fresh : call'[s] # call[s]]_vars

-----------------------------------------------------------------------------
(* The inductive invariant behind the four safety properties.              *)

CounterIsStreak ==
    \A k \in Keys : /\ failures[k] <= streak[k]
                    /\ ~tripped[k] => failures[k] = streak[k] /\ openFor[k] = 0

TripIsEarned ==
    \A k \in Keys : tripped[k] =>
        \E r \in Routes : KeyOf[r] = k /\ streak[k] >= Threshold[r]

IInv ==
    /\ TypeOK
    /\ FailuresBelowThreshold
    /\ CounterIsStreak
    /\ TripIsEarned
    /\ OpenAdmitsNone

=============================================================================
