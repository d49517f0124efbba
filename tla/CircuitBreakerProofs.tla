------------------------ MODULE CircuitBreakerProofs ------------------------
(***************************************************************************)
(* The safety of CircuitBreaker for any number of calls, routes, entries,  *)
(* thresholds and timeouts.  IInv is inductive; the three parts that are   *)
(* not themselves promised to a reader (CounterIsStreak, TripIsEarned,     *)
(* FailuresBelowThreshold) carry what the counter remembers across steps.  *)
(***************************************************************************)
EXTENDS CircuitBreaker, TLAPS

USE DEF InFlight

(* Every slot upstream is on a route, and that route has an entry. *)
LEMMA InFlightRoute ==
    ASSUME TypeOK, NEW s \in Slots, InFlight(s)
    PROVE  /\ call[s] \in Routes
           /\ KeyOf[call[s]] \in Keys
           /\ Threshold[call[s]] \in Nat \ {0}
           /\ RecoveryTimeout[call[s]] \in Nat \ {0}
           /\ Threshold[call[s]] <= StreakCap
BY RouteAssumption, CapAssumption DEF TypeOK

(* The bounded count stays in its range and never shrinks. *)
LEMMA LongerBounds ==
    ASSUME NEW n \in 0..StreakCap
    PROVE  /\ Longer(n) \in 0..StreakCap
           /\ n <= Longer(n)
           /\ n < StreakCap => Longer(n) = n + 1
BY CapAssumption DEF Longer

(* No code changes the shape of the dictionary or of the call slots. *)
LEMMA TypeOKStep == TypeOK /\ [Next]_vars => TypeOK'
<1> SUFFICES ASSUME TypeOK, [Next]_vars PROVE TypeOK'
  OBVIOUS
<1>1. ASSUME NEW s \in Slots, NEW r \in Routes, ShortCircuit(s, r) PROVE TypeOK'
  BY <1>1 DEF TypeOK, ShortCircuit, Replies
<1>2. ASSUME NEW s \in Slots, NEW r \in Routes, Admit(s, r) PROVE TypeOK'
  BY <1>2 DEF TypeOK, Admit
<1>3. ASSUME NEW s \in Slots, Succeed(s) PROVE TypeOK'
  <2>1. KeyOf[call[s]] \in Keys
    BY <1>3, InFlightRoute DEF Succeed
  <2> QED
    BY <1>3, <2>1, CapAssumption DEF TypeOK, Succeed, Replies
<1>4. ASSUME NEW s \in Slots, NEW reply \in {"response", "exception"}, Fail(s, reply)
      PROVE  TypeOK'
  <2> DEFINE r == call[s]
             k == KeyOf[r]
  <2>1. /\ r \in Routes
        /\ k \in Keys
        /\ RecoveryTimeout[r] \in Nat
    BY <1>4, InFlightRoute DEF Fail
  <2>2. /\ streak' = [streak EXCEPT ![k] = Longer(@)]
        /\ call' = [call EXCEPT ![s] = reply]
        /\ \/ /\ openFor' = [openFor EXCEPT ![k] = RecoveryTimeout[r]]
              /\ failures' = [failures EXCEPT ![k] = 0]
              /\ tripped' = [tripped EXCEPT ![k] = TRUE]
              /\ fresh' = fresh \ SlotsOf(k)
           \/ /\ failures' = [failures EXCEPT ![k] = @ + 1]
              /\ fresh' = fresh \ {s}
              /\ UNCHANGED <<openFor, tripped>>
    BY <1>4 DEF Fail
  <2>3. Longer(streak[k]) \in 0..StreakCap
    BY <2>1, LongerBounds DEF TypeOK
  <2> HIDE DEF r, k
  <2>4. call' \in [Slots -> Routes \cup Replies] /\ streak' \in [Keys -> 0..StreakCap]
    BY <2>1, <2>2, <2>3 DEF TypeOK, Replies
  <2>5. failures' \in [Keys -> Nat] /\ openFor' \in [Keys -> Nat]
    BY <2>1, <2>2 DEF TypeOK
  <2>6. tripped' \in [Keys -> BOOLEAN] /\ fresh' \subseteq Slots
    BY <2>1, <2>2 DEF TypeOK
  <2> QED
    BY <2>4, <2>5, <2>6 DEF TypeOK
<1>5. ASSUME Tick PROVE TypeOK'
  <2>1. \A k \in Keys : Left(openFor[k]) \in Nat
    BY DEF TypeOK, Left
  <2> QED
    BY <1>5, <2>1 DEF TypeOK, Tick
<1>6. CASE UNCHANGED vars
  BY <1>6 DEF TypeOK, vars
<1> QED
  BY <1>1, <1>2, <1>3, <1>4, <1>5, <1>6 DEF Next, Return

(* Every behaviour keeps the types of CIRCUIT_BREAKER_STATE and of the     *)
(* calls (lines 19 to 22 and 45 to 70 of the plugin).                      *)
THEOREM TypeCorrect == Spec => []TypeOK
<1>1. Init => TypeOK
  BY CapAssumption DEF Init, TypeOK, Replies
<1> QED
  BY <1>1, TypeOKStep, PTL DEF Spec

-----------------------------------------------------------------------------

(* What Fail does to the entry k of its route r, and what it leaves alone. *)
FailChanges(s, r, k) ==
    /\ r = call[s] /\ k = KeyOf[r]
    /\ streak'[k] = Longer(streak[k])
    /\ \/ /\ failures[k] + 1 >= Threshold[r]
          /\ failures'[k] = 0 /\ tripped'[k] = TRUE
          /\ fresh' = fresh \ SlotsOf(k)
       \/ /\ ~(failures[k] + 1 >= Threshold[r])
          /\ failures'[k] = failures[k] + 1
          /\ tripped'[k] = tripped[k] /\ openFor'[k] = openFor[k]
          /\ fresh' = fresh \ {s}
    /\ \A j \in Keys \ {k} :
         /\ failures'[j] = failures[j] /\ streak'[j] = streak[j]
         /\ tripped'[j] = tripped[j] /\ openFor'[j] = openFor[j]

LEMMA FailEffect ==
    ASSUME TypeOK, NEW s \in Slots, NEW reply \in {"response", "exception"},
           Fail(s, reply)
    PROVE  \E r \in Routes, k \in Keys : FailChanges(s, r, k)
<1>1. PICK r \in Routes, k \in Keys : r = call[s] /\ k = KeyOf[r]
  BY InFlightRoute DEF Fail
<1>2. /\ streak' = [streak EXCEPT ![k] = Longer(@)]
      /\ \/ /\ failures[k] + 1 >= Threshold[r]
            /\ openFor' = [openFor EXCEPT ![k] = RecoveryTimeout[r]]
            /\ failures' = [failures EXCEPT ![k] = 0]
            /\ tripped' = [tripped EXCEPT ![k] = TRUE]
            /\ fresh' = fresh \ SlotsOf(k)
         \/ /\ ~(failures[k] + 1 >= Threshold[r])
            /\ failures' = [failures EXCEPT ![k] = @ + 1]
            /\ UNCHANGED <<openFor, tripped>>
            /\ fresh' = fresh \ {s}
  BY <1>1 DEF Fail, Trips
<1>3. \A j \in Keys \ {k} :
        /\ failures'[j] = failures[j] /\ streak'[j] = streak[j]
        /\ tripped'[j] = tripped[j] /\ openFor'[j] = openFor[j]
  BY <1>1, <1>2 DEF TypeOK
<1> QED
  BY <1>1, <1>2, <1>3 DEF TypeOK, FailChanges

(* The same for Succeed: its entry is cleared. *)
SucceedChanges(s, k) ==
    /\ k = KeyOf[call[s]]
    /\ failures'[k] = 0 /\ streak'[k] = 0 /\ tripped'[k] = FALSE /\ openFor'[k] = 0
    /\ \A j \in Keys \ {k} :
         /\ failures'[j] = failures[j] /\ streak'[j] = streak[j]
         /\ tripped'[j] = tripped[j] /\ openFor'[j] = openFor[j]

LEMMA SucceedEffect ==
    ASSUME TypeOK, NEW s \in Slots, Succeed(s)
    PROVE  \E k \in Keys : SucceedChanges(s, k)
<1>1. PICK k \in Keys : k = KeyOf[call[s]]
  BY InFlightRoute DEF Succeed
<1> QED
  BY <1>1 DEF TypeOK, Succeed, SucceedChanges

(* The counter part of the inductive invariant, for one entry. *)
CounterOK(k) ==
    /\ failures[k] <= streak[k]
    /\ ~tripped[k] => failures[k] = streak[k] /\ openFor[k] = 0
    /\ failures[k] > 0 => \E r \in Routes : KeyOf[r] = k /\ failures[k] < Threshold[r]
    /\ tripped[k] => \E r \in Routes : KeyOf[r] = k /\ streak[k] >= Threshold[r]

LEMMA CounterOKIsIInv ==
    (\A k \in Keys : CounterOK(k)) <=>
        FailuresBelowThreshold /\ CounterIsStreak /\ TripIsEarned
BY DEF CounterOK, FailuresBelowThreshold, CounterIsStreak, TripIsEarned

LEMMA CounterFail ==
    ASSUME TypeOK, \A j \in Keys : CounterOK(j),
           NEW s \in Slots, NEW reply \in {"response", "exception"}, Fail(s, reply),
           NEW j \in Keys
    PROVE  CounterOK(j)'
<1>1. PICK r \in Routes, k \in Keys : FailChanges(s, r, k)
  BY FailEffect
<1> USE DEF FailChanges
<1>2. /\ Threshold[r] \in Nat \ {0} /\ Threshold[r] <= StreakCap
      /\ \A q \in Routes : Threshold[q] \in Nat
      /\ streak[k] \in 0..StreakCap
      /\ failures[k] \in Nat
      /\ StreakCap \in Nat
  BY <1>1, RouteAssumption, CapAssumption DEF TypeOK
<1>3. /\ streak'[k] \in 0..StreakCap /\ streak[k] <= streak'[k]
      /\ streak[k] < StreakCap => streak'[k] = streak[k] + 1
  BY <1>1, <1>2, LongerBounds
<1>4. CASE j # k
  BY <1>1, <1>4 DEF CounterOK
<1>5. CASE j = k
  <2>1. CASE /\ failures[k] + 1 >= Threshold[r]
             /\ failures'[k] = 0 /\ tripped'[k] = TRUE
    <3>1. streak'[k] >= Threshold[r]
      BY <1>2, <1>3, <2>1 DEF CounterOK
    <3> QED
      BY <1>1, <1>3, <1>5, <2>1, <3>1 DEF CounterOK
  <2>2. CASE /\ ~(failures[k] + 1 >= Threshold[r])
             /\ failures'[k] = failures[k] + 1
             /\ tripped'[k] = tripped[k] /\ openFor'[k] = openFor[k]
    <3>1. failures'[k] < Threshold[r] /\ failures'[k] <= streak'[k]
      BY <1>2, <1>3, <2>2 DEF CounterOK
    <3>2. ~tripped[k] => failures'[k] = streak'[k] /\ openFor'[k] = 0
      BY <1>2, <1>3, <2>2 DEF CounterOK
    <3>3. tripped[k] => \E q \in Routes : KeyOf[q] = k /\ streak'[k] >= Threshold[q]
      BY <1>2, <1>3 DEF CounterOK
    <3> QED
      BY <1>1, <1>5, <2>2, <3>1, <3>2, <3>3 DEF CounterOK
  <2> QED
    BY <1>1, <2>1, <2>2
<1> QED
  BY <1>4, <1>5

LEMMA CounterStep ==
    ASSUME TypeOK, \A j \in Keys : CounterOK(j), [Next]_vars
    PROVE  \A j \in Keys : CounterOK(j)'
<1> TAKE j \in Keys
<1>1. CASE UNCHANGED <<failures, openFor, streak, tripped>>
  BY <1>1 DEF CounterOK
<1>2. ASSUME NEW s \in Slots, Succeed(s) PROVE CounterOK(j)'
  <2>1. PICK k \in Keys : SucceedChanges(s, k)
    BY <1>2, SucceedEffect
  <2> QED
    BY <2>1 DEF CounterOK, SucceedChanges
<1>3. ASSUME NEW s \in Slots, NEW reply \in {"response", "exception"}, Fail(s, reply)
      PROVE  CounterOK(j)'
  BY <1>3, CounterFail
<1>4. CASE Tick
  <2>1. openFor'[j] = Left(openFor[j]) /\ UNCHANGED <<failures, streak, tripped>>
    BY <1>4 DEF Tick
  <2> QED
    BY <2>1 DEF CounterOK, Left
<1> QED
  BY <1>1, <1>2, <1>3, <1>4 DEF Next, Return, ShortCircuit, Admit, vars

-----------------------------------------------------------------------------

(* The part of OpenAdmitsNone about one entry. *)
NoneFresh(k) == openFor[k] > 0 => SlotsOf(k) \cap fresh = {}

LEMMA OpenAdmitsNoneStep ==
    ASSUME TypeOK, OpenAdmitsNone, [Next]_vars
    PROVE  OpenAdmitsNone'
<1> SUFFICES ASSUME NEW j \in Keys, NoneFresh(j) PROVE NoneFresh(j)'
  BY DEF OpenAdmitsNone, NoneFresh
<1>1. ASSUME NEW s \in Slots, NEW r \in Routes, ShortCircuit(s, r) PROVE NoneFresh(j)'
  <2>1. SlotsOf(j)' = SlotsOf(j)
    BY <1>1, RouteAssumption DEF TypeOK, ShortCircuit, SlotsOf, Replies
  <2> QED
    BY <1>1, <2>1 DEF NoneFresh, ShortCircuit
<1>2. ASSUME NEW s \in Slots, NEW r \in Routes, Admit(s, r) PROVE NoneFresh(j)'
  <2>1. CASE j = KeyOf[r]
    BY <1>2, <2>1 DEF NoneFresh, Admit, IsOpen
  <2>2. CASE j # KeyOf[r]
    <3>1. SlotsOf(j)' = SlotsOf(j) /\ s \notin SlotsOf(j)
      BY <1>2, <2>2, RouteAssumption DEF TypeOK, Admit, SlotsOf
    <3> QED
      BY <1>2, <3>1 DEF NoneFresh, Admit
  <2> QED
    BY <2>1, <2>2
<1>3. ASSUME NEW s \in Slots, Succeed(s) PROVE NoneFresh(j)'
  <2>1. SlotsOf(j)' \subseteq SlotsOf(j) /\ fresh' \subseteq fresh
    BY <1>3, RouteAssumption DEF TypeOK, Succeed, SlotsOf, Replies
  <2>2. openFor'[j] > 0 => openFor[j] > 0
    BY <1>3 DEF TypeOK, Succeed
  <2> QED
    BY <2>1, <2>2 DEF NoneFresh
<1>4. ASSUME NEW s \in Slots, NEW reply \in {"response", "exception"}, Fail(s, reply)
      PROVE  NoneFresh(j)'
  <2>1. PICK r \in Routes, k \in Keys : FailChanges(s, r, k)
    BY <1>4, FailEffect
  <2>2. SlotsOf(j)' \subseteq SlotsOf(j)
    BY <1>4, RouteAssumption DEF TypeOK, Fail, SlotsOf, Replies
  <2>3. \/ fresh' = fresh \ SlotsOf(k)
        \/ fresh' = fresh \ {s} /\ openFor'[k] = openFor[k]
    BY <2>1 DEF FailChanges
  <2>4. j # k => openFor'[j] = openFor[j]
    BY <2>1 DEF FailChanges
  <2> QED
    BY <2>2, <2>3, <2>4 DEF NoneFresh
<1>5. CASE Tick
  <2>1. openFor'[j] > 0 => openFor[j] > 0
    BY <1>5 DEF TypeOK, Tick, Left
  <2> QED
    BY <1>5, <2>1 DEF NoneFresh, Tick, SlotsOf
<1>6. CASE UNCHANGED vars
  BY <1>6 DEF NoneFresh, SlotsOf, vars
<1> QED
  BY <1>1, <1>2, <1>3, <1>4, <1>5, <1>6 DEF Next, Return

LEMMA IInvStep == IInv /\ [Next]_vars => IInv'
<1> SUFFICES ASSUME IInv, [Next]_vars PROVE IInv'
  OBVIOUS
<1>1. TypeOK'
  BY TypeOKStep DEF IInv
<1>2. OpenAdmitsNone'
  BY OpenAdmitsNoneStep DEF IInv
<1>3. \A k \in Keys : CounterOK(k)'
  BY CounterOKIsIInv, CounterStep DEF IInv
<1>4. (FailuresBelowThreshold /\ CounterIsStreak /\ TripIsEarned)'
  BY <1>3 DEF CounterOK, FailuresBelowThreshold, CounterIsStreak, TripIsEarned
<1> QED
  BY <1>1, <1>2, <1>4 DEF IInv

(* The inductive invariant holds throughout. *)
THEOREM IInvHolds == Spec => []IInv
<1>1. Init => IInv
  <2>1. Init => TypeOK
    BY CapAssumption DEF Init, TypeOK, Replies
  <2> QED
    BY <2>1, CapAssumption DEF Init, IInv, FailuresBelowThreshold, CounterIsStreak,
       TripIsEarned, OpenAdmitsNone
<1> QED
  BY <1>1, IInvStep, PTL DEF Spec

(* However calls overlap, the failure counter of an entry stays below the  *)
(* threshold of some route that uses it (lines 55 to 58, 62 to 65).        *)
THEOREM CounterBounded == Spec => []FailuresBelowThreshold
BY IInvHolds, PTL DEF IInv

(* A run of failures as long as the most patient route allows has opened   *)
(* the circuit since the last success (lines 56 and 63).                   *)
THEOREM OutagesNoticed == Spec => []OutageIsNoticed
<1>1. IInv => OutageIsNoticed
  <2> SUFFICES ASSUME IInv, NEW k \in Keys, streak[k] > 0,
                      \A r \in Routes : KeyOf[r] = k => streak[k] >= Threshold[r],
                      ~tripped[k]
               PROVE  FALSE
    BY DEF OutageIsNoticed
  <2>1. failures[k] = streak[k]
    BY DEF IInv, CounterIsStreak, TypeOK
  <2>2. PICK r \in Routes : KeyOf[r] = k /\ failures[k] < Threshold[r]
    BY <2>1 DEF IInv, FailuresBelowThreshold
  <2> QED
    BY <2>1, <2>2, RouteAssumption DEF IInv, TypeOK
<1> QED
  BY <1>1, IInvHolds, PTL

(* A circuit is open only after as many failures in a row as one of its    *)
(* routes tolerates (line 32 finds opened_until set by line 57 or 64).     *)
THEOREM OpenEarned == Spec => []OpenIsEarned
<1>1. IInv => OpenIsEarned
  <2> SUFFICES ASSUME IInv, NEW k \in Keys, openFor[k] > 0
               PROVE  \E r \in Routes : KeyOf[r] = k /\ streak[k] >= Threshold[r]
    BY DEF OpenIsEarned
  <2>1. tripped[k]
    BY DEF IInv, CounterIsStreak, TypeOK
  <2> QED
    BY <2>1 DEF IInv, TripIsEarned
<1> QED
  BY <1>1, IInvHolds, PTL

(* While a circuit is open, only calls admitted before it opened are still *)
(* upstream (lines 32 to 47).                                              *)
THEOREM OpenCircuitAdmitsNone == Spec => []OpenAdmitsNone
BY IInvHolds, PTL DEF IInv

(* Only time and calls admitted before the circuit opened take anything    *)
(* from an interruption (lines 57, 64 and 68).                             *)
THEOREM StragglersShorten == Spec => OnlyStragglersShorten
<1> DEFINE Cut(k) == openFor'[k] < openFor[k] =>
                        Tick \/ \E s \in SlotsOf(k) \ fresh : call'[s] # call[s]
<1>1. ASSUME IInv, [Next]_vars, NEW k \in Keys PROVE Cut(k)
  <2> SUFFICES ASSUME openFor'[k] < openFor[k], ~Tick
               PROVE  \E s \in SlotsOf(k) \ fresh : call'[s] # call[s]
    OBVIOUS
  <2>1. openFor[k] \in Nat
    BY <1>1 DEF IInv, TypeOK
  <2>2. openFor[k] > 0 => SlotsOf(k) \cap fresh = {}
    BY <1>1 DEF IInv, OpenAdmitsNone
  <2>3. PICK s \in Slots : Return(s)
    BY <1>1, <2>1 DEF Next, ShortCircuit, Admit, vars
  <2>4. call[s] \in Routes /\ call'[s] \in Replies /\ call'[s] # call[s]
    BY <1>1, <2>3, RouteAssumption DEF IInv, TypeOK, Return, Succeed, Fail, InFlight, Replies
  <2>5. openFor[k] > 0 /\ s \in SlotsOf(k)
    <3>1. CASE Succeed(s)
      BY <3>1, <1>1, <2>1, <2>4 DEF IInv, TypeOK, Succeed, SlotsOf, InFlight
    <3>2. ASSUME NEW reply \in {"response", "exception"}, Fail(s, reply)
          PROVE  openFor[k] > 0 /\ s \in SlotsOf(k)
      BY <3>2, <1>1, <2>1, <2>4, RouteAssumption DEF IInv, TypeOK, Fail, SlotsOf, InFlight
    <3> QED
      BY <2>3, <3>1, <3>2 DEF Return
  <2> QED
    BY <2>2, <2>4, <2>5
<1>2. IInv /\ [Next]_vars => [\A k \in Keys : Cut(k)]_vars
  BY <1>1
<1> QED
  BY <1>2, IInvHolds, PTL DEF Spec, OnlyStragglersShorten

=============================================================================
