--------------------------- MODULE RateLimitProofs ---------------------------
(***************************************************************************)
(* For any requests, configurations, clock and failures of Redis: of the   *)
(* requests counted before their window ended no more get through than the *)
(* limit.  The limit is only compared with what INCR returned, so IInv     *)
(* relates the two: while the window of a counter lasts, the counter is at *)
(* least the number of requests it let through (Accounted), because it     *)
(* does not expire before (OutlivesWindow).                                *)
(***************************************************************************)
EXTENDS RateLimit, FiniteSetTheorems, WellFoundedInduction, TLAPS

(* The state's types, as far as the argument needs them. *)
Types ==
    /\ now \in Start .. Horizon
    /\ counter \in [Keys -> Nat]
    /\ deadline \in [Keys -> Nat]
    /\ stage \in [Requests -> {"new", "incr", "expire", "allowed", "refused", "failed"}]
    /\ stamp \in [Requests -> Nat]
    /\ late \subseteq Requests

Called == {"incr", "expire", "allowed"}

StampedBefore ==
    \A r \in Requests : stage[r] \in Called =>
        WindowsOf(r) \in Nat \ {0} /\ stamp[r] \in Start .. now

(* The key of a request stamped at t. *)
KeyAt(r, t) == <<Scope(r), t \div WindowsOf(r)>>

(* A counter with a deadline lasts as long as its window. *)
OutlivesWindow ==
    \A k \in Keys : deadline[k] # NoDeadline =>
        \A s \in Requests, t \in Start .. Horizon :
            WindowsOf(s) # 0 /\ KeyAt(s, t) = k => t < deadline[k]

(* The timely requests that have passed, or pass once they set the time to live. *)
Passing ==
    {s \in Requests \ late :
        stage[s] = "allowed" \/ (stage[s] = "expire" /\ Effective(s).limit >= 1)}

Counters == [r \in Requests |-> Key(r)]

(* Of the requests P, with counters K: those at r's, those equal to r. *)
Through(P, K, r) == {s \in P : K[s] = K[r]}
Equals(P, K, r) == {s \in Through(P, K, r) : Effective(s) = Effective(r)}

Accounted ==
    \A s \in Passing : OnTime(s) =>
        Cardinality(Through(Passing, Counters, s)) <= counter[Key(s)]

WithinLimit ==
    /\ \A r \in Requests : stage[r] = "allowed" => Effective(r).limit >= 1
    /\ \A r \in Passing : Cardinality(Equals(Passing, Counters, r)) <= Effective(r).limit

IInv == Types /\ StampedBefore /\ OutlivesWindow /\ Accounted /\ WithinLimit

-----------------------------------------------------------------------------
(* Division: windows are intervals, and the clock meets them in order. *)

LEMMA WindowLength ==
    ASSUME NEW t \in Nat, NEW u \in Nat, NEW w \in Nat \ {0}, t \div w = u \div w
    PROVE  t < u + w
OBVIOUS

LEMMA WindowsInOrder ==
    ASSUME NEW t \in Nat, NEW u \in Nat, NEW v \in Nat, NEW w \in Nat \ {0},
           t <= u, u <= v, t \div w = v \div w
    PROVE  t \div w = u \div w
OBVIOUS

(* A called request's key is one of Redis's. *)
LEMMA KeyIsKey ==
    ASSUME StampedBefore, Types, NEW r \in Requests, stage[r] \in Called
    PROVE  Key(r) \in Keys
<1>1. WindowsOf(r) # 0 /\ stamp[r] \in Start .. Horizon
  BY RateLimitAssumption DEF StampedBefore, Types
<1> QED
  BY <1>1 DEF Key, Keys

(* Whoever has the same counter has the same window. *)
LEMMA SameWindow ==
    ASSUME NEW r \in Requests, NEW s \in Requests,
           NEW t \in Start .. Horizon, NEW u \in Start .. Horizon,
           WindowsOf(r) # 0, WindowsOf(s) # 0, KeyAt(r, t) = KeyAt(s, u)
    PROVE  WindowsOf(r) = WindowsOf(s)
BY RateLimitAssumption DEF KeyAt

LEMMA ThroughFinite ==
    ASSUME NEW P \in SUBSET Requests, NEW K, NEW r
    PROVE  /\ IsFiniteSet(Through(P, K, r)) /\ Cardinality(Through(P, K, r)) \in Nat
           /\ IsFiniteSet(Equals(P, K, r)) /\ Cardinality(Equals(P, K, r)) \in Nat
           /\ Cardinality(Equals(P, K, r)) <= Cardinality(Through(P, K, r))
<1>1. IsFiniteSet(Through(P, K, r)) /\ Cardinality(Through(P, K, r)) \in Nat
  <2>1. Through(P, K, r) \in SUBSET Requests
    BY DEF Through
  <2> QED
    BY <2>1, RateLimitAssumption, FS_Subset, FS_CardinalityType
<1>2. Equals(P, K, r) \in SUBSET Through(P, K, r)
  BY DEF Equals
<1> QED
  BY <1>1, <1>2, FS_Subset, FS_CardinalityType

(* With fewer requests there are no more at a counter. *)
LEMMA ThroughMonotone ==
    ASSUME NEW P \in SUBSET Requests, NEW Q \in SUBSET P, NEW K, NEW L, NEW r \in Q,
           \A s \in Q : K[s] = L[s]
    PROVE  /\ Cardinality(Through(Q, L, r)) <= Cardinality(Through(P, K, r))
           /\ Cardinality(Equals(Q, L, r)) <= Cardinality(Equals(P, K, r))
<1>1. Through(Q, L, r) \in SUBSET Through(P, K, r)
  BY DEF Through
<1>2. Equals(Q, L, r) \in SUBSET Equals(P, K, r)
  BY <1>1 DEF Equals
<1> QED
  BY <1>1, <1>2, ThroughFinite, FS_Subset

-----------------------------------------------------------------------------

LEMMA Initially == Init => IInv
<1> SUFFICES ASSUME Init PROVE IInv
  OBVIOUS
<1>1. Types
  BY RateLimitAssumption DEF Init, Types, NoDeadline
<1>2. Passing = {}
  BY DEF Init, Passing
<1>3. StampedBefore /\ OutlivesWindow /\ Accounted /\ WithinLimit
  BY <1>2 DEF Init, StampedBefore, Called, OutlivesWindow, Accounted, WithinLimit
<1> QED
  BY <1>1, <1>3 DEF IInv

(* What a step leaves true that lets nobody more through and lowers no     *)
(* counter whose window lasts.                                             *)
LEMMA NobodyEnters ==
    ASSUME Types, StampedBefore, Accounted, WithinLimit, Types', Passing' \subseteq Passing,
           \A s \in Passing' : /\ stamp'[s] = stamp[s]
                               /\ OnTime(s)' => OnTime(s) /\ counter[Key(s)] <= counter'[Key(s)],
           \A s \in Requests : stage'[s] = "allowed" =>
                stage[s] = "allowed" \/ Effective(s).limit >= 1
    PROVE  Accounted' /\ WithinLimit'
<1>1. \A s \in Passing' : Key(s)' = Key(s) /\ Counters'[s] = Counters[s] /\ s \in Requests
  BY DEF Key, Counters, Passing
<1>2. Passing \in SUBSET Requests /\ Passing' \in SUBSET Passing
  BY DEF Passing
<1>3. ASSUME NEW s \in Passing', OnTime(s)'
      PROVE  Cardinality(Through(Passing', Counters', s)) <= counter'[Key(s)']
  <2>1. Cardinality(Through(Passing, Counters, s)) <= counter[Key(s)]
    BY <1>2, <1>3 DEF Accounted, OnTime
  <2>2. Key(s) \in Keys
    BY <1>2, <1>3, KeyIsKey DEF Passing, Called
  <2>3. /\ counter[Key(s)] \in Nat /\ counter'[Key(s)] \in Nat
        /\ counter[Key(s)] <= counter'[Key(s)]
    BY <1>3, <2>2 DEF Types, OnTime, Key
  <2>4. Cardinality(Through(Passing', Counters', s)) <= Cardinality(Through(Passing, Counters, s))
    BY <1>1, <1>2, <1>3, ThroughMonotone
  <2>5. /\ Cardinality(Through(Passing, Counters, s)) \in Nat
        /\ Cardinality(Through(Passing', Counters', s)) \in Nat
    BY <1>2, ThroughFinite
  <2>6. Cardinality(Through(Passing', Counters', s)) <= counter'[Key(s)]
    BY <2>1, <2>3, <2>4, <2>5
  <2> QED
    BY <1>1, <1>3, <2>6 DEF Key
<1>4. ASSUME NEW r \in Passing'
      PROVE  Cardinality(Equals(Passing', Counters', r)) <= Effective(r).limit
  <2>1. Cardinality(Equals(Passing, Counters, r)) <= Effective(r).limit
    BY <1>2, <1>4 DEF WithinLimit
  <2>2. Cardinality(Equals(Passing', Counters', r)) <= Cardinality(Equals(Passing, Counters, r))
    BY <1>1, <1>2, <1>4, ThroughMonotone
  <2>3. /\ Cardinality(Equals(Passing, Counters, r)) \in Nat
        /\ Cardinality(Equals(Passing', Counters', r)) \in Nat
        /\ Effective(r).limit \in Int
    BY <1>2, <1>4, ThroughFinite, RateLimitAssumption
  <2> QED
    BY <2>1, <2>2, <2>3
<1> QED
  BY <1>3, <1>4 DEF Accounted, WithinLimit, Key, OnTime

-----------------------------------------------------------------------------

LEMMA TypesStep == Types /\ StampedBefore /\ [Next]_vars => Types' /\ StampedBefore'
<1> SUFFICES ASSUME Types, StampedBefore, [Next]_vars PROVE Types' /\ StampedBefore'
  OBVIOUS
<1> USE RateLimitAssumption DEF Types, StampedBefore, Called
<1>1. ASSUME NEW r \in Requests, Stamp(r) PROVE Types' /\ StampedBefore'
  BY <1>1 DEF Stamp
<1>2. ASSUME NEW r \in Requests, Increment(r) PROVE Types' /\ StampedBefore'
  <2>1. Key(r) \in Keys
    BY <1>2, KeyIsKey DEF Increment
  <2>2. PICK n \in 0 .. MaxRepeats : counter' = [counter EXCEPT ![Key(r)] = counter[Key(r)] + n + 1]
    BY <1>2 DEF Increment
  <2>3. counter' \in [Keys -> Nat]
    BY <2>1, <2>2
  <2> QED
    BY <1>2, <2>3 DEF Increment, Decision
<1>3. ASSUME NEW r \in Requests, IncrementRaises(r) PROVE Types' /\ StampedBefore'
  <2>1. Key(r) \in Keys
    BY <1>3, KeyIsKey DEF IncrementRaises
  <2>2. PICK n \in 0 .. MaxRepeats + 1 : counter' = [counter EXCEPT ![Key(r)] = @ + n]
    BY <1>3 DEF IncrementRaises
  <2>3. counter' \in [Keys -> Nat]
    BY <2>1, <2>2
  <2> QED
    BY <1>3, <2>3 DEF IncrementRaises
<1>4. ASSUME NEW r \in Requests, Expire(r) PROVE Types' /\ StampedBefore'
  BY <1>4, KeyIsKey DEF Expire, Decision
<1>5. ASSUME NEW r \in Requests, ExpireRaises(r) PROVE Types' /\ StampedBefore'
  BY <1>5 DEF ExpireRaises
<1>6. ASSUME Tick PROVE Types' /\ StampedBefore'
  <2>1. counter' \in [Keys -> Nat] /\ deadline' \in [Keys -> Nat]
    BY <1>6 DEF Tick, NoDeadline
  <2> QED
    BY <1>6, <2>1 DEF Tick
<1>7. CASE UNCHANGED vars
  BY <1>7 DEF vars
<1> QED
  BY <1>1, <1>2, <1>3, <1>4, <1>5, <1>6, <1>7 DEF Next, Step

(* The time to live is set late rather than early: it is counted from the  *)
(* call, not from the beginning of the window.                             *)
LEMMA OutlivesWindowStep ==
    Types /\ StampedBefore /\ OutlivesWindow /\ [Next]_vars => OutlivesWindow'
<1> SUFFICES ASSUME Types, StampedBefore, OutlivesWindow, [Next]_vars PROVE OutlivesWindow'
  OBVIOUS
<1>1. ASSUME NEW r \in Requests, Expire(r) PROVE OutlivesWindow'
  <2> SUFFICES ASSUME NEW k \in Keys, deadline'[k] # NoDeadline,
                      NEW s \in Requests, NEW t \in Start .. Horizon,
                      WindowsOf(s) # 0, KeyAt(s, t) = k
               PROVE  t < deadline'[k]
    BY DEF OutlivesWindow
  <2>1. CASE k # Key(r)
    BY <1>1, <2>1 DEF Expire, Types, OutlivesWindow
  <2>2. CASE k = Key(r)
    <3>1. WindowsOf(r) \in Nat \ {0} /\ stamp[r] \in Start .. now /\ stamp[r] \in Start .. Horizon
      BY <1>1, RateLimitAssumption DEF Expire, StampedBefore, Called, Types
    <3>2. KeyAt(s, t) = KeyAt(r, stamp[r])
      BY <2>2 DEF Key, KeyAt
    <3>3. WindowsOf(s) = WindowsOf(r)
      BY <3>1, <3>2, SameWindow
    <3>4. t < stamp[r] + WindowsOf(r)
      <4>1. t \div WindowsOf(r) = stamp[r] \div WindowsOf(r)
        BY <3>2, <3>3 DEF KeyAt
      <4>2. t \in Nat /\ stamp[r] \in Nat
        BY <3>1, RateLimitAssumption
      <4> QED
        BY <3>1, <4>1, <4>2, WindowLength
    <3>5. deadline'[k] = now + WindowsOf(r)
      BY <1>1, <2>2 DEF Expire, Types
    <3> QED
      BY <3>1, <3>4, <3>5, RateLimitAssumption DEF Types
  <2> QED
    BY <2>1, <2>2
<1>2. CASE Tick
  BY <1>2 DEF Tick, OutlivesWindow, Types
<1>3. CASE UNCHANGED deadline
  BY <1>3 DEF OutlivesWindow
<1> QED
  BY <1>1, <1>2, <1>3
     DEF Next, Step, Stamp, Increment, IncrementRaises, ExpireRaises, vars

-----------------------------------------------------------------------------

(* The request that INCR counted gets through only on a count of its own,  *)
(* within its limit, and the counter accounts for those before it.         *)
LEMMA IncrementStep ==
    ASSUME IInv, Types', NEW r \in Requests, Increment(r)
    PROVE  Accounted' /\ WithinLimit'
<1> DEFINE k == Key(r)
<1> USE DEF IInv
<1>1. PICK n \in 0 .. MaxRepeats :
        /\ counter' = [counter EXCEPT ![k] = counter[k] + n + 1]
        /\ late' = IF OnTime(r) THEN late ELSE late \cup {r}
        /\ stage' = [stage EXCEPT ![r] = IF First(counter[k] + n + 1) THEN "expire"
                                         ELSE Decision(counter[k] + n + 1, Effective(r))]
  BY DEF Increment
<1>2. /\ k \in Keys /\ WindowsOf(r) \in Nat \ {0} /\ stamp[r] \in Start .. Horizon
      /\ counter[k] \in Nat /\ Effective(r).limit \in Int /\ n \in Nat
  BY KeyIsKey, RateLimitAssumption DEF Increment, Called, Types, StampedBefore
<1>3. /\ UNCHANGED <<now, stamp>> /\ Counters' = Counters
      /\ counter'[k] = counter[k] + n + 1
      /\ \A q \in Keys : counter[q] <= counter'[q]
  BY <1>1, <1>2 DEF Increment, Counters, Key, Types
<1>4. Passing \in SUBSET Requests /\ r \notin Passing /\ Passing' \subseteq Passing \cup {r}
  BY <1>1 DEF Passing, Increment, Types
<1>5. stage'[r] = "allowed" \/ r \in Passing' => counter'[k] <= Effective(r).limit
  BY <1>1, <1>2, <1>3 DEF Types, Passing, First, Decision, Allows
<1>6. r \in Passing' => OnTime(r)
  BY <1>1 DEF Passing
<1>7. \A s \in Requests : stage'[s] = "allowed" => stage[s] = "allowed" \/ Effective(s).limit >= 1
  <2>1. stage'[r] = "allowed" => Effective(r).limit >= 1
    BY <1>2, <1>3, <1>5
  <2> QED
    BY <1>1, <2>1 DEF Types
<1>8. CASE r \notin Passing'
  <2>1. Passing' \subseteq Passing
    BY <1>4, <1>8
  <2>2. \A s \in Passing' : counter[Key(s)] <= counter'[Key(s)]
    BY <1>3, <1>4, <2>1, KeyIsKey DEF Passing, Called
  <2> QED
    BY <1>3, <1>7, <2>1, <2>2, NobodyEnters DEF OnTime
<1>9. CASE r \in Passing'
  <2> DEFINE T(s) == Through(Passing, Counters, s)
             N(s) == Through(Passing', Counters', s)
  <2>1. Passing' = Passing \cup {r}
    BY <1>1, <1>4, <1>6, <1>9 DEF Passing, Types
  <2>2. \A s : /\ IsFiniteSet(T(s)) /\ Cardinality(T(s)) \in Nat
               /\ IsFiniteSet(N(s)) /\ Cardinality(N(s)) \in Nat
    BY <1>4, <2>1, ThroughFinite
  <2>3. Cardinality(N(r)) <= counter'[k]
    <3>1. Cardinality(N(r)) <= Cardinality(T(r)) + 1
      <4>1. N(r) = T(r) \cup {r}
        BY <1>3, <2>1 DEF Through
      <4>2. Cardinality(T(r) \cup {r}) = IF r \in T(r) THEN Cardinality(T(r)) ELSE Cardinality(T(r)) + 1
        BY <2>2, FS_AddElement
      <4>3. Cardinality(T(r)) \in Nat
        BY <2>2
      <4> HIDE DEF T, N
      <4> QED
        BY <4>1, <4>2, <4>3
    <3>2. CASE T(r) = {}
      BY <1>2, <1>3, <2>2, <3>1, <3>2, FS_EmptySet
    <3>3. CASE T(r) # {}
      <4>1. PICK s \in Passing : Counters[s] = Counters[r]
        BY <3>3 DEF Through
      <4>2. s \in Requests /\ Key(s) = k
        BY <1>4, <4>1 DEF Counters
      <4>3. WindowsOf(s) # 0 /\ stamp[s] \in Start .. Horizon
        BY <4>1, RateLimitAssumption DEF Passing, StampedBefore, Called, Types
      <4>4. WindowsOf(s) = WindowsOf(r)
        BY <1>2, <4>2, <4>3, SameWindow DEF Key, KeyAt
      <4>5. OnTime(s)
        BY <1>6, <1>9, <4>2, <4>4 DEF OnTime, Key
      <4>6. Cardinality(T(s)) <= counter[k]
        BY <4>1, <4>2, <4>5 DEF Accounted
      <4>7. T(s) = T(r)
        BY <4>1 DEF Through
      <4> QED
        BY <1>2, <1>3, <2>2, <3>1, <4>6, <4>7
    <3> QED
      BY <3>2, <3>3
  <2>4. ASSUME NEW s \in Passing', Key(s) = k
        PROVE  Cardinality(N(s)) <= counter'[k]
    <3>1. N(s) = N(r)
      BY <1>3, <1>4, <2>1, <2>4 DEF Through, Counters
    <3> QED
      BY <2>3, <3>1
  <2>5. ASSUME NEW s \in Passing', Key(s) # k
        PROVE  s \in Passing /\ N(s) = T(s)
               /\ Equals(Passing', Counters', s) = Equals(Passing, Counters, s)
    BY <1>3, <1>4, <2>1, <2>5 DEF Through, Counters, Equals
  <2>6. Accounted'
    <3> SUFFICES ASSUME NEW s \in Passing', OnTime(s)
                 PROVE  Cardinality(N(s)) <= counter'[Key(s)]
      BY <1>3 DEF Accounted, OnTime, Key
    <3>1. CASE Key(s) = k
      BY <2>4, <3>1
    <3>2. CASE Key(s) # k
      <4>1. Cardinality(T(s)) <= counter[Key(s)] /\ Key(s) \in Keys
        BY <1>4, <2>5, <3>2, KeyIsKey DEF Accounted, Passing, Called
      <4>2. counter'[Key(s)] = counter[Key(s)]
        BY <1>1, <3>2, <4>1 DEF Types
      <4> QED
        BY <2>5, <3>2, <4>1, <4>2
    <3> QED
      BY <3>1, <3>2
  <2>7. ASSUME NEW s \in Passing'
        PROVE  Cardinality(Equals(Passing', Counters', s)) <= Effective(s).limit
    <3>1. CASE Key(s) # k
      BY <2>5, <3>1 DEF WithinLimit
    <3>2. CASE Key(s) = k /\ Effective(s) = Effective(r)
      <4>1. /\ Cardinality(Equals(Passing', Counters', s)) <= Cardinality(N(s))
            /\ Cardinality(Equals(Passing', Counters', s)) \in Nat
        BY <1>4, <2>1, ThroughFinite
      <4>2. Cardinality(N(s)) <= counter'[k] /\ counter'[k] <= Effective(s).limit
        BY <1>5, <1>9, <2>4, <3>2
      <4>3. Effective(s).limit \in Int /\ counter'[k] \in Nat /\ Cardinality(N(s)) \in Nat
        BY <1>2, <1>3, <2>2, <3>2
      <4> QED
        BY <4>1, <4>2, <4>3
    <3>3. CASE Key(s) = k /\ Effective(s) # Effective(r)
      <4>1. s \in Passing
        BY <1>4, <2>1, <3>3
      <4>2. Equals(Passing', Counters', s) = Equals(Passing, Counters, s)
        BY <1>3, <2>1, <3>3 DEF Equals, Through
      <4> QED
        BY <4>1, <4>2 DEF WithinLimit
    <3> QED
      BY <3>1, <3>2, <3>3
  <2>8. \A s \in Requests : stage'[s] = "allowed" => Effective(s).limit >= 1
    BY <1>7 DEF WithinLimit
  <2> QED
    BY <2>6, <2>7, <2>8 DEF WithinLimit
<1> QED
  BY <1>8, <1>9

LEMMA Inductive == IInv /\ [Next]_vars => IInv'
<1> SUFFICES ASSUME IInv, [Next]_vars PROVE IInv'
  OBVIOUS
<1> USE DEF IInv
<1>1. Types' /\ StampedBefore' /\ OutlivesWindow'
  BY TypesStep, OutlivesWindowStep
<1>2. ASSUME NEW r \in Requests, Increment(r) PROVE Accounted' /\ WithinLimit'
  BY <1>1, <1>2, IncrementStep
<1>3. ASSUME NEW r \in Requests, Stamp(r) PROVE Accounted' /\ WithinLimit'
  <2>1. Passing' = Passing /\ r \notin Passing
    BY <1>3 DEF Stamp, Passing, Types
  <2>2. \A s \in Passing' : stamp'[s] = stamp[s] /\ now' = now
    BY <1>3, <2>1 DEF Stamp, Types, Passing
  <2>3. \A s \in Passing' : counter[Key(s)] <= counter'[Key(s)]
    BY <1>3, <2>1, KeyIsKey DEF Stamp, Passing, Called, Types
  <2>4. \A s \in Requests : stage'[s] = "allowed" => stage[s] = "allowed"
    BY <1>3 DEF Stamp, Types
  <2> QED
    BY <1>1, <2>1, <2>2, <2>3, <2>4, NobodyEnters DEF OnTime
<1>4. ASSUME NEW r \in Requests, IncrementRaises(r) PROVE Accounted' /\ WithinLimit'
  <2>1. Passing' = Passing
    BY <1>4 DEF IncrementRaises, Passing, Types
  <2>2. Key(r) \in Keys
    BY <1>4, KeyIsKey DEF IncrementRaises, Called
  <2>3. \A q \in Keys : counter[q] <= counter'[q]
    BY <1>4, <2>2, RateLimitAssumption DEF IncrementRaises, Types
  <2>4. \A s \in Passing' : counter[Key(s)] <= counter'[Key(s)]
    BY <2>1, <2>3, KeyIsKey DEF Passing, Called
  <2>5. \A s \in Requests : stage'[s] = "allowed" => stage[s] = "allowed"
    BY <1>4 DEF IncrementRaises, Types
  <2> QED
    BY <1>1, <1>4, <2>1, <2>4, <2>5, NobodyEnters DEF OnTime, IncrementRaises
<1>5. ASSUME NEW r \in Requests, Expire(r) \/ ExpireRaises(r) PROVE Accounted' /\ WithinLimit'
  <2>1. UNCHANGED <<now, stamp, counter, late>>
    BY <1>5 DEF Expire, ExpireRaises
  <2>2. /\ stage'[r] = "allowed" => Effective(r).limit >= 1
        /\ \A s \in Requests \ {r} : stage'[s] = stage[s]
        /\ stage[r] = "expire" /\ stage'[r] # "expire"
    BY <1>5 DEF Expire, ExpireRaises, Decision, Allows, Types
  <2>3. Passing' \subseteq Passing
    BY <2>1, <2>2 DEF Passing
  <2>4. \A s \in Passing' : counter[Key(s)] <= counter'[Key(s)]
    BY <2>1, <2>3, KeyIsKey DEF Passing, Called, Types
  <2> QED
    BY <1>1, <2>1, <2>2, <2>3, <2>4, NobodyEnters DEF OnTime
<1>6. ASSUME Tick PROVE Accounted' /\ WithinLimit'
  <2>1. UNCHANGED <<stage, stamp, late>> /\ now' = now + 1
    BY <1>6 DEF Tick
  <2>2. Passing' = Passing
    BY <2>1 DEF Passing
  <2>3. ASSUME NEW s \in Passing, OnTime(s)'
        PROVE  OnTime(s) /\ counter[Key(s)] <= counter'[Key(s)]
    <3>1. /\ Key(s) \in Keys /\ WindowsOf(s) \in Nat \ {0} /\ stamp[s] \in Nat
          /\ stamp[s] <= now /\ now' \in Start .. Horizon
      BY <1>1, KeyIsKey, RateLimitAssumption DEF Passing, StampedBefore, Called, Types
    <3>2. stamp[s] \div WindowsOf(s) = now' \div WindowsOf(s)
      BY <2>1, <2>3 DEF OnTime
    <3>3. OnTime(s)
      <4>1. now \in Nat /\ now' \in Nat /\ now <= now'
        BY <1>1, <2>1, RateLimitAssumption DEF Types
      <4>2. stamp[s] \div WindowsOf(s) = now \div WindowsOf(s)
        BY <3>1, <3>2, <4>1, WindowsInOrder
      <4> QED
        BY <4>2 DEF OnTime
    <3>4. deadline[Key(s)] # NoDeadline => now' < deadline[Key(s)]
      <4>1. KeyAt(s, now') = Key(s)
        BY <3>2 DEF KeyAt, Key
      <4> QED
        BY <3>1, <4>1 DEF OutlivesWindow, Passing
    <3>5. ~Gone(deadline[Key(s)], now')
      BY <3>1, <3>4, RateLimitAssumption DEF Gone, Types
    <3>6. counter'[Key(s)] = counter[Key(s)] /\ counter[Key(s)] \in Nat
      BY <1>6, <2>1, <3>1, <3>5 DEF Tick, Types
    <3> QED
      BY <3>3, <3>6
  <2> QED
    BY <1>1, <2>1, <2>2, <2>3, NobodyEnters
<1>7. CASE UNCHANGED vars
  <2>1. Passing' = Passing /\ UNCHANGED <<now, stamp, counter, stage>>
    BY <1>7 DEF vars, Passing
  <2>2. \A s \in Passing' : counter[Key(s)] <= counter'[Key(s)]
    BY <2>1, KeyIsKey DEF Passing, Called, Types
  <2> QED
    BY <1>1, <2>1, <2>2, NobodyEnters DEF OnTime
<1> QED
  BY <1>1, <1>2, <1>3, <1>4, <1>5, <1>6, <1>7 DEF Next, Step

LEMMA LimitFollows == IInv => AtMostLimit
<1> SUFFICES ASSUME IInv, NEW r \in Requests, stage[r] = "allowed"
             PROVE  Cardinality({s \in Rivals(r) \ late :
                        stage[s] = "allowed" /\ Effective(s) = Effective(r)})
                      <= Effective(r).limit
  BY DEF AtMostLimit
<1> DEFINE A == {s \in Rivals(r) \ late :
                    stage[s] = "allowed" /\ Effective(s) = Effective(r)}
<1>1. Effective(r).limit >= 1 /\ Effective(r).limit \in Int
  BY RateLimitAssumption DEF IInv, WithinLimit
<1>2. CASE A = {}
  BY <1>1, <1>2, FS_EmptySet
<1>3. CASE A # {}
  <2>1. PICK s \in A : TRUE
    BY <1>3
  <2>2. s \in Passing /\ A \subseteq Passing /\ Passing \in SUBSET Requests
    BY DEF Passing, Rivals
  <2>3. A \in SUBSET Equals(Passing, Counters, s)
    BY <2>2 DEF Equals, Through, Counters, Rivals
  <2>4. Cardinality(Equals(Passing, Counters, s)) <= Effective(r).limit
    BY <2>2 DEF IInv, WithinLimit
  <2>5. /\ IsFiniteSet(Equals(Passing, Counters, s))
        /\ Cardinality(Equals(Passing, Counters, s)) \in Nat
    BY <2>2, ThroughFinite
  <2>6. Cardinality(A) <= Cardinality(Equals(Passing, Counters, s)) /\ Cardinality(A) \in Nat
    BY <2>3, <2>5, FS_Subset, FS_CardinalityType
  <2>7. Cardinality(A) <= Effective(r).limit
    <3> HIDE DEF A
    <3> QED
      BY <1>1, <2>4, <2>5, <2>6
  <2> QED
    BY <2>7
<1> QED
  BY <1>2, <1>3

(* However the calls to Redis interleave, fail or are repeated, and        *)
(* however late the time to live is set, the requests of a quota counted   *)
(* before their window ended get through at most as often as its limit.    *)
THEOREM LimitHolds == Spec => []AtMostLimit
<1>1. Init => IInv
  BY Initially
<1>2. IInv /\ [Next]_vars => IInv'
  BY Inductive
<1>3. IInv => AtMostLimit
  BY LimitFollows
<1> QED
  BY <1>1, <1>2, <1>3, PTL DEF Spec

-----------------------------------------------------------------------------
(* Sums over finite sets. *)

(* Of some subsets of a finite set, one has none of the others in it: the  *)
(* form of induction the lemmas on sums below use.                         *)
LEMMA SmallestSet ==
    ASSUME NEW S, IsFiniteSet(S), NEW B \in SUBSET (SUBSET S), B # {}
    PROVE  \E X \in B : \A Y \in B : Y \subseteq X => Y = X
<1>1. IsWellFoundedOn(StrictSubsetOrdering(S), SUBSET S)
  BY FS_StrictSubsetOrderingWellFounded, FS_FiniteSubsetsOfFinite
<1>2. PICK X \in B : \A Y \in B : ~ (<<Y, X>> \in StrictSubsetOrdering(S))
  BY <1>1, WFMin
<1> QED
  BY <1>2 DEF StrictSubsetOrdering

(* The element a fold takes first, and the fold of + over the subsets of S. *)
One(s) == CHOOSE x \in s : TRUE

Sums(f, S, it) ==
    it = [s \in SUBSET S |-> IF s = {} THEN 0 ELSE f[One(s)] + it[s \ {One(s)}]]

(* The folds over two sets agree on the subsets of both. *)
LEMMA SumsAgree ==
    ASSUME NEW f, NEW S, NEW T, IsFiniteSet(S), S \subseteq T,
           NEW i, Sums(f, S, i), NEW j, Sums(f, T, j)
    PROVE  \A U \in SUBSET S : i[U] = j[U]
<1> DEFINE B == {U \in SUBSET S : i[U] # j[U]}
<1> SUFFICES ASSUME B # {} PROVE FALSE
  OBVIOUS
<1>1. PICK X \in B : \A Y \in B : Y \subseteq X => Y = X
  <2> B \in SUBSET (SUBSET S)
    OBVIOUS
  <2> HIDE DEF B
  <2> QED
    BY SmallestSet
<1>2. /\ i[X] = IF X = {} THEN 0 ELSE f[One(X)] + i[X \ {One(X)}]
      /\ j[X] = IF X = {} THEN 0 ELSE f[One(X)] + j[X \ {One(X)}]
  BY DEF Sums
<1>3. CASE X # {}
  <2>1. One(X) \in X
    BY <1>3 DEF One
  <2>2. i[X \ {One(X)}] = j[X \ {One(X)}]
    BY <1>1, <2>1
  <2> QED
    BY <1>2, <1>3, <2>2
<1> QED
  BY <1>2, <1>3

(* The recursion of a fold over a finite set has a solution. *)
LEMMA SumsExist ==
    ASSUME NEW f, NEW S, IsFiniteSet(S)
    PROVE  \E it : Sums(f, S, it)
<1> DEFINE B == {U \in SUBSET S : ~ \E it : Sums(f, U, it)}
<1> SUFFICES ASSUME B # {} PROVE FALSE
  OBVIOUS
<1>1. PICK X \in B : \A Y \in B : Y \subseteq X => Y = X
  <2> B \in SUBSET (SUBSET S)
    OBVIOUS
  <2> HIDE DEF B
  <2> QED
    BY SmallestSet
<1> DEFINE G(s) == CHOOSE it : Sums(f, s, it)
           V(s) == IF s = {} THEN 0 ELSE f[One(s)] + G(s \ {One(s)})[s \ {One(s)}]
           it == [s \in SUBSET X |-> V(s)]
<1>2. \A s \in SUBSET X : s # {} => One(s) \in s
  BY DEF One
<1>3. \A s \in SUBSET X : s # X => Sums(f, s, G(s)) /\ IsFiniteSet(s)
  BY <1>1, FS_Subset
<1>4. ASSUME NEW s \in SUBSET X, s # X PROVE it[s] = G(s)[s]
  <2>0. Sums(f, s, G(s)) /\ IsFiniteSet(s)
    BY <1>3, <1>4
  <2>1. G(s)[s] = IF s = {} THEN 0 ELSE f[One(s)] + G(s)[s \ {One(s)}]
    <3> DEFINE g == G(s)
    <3>1. g = [u \in SUBSET s |-> IF u = {} THEN 0 ELSE f[One(u)] + g[u \ {One(u)}]]
      BY <2>0 DEF Sums
    <3>2. s \in SUBSET s
      OBVIOUS
    <3> HIDE DEF g, G
    <3>3. g[s] = IF s = {} THEN 0 ELSE f[One(s)] + g[s \ {One(s)}]
      BY ONLY <3>1, <3>2
    <3> QED
      BY <3>3 DEF g
  <2>2. CASE s # {}
    <3> DEFINE u == s \ {One(s)}
    <3>1. u \in SUBSET X /\ u # X /\ u \subseteq s
      BY <1>4
    <3>2. Sums(f, u, G(u)) /\ IsFiniteSet(u)
      BY <1>3, <3>1
    <3>3. G(u)[u] = G(s)[u]
      <4> u \in SUBSET u
        OBVIOUS
      <4> HIDE DEF G, u
      <4> QED
        BY <2>0, <3>1, <3>2, SumsAgree
    <3> QED
      BY <2>1, <2>2, <3>3
  <2> QED
    BY <2>1, <2>2
<1>5. ASSUME NEW s \in SUBSET X
      PROVE  it[s] = IF s = {} THEN 0 ELSE f[One(s)] + it[s \ {One(s)}]
  <2>1. CASE s # {}
    <3>1. s \ {One(s)} \in SUBSET X /\ s \ {One(s)} # X
      BY <1>2, <2>1
    <3>2. it[s \ {One(s)}] = G(s \ {One(s)})[s \ {One(s)}]
      BY <1>4, <3>1
    <3> QED
      BY <2>1, <3>2
  <2> QED
    BY <2>1
<1>6. Sums(f, X, it)
  <2> HIDE DEF V, G
  <2> QED
    BY <1>5 DEF Sums
<1> QED
  BY <1>6

(* SumFunctionOnSet conforms to its recursion. *)
LEMMA SumStep ==
    ASSUME NEW f, NEW S, IsFiniteSet(S)
    PROVE  SumFunctionOnSet(f, S) =
             IF S = {} THEN 0 ELSE f[One(S)] + SumFunctionOnSet(f, S \ {One(S)})
<1> DEFINE G(s) == CHOOSE it : Sums(f, s, it)
           T == S \ {One(S)}
<1>1. SumFunctionOnSet(f, S) = G(S)[S] /\ SumFunctionOnSet(f, T) = G(T)[T]
  BY DEF SumFunctionOnSet, FoldFunctionOnSet, MapThenFoldSet, Sums, One
<1>2. Sums(f, S, G(S)) /\ Sums(f, T, G(T)) /\ IsFiniteSet(T) /\ T \subseteq S
  BY SumsExist, FS_Subset
<1>3. G(S)[S] = IF S = {} THEN 0 ELSE f[One(S)] + G(S)[T]
  <2> DEFINE g == G(S)
  <2>1. g = [u \in SUBSET S |-> IF u = {} THEN 0 ELSE f[One(u)] + g[u \ {One(u)}]]
    BY <1>2 DEF Sums
  <2> HIDE DEF g, G
  <2> QED
    BY <2>1 DEF g
<1>4. G(S)[T] = G(T)[T]
  <2> T \in SUBSET T
    OBVIOUS
  <2> HIDE DEF G, T
  <2> QED
    BY <1>2, SumsAgree
<1> HIDE DEF G
<1> QED
  BY <1>1, <1>3, <1>4

LEMMA SumNat ==
    ASSUME NEW S, IsFiniteSet(S), NEW f \in [S -> Nat]
    PROVE  \A T \in SUBSET S : SumFunctionOnSet(f, T) \in Nat
<1> DEFINE B == {U \in SUBSET S : SumFunctionOnSet(f, U) \notin Nat}
<1> SUFFICES ASSUME B # {} PROVE FALSE
  OBVIOUS
<1>1. PICK X \in B : \A Y \in B : Y \subseteq X => Y = X
  <2> B \in SUBSET (SUBSET S)
    OBVIOUS
  <2> HIDE DEF B
  <2> QED
    BY SmallestSet
<1>2. SumFunctionOnSet(f, X) =
        IF X = {} THEN 0 ELSE f[One(X)] + SumFunctionOnSet(f, X \ {One(X)})
  BY SumStep, FS_Subset
<1>3. CASE X # {}
  <2>1. One(X) \in X
    BY <1>3 DEF One
  <2>2. SumFunctionOnSet(f, X \ {One(X)}) \in Nat /\ f[One(X)] \in Nat
    BY <1>1, <2>1
  <2> QED
    BY <1>2, <1>3, <2>2
<1> QED
  BY <1>2, <1>3

(* It does not matter which element is taken first. *)
LEMMA SumTakes ==
    ASSUME NEW S, IsFiniteSet(S), NEW f \in [S -> Nat]
    PROVE  \A T \in SUBSET S : \A x \in T :
              SumFunctionOnSet(f, T) = f[x] + SumFunctionOnSet(f, T \ {x})
<1> DEFINE Total(U) == SumFunctionOnSet(f, U)
           B == {U \in SUBSET S : \E x \in U : Total(U) # f[x] + Total(U \ {x})}
<1> SUFFICES ASSUME B # {} PROVE FALSE
  OBVIOUS
<1>1. PICK X \in B : \A Y \in B : Y \subseteq X => Y = X
  <2> B \in SUBSET (SUBSET S)
    OBVIOUS
  <2> HIDE DEF B
  <2> QED
    BY SmallestSet
<1>2. PICK x \in X : Total(X) # f[x] + Total(X \ {x})
  OBVIOUS
<1> DEFINE y == One(X)
<1>3. IsFiniteSet(X) /\ X # {} /\ y \in X
  BY FS_Subset DEF One
<1>4. Total(X) = f[y] + Total(X \ {y})
  BY <1>3, SumStep
<1>5. y # x
  BY <1>2, <1>4
<1> DEFINE Z == (X \ {x}) \ {y}
<1>6. Total(X \ {y}) = f[x] + Total(Z)
  <2>1. X \ {y} \notin B /\ x \in X \ {y} /\ (X \ {y}) \ {x} = Z
    BY <1>1, <1>3, <1>5
  <2> QED
    BY <2>1
<1>7. Total(X \ {x}) = f[y] + Total(Z)
  <2>1. X \ {x} \notin B /\ y \in X \ {x}
    BY <1>1, <1>3, <1>5
  <2> QED
    BY <2>1
<1>8. f[x] \in Nat /\ f[y] \in Nat /\ Total(Z) \in Nat
  BY <1>3, SumNat
<1>9. f[y] + (f[x] + Total(Z)) = f[x] + (f[y] + Total(Z))
  <2> HIDE DEF Total, Z, y
  <2> QED
    BY <1>8
<1> QED
  BY <1>2, <1>4, <1>6, <1>7, <1>9

(* A sum of fewer and smaller numbers is no larger. *)
LEMMA SumMonotone ==
    ASSUME NEW S, IsFiniteSet(S), NEW f \in [S -> Nat], NEW g \in [S -> Nat],
           NEW T \in SUBSET S, NEW U \in SUBSET T, \A x \in U : f[x] <= g[x]
    PROVE  SumFunctionOnSet(f, U) <= SumFunctionOnSet(g, T)
<1> DEFINE F(V) == SumFunctionOnSet(f, V)
           G(V) == SumFunctionOnSet(g, V)
           B == {V \in SUBSET T : ~ (F(U \cap V) <= G(V))}
<1> SUFFICES ASSUME B # {} PROVE FALSE
  <2>1. U \cap T = U
    OBVIOUS
  <2> QED
    BY <2>1
<1>1. PICK X \in B : \A Y \in B : Y \subseteq X => Y = X
  <2> B \in SUBSET (SUBSET S)
    OBVIOUS
  <2> HIDE DEF B
  <2> QED
    BY SmallestSet
<1>2. F({}) = 0 /\ G({}) = 0
  BY SumStep, FS_EmptySet
<1>3. X # {}
  <2>1. U \cap {} = {}
    OBVIOUS
  <2> QED
    BY <1>2, <2>1
<1>4. PICK x \in X : TRUE
  BY <1>3
<1> DEFINE Y == X \ {x}
<1>5. F(U \cap Y) <= G(Y) /\ Y \in SUBSET S /\ U \cap Y \in SUBSET S
  BY <1>1
<1>6. G(X) = g[x] + G(Y) /\ G(Y) \in Nat /\ g[x] \in Nat
  BY <1>5, SumTakes, SumNat
<1>7. F(U \cap Y) \in Nat
  BY <1>5, SumNat
<1>8. CASE x \in U
  <2>1. (U \cap X) \ {x} = U \cap Y /\ x \in U \cap X /\ U \cap X \in SUBSET S
    BY <1>8
  <2>2. F(U \cap X) = f[x] + F(U \cap Y) /\ f[x] \in Nat
    BY <2>1, SumTakes
  <2>3. f[x] <= g[x]
    BY <1>8
  <2>4. F(U \cap X) <= G(X)
    <3> HIDE DEF F, G, Y, B
    <3> QED
      BY <1>5, <1>6, <1>7, <2>2, <2>3
  <2> QED
    BY <2>4
<1>9. CASE x \notin U
  <2>1. U \cap X = U \cap Y
    BY <1>9
  <2>2. F(U \cap X) <= G(X)
    <3> HIDE DEF F, G, Y, B
    <3> QED
      BY <1>5, <1>6, <1>7, <2>1
  <2> QED
    BY <2>2
<1> QED
  BY <1>8, <1>9

-----------------------------------------------------------------------------
(* Refusals and orphans: both compare the counter with `added`, what each  *)
(* request has added to it.                                                *)

(* A request has added nothing before its INCR, and something after it. *)
AddedFits ==
    /\ added \in [Requests -> Nat]
    /\ \A r \in Requests :
          /\ stage[r] \in {"new", "incr"} => added[r] = 0
          /\ stage[r] = "expire" => added[r] >= 1

(* The requests that have named the counter k, and what they added to it. *)
Namers(k) == {s \in Requests : stage[s] # "new" /\ WindowsOf(s) # 0 /\ Key(s) = k}
Accrued(k) == SumFunctionOnSet(added, Namers(k))

(* A counter is never more than was added to it, *)
CountersAccrue == \A k \in Keys : counter[k] <= Accrued(k)

AInv == Types /\ StampedBefore /\ AddedFits /\ CountersAccrue /\ RefusedOnlyOverLimit

OInv == Types /\ StampedBefore /\ AddedFits /\ NoOrphanCounter

LEMMA AddedStep == Types /\ StampedBefore /\ AddedFits /\ [Next]_vars => AddedFits'
<1> SUFFICES ASSUME Types, StampedBefore, AddedFits, [Next]_vars PROVE AddedFits'
  OBVIOUS
<1> USE RateLimitAssumption DEF Types, AddedFits
<1>1. ASSUME NEW r \in Requests, Stamp(r) PROVE AddedFits'
  BY <1>1 DEF Stamp
<1>2. ASSUME NEW r \in Requests, Increment(r) PROVE AddedFits'
  BY <1>2 DEF Increment, Decision
<1>3. ASSUME NEW r \in Requests, IncrementRaises(r) PROVE AddedFits'
  BY <1>3 DEF IncrementRaises
<1>4. ASSUME NEW r \in Requests, Expire(r) PROVE AddedFits'
  BY <1>4 DEF Expire, Decision
<1>5. ASSUME NEW r \in Requests, ExpireRaises(r) PROVE AddedFits'
  BY <1>5 DEF ExpireRaises
<1>6. CASE Tick
  BY <1>6 DEF Tick
<1>7. CASE UNCHANGED vars
  BY <1>7 DEF vars
<1> QED
  BY <1>1, <1>2, <1>3, <1>4, <1>5, <1>6, <1>7 DEF Next, Step

(* A step forgets neither who named a counter nor what was added to it. *)
LEMMA NothingForgotten ==
    ASSUME Types, AddedFits, AddedFits', [Next]_vars
    PROVE  /\ \A r \in Requests : stage[r] # "new" => stage'[r] # "new" /\ Key(r)' = Key(r)
           /\ \A r \in Requests : added[r] <= added'[r]
<1> USE DEF Types, AddedFits, Key
<1>1. ASSUME NEW r \in Requests, Stamp(r) \/ Increment(r) \/ IncrementRaises(r)
      PROVE  /\ \A s \in Requests : stage[s] # "new" => stage'[s] # "new" /\ stamp'[s] = stamp[s]
             /\ \A s \in Requests : added[s] <= added'[s]
  BY <1>1 DEF Stamp, Increment, IncrementRaises, Decision
<1>2. ASSUME NEW r \in Requests, Expire(r) \/ ExpireRaises(r)
      PROVE  /\ \A s \in Requests : stage[s] # "new" => stage'[s] # "new" /\ stamp'[s] = stamp[s]
             /\ UNCHANGED added
  BY <1>2 DEF Expire, ExpireRaises, Decision
<1>3. CASE Tick \/ UNCHANGED vars
  BY <1>3 DEF Tick, vars
<1> QED
  BY <1>1, <1>2, <1>3 DEF Next, Step

LEMMA AccruedGrows ==
    ASSUME Types, AddedFits, AddedFits', [Next]_vars, NEW k
    PROVE  /\ Namers(k) \in SUBSET Requests /\ Namers(k) \subseteq Namers(k)'
           /\ Accrued(k) \in Nat /\ Accrued(k)' \in Nat
           /\ Accrued(k) <= Accrued(k)'
<1>1. /\ Namers(k) \in SUBSET Requests /\ Namers(k)' \in SUBSET Requests
      /\ Namers(k) \subseteq Namers(k)'
  BY NothingForgotten DEF Namers
<1>2. \A s \in Requests : added[s] <= added'[s]
  BY NothingForgotten
<1>3. IsFiniteSet(Requests) /\ added \in [Requests -> Nat] /\ added' \in [Requests -> Nat]
  BY RateLimitAssumption DEF AddedFits
<1>4. Accrued(k) <= Accrued(k)'
  BY <1>1, <1>2, <1>3, SumMonotone DEF Accrued
<1>5. Accrued(k) \in Nat /\ Accrued(k)' \in Nat
  BY <1>1, <1>3, SumNat DEF Accrued
<1> QED
  BY <1>1, <1>4, <1>5

(* What INCR adds to a counter, one of its requests has added. *)
LEMMA AccruedByCall ==
    ASSUME Types, StampedBefore, AddedFits, AddedFits', [Next]_vars,
           NEW r \in Requests, stage[r] = "incr", NEW k, k = Key(r),
           NEW n \in Nat, added' = [added EXCEPT ![r] = n]
    PROVE  Accrued(k) + n <= Accrued(k)'
<1> DEFINE N == Namers(k)
           M == Namers(k)'
<1>1. N \in SUBSET M /\ M \in SUBSET Requests
  BY NothingForgotten DEF Namers
<1>2. r \in N
  BY RateLimitAssumption DEF Namers, StampedBefore, Called
<1>3. IsFiniteSet(Requests) /\ added \in [Requests -> Nat] /\ added' \in [Requests -> Nat]
  BY RateLimitAssumption DEF AddedFits
<1>4. added[r] = 0 /\ added'[r] = n /\ \A s \in Requests : added[s] <= added'[s]
  BY <1>3, NothingForgotten DEF AddedFits
<1> HIDE DEF N, M
<1>5. SumFunctionOnSet(added, N \ {r}) <= SumFunctionOnSet(added', M \ {r})
  <2>1. M \ {r} \in SUBSET Requests /\ N \ {r} \in SUBSET (M \ {r})
    BY <1>1
  <2> QED
    BY <1>3, <1>4, <2>1, SumMonotone
<1>6. /\ SumFunctionOnSet(added, N) = added[r] + SumFunctionOnSet(added, N \ {r})
      /\ SumFunctionOnSet(added', M) = added'[r] + SumFunctionOnSet(added', M \ {r})
  <2>1. SumFunctionOnSet(added, N) = added[r] + SumFunctionOnSet(added, N \ {r})
    <3>1. N \in SUBSET Requests
      BY <1>1
    <3> QED
      BY <1>2, <1>3, <3>1, SumTakes
  <2>2. SumFunctionOnSet(added', M) = added'[r] + SumFunctionOnSet(added', M \ {r})
    <3>1. r \in M
      BY <1>1, <1>2
    <3> QED
      BY ONLY <1>1, <1>3, <3>1, SumTakes
  <2> QED
    BY <2>1, <2>2
<1>7. SumFunctionOnSet(added, N \ {r}) \in Nat /\ SumFunctionOnSet(added', M \ {r}) \in Nat
  <2>1. N \ {r} \in SUBSET Requests /\ M \ {r} \in SUBSET Requests
    BY <1>1
  <2> QED
    BY <1>3, <2>1, SumNat
<1>8. SumFunctionOnSet(added, N) + n <= SumFunctionOnSet(added', M)
  BY <1>4, <1>5, <1>6, <1>7
<1> QED
  BY <1>8 DEF N, M, Accrued

LEMMA CountersAccrueStep ==
    ASSUME Types, StampedBefore, AddedFits, CountersAccrue, Types', AddedFits', [Next]_vars
    PROVE  CountersAccrue'
<1> SUFFICES ASSUME NEW k \in Keys PROVE counter'[k] <= Accrued(k)'
  BY DEF CountersAccrue
<1>1. /\ counter[k] <= Accrued(k) /\ Accrued(k) <= Accrued(k)'
      /\ counter[k] \in Nat /\ counter'[k] \in Nat /\ Accrued(k) \in Nat /\ Accrued(k)' \in Nat
  BY AccruedGrows DEF CountersAccrue, Types
<1>2. ASSUME NEW r \in Requests, NEW n \in Nat, stage[r] = "incr",
             counter' = [counter EXCEPT ![Key(r)] = @ + n], added' = [added EXCEPT ![r] = n]
      PROVE  counter'[k] <= Accrued(k)'
  <2>1. CASE k = Key(r)
    <3>1. Accrued(k) + n <= Accrued(k)'
      BY <1>2, <2>1, AccruedByCall
    <3>2. counter'[k] = counter[k] + n
      BY <1>2, <2>1 DEF Types
    <3> QED
      BY <1>1, <3>1, <3>2
  <2>2. CASE k # Key(r)
    <3>1. counter'[k] = counter[k]
      BY <1>2, <2>2 DEF Types
    <3> QED
      BY <1>1, <3>1
  <2> QED
    BY <2>1, <2>2
<1>3. ASSUME NEW r \in Requests, Increment(r) PROVE counter'[k] <= Accrued(k)'
  <2>1. PICK n \in 0 .. MaxRepeats :
          /\ counter' = [counter EXCEPT ![Key(r)] = counter[Key(r)] + n + 1]
          /\ added' = [added EXCEPT ![r] = n + 1]
    BY <1>3 DEF Increment
  <2>2. n + 1 \in Nat /\ counter[Key(r)] \in Nat /\ stage[r] = "incr"
    <3>1. stage[r] = "incr" /\ Key(r) \in Keys
      BY <1>3, KeyIsKey DEF Increment, Called
    <3> QED
      BY <3>1, RateLimitAssumption DEF Types
  <2>3. counter' = [counter EXCEPT ![Key(r)] = @ + (n + 1)]
    <3>1. counter[Key(r)] + n + 1 = counter[Key(r)] + (n + 1)
      BY <2>2, RateLimitAssumption
    <3> QED
      BY <2>1, <3>1
  <2> QED
    BY <1>2, <2>1, <2>2, <2>3
<1>4. ASSUME NEW r \in Requests, IncrementRaises(r) PROVE counter'[k] <= Accrued(k)'
  <2>1. PICK n \in 0 .. MaxRepeats + 1 :
          /\ counter' = [counter EXCEPT ![Key(r)] = @ + n]
          /\ added' = [added EXCEPT ![r] = n]
    BY <1>4 DEF IncrementRaises
  <2>2. n \in Nat /\ stage[r] = "incr"
    BY <1>4, RateLimitAssumption DEF IncrementRaises
  <2> QED
    BY <1>2, <2>1, <2>2
<1>5. CASE Tick
  <2>1. counter'[k] = 0 \/ counter'[k] = counter[k]
    BY <1>5 DEF Tick
  <2> QED
    BY <1>1, <2>1
<1>6. CASE UNCHANGED counter
  BY <1>1, <1>6
<1> QED
  BY <1>3, <1>4, <1>5, <1>6 DEF Next, Step, Stamp, Expire, ExpireRaises, vars

LEMMA RefusedStep ==
    ASSUME AInv, Types', AddedFits', CountersAccrue', [Next]_vars
    PROVE  RefusedOnlyOverLimit'
<1> USE DEF AInv
<1> SUFFICES ASSUME NEW r \in Requests, stage'[r] = "refused"
             PROVE  SumFunctionOnSet(added', Rivals(r)') > Effective(r).limit
  BY DEF RefusedOnlyOverLimit
<1>1. PICK k : k = Key(r)'
  OBVIOUS
<1>2. SumFunctionOnSet(added', Rivals(r)') = Accrued(k)'
  BY <1>1 DEF Rivals, Namers, Accrued
<1>3. Accrued(k) <= Accrued(k)' /\ Accrued(k) \in Nat /\ Accrued(k)' \in Nat
  BY AccruedGrows
<1>4. Effective(r).limit \in Int
  BY RateLimitAssumption
<1>5. CASE stage[r] = "refused"
  <2>1. Key(r) = k
    BY <1>1, <1>5, NothingForgotten
  <2>2. SumFunctionOnSet(added, Rivals(r)) = Accrued(k)
    BY <2>1 DEF Rivals, Namers, Accrued
  <2>3. Accrued(k) > Effective(r).limit
    BY <1>5, <2>2 DEF RefusedOnlyOverLimit
  <2> QED
    BY <1>2, <1>3, <1>4, <2>3
<1>6. CASE Increment(r)
  <2>1. Key(r) = k /\ k \in Keys
    BY <1>1, <1>6, KeyIsKey DEF Increment, Key, Called
  <2>2. counter'[k] > Effective(r).limit
    <3>1. PICK n \in 0 .. MaxRepeats :
            /\ counter' = [counter EXCEPT ![k] = counter[k] + n + 1]
            /\ stage' = [stage EXCEPT ![r] = IF First(counter[k] + n + 1) THEN "expire"
                                             ELSE Decision(counter[k] + n + 1, Effective(r))]
      BY <1>6, <2>1 DEF Increment
    <3>2. counter'[k] = counter[k] + n + 1
      BY <2>1, <3>1 DEF Types
    <3>3. ~ Allows(counter'[k], Effective(r))
      BY <3>1, <3>2 DEF Types, Decision
    <3> QED
      BY <1>4, <2>1, <3>3 DEF Allows, Types
  <2>3. counter'[k] <= Accrued(k)' /\ counter'[k] \in Nat
    BY <2>1 DEF CountersAccrue, Types
  <2> QED
    BY <1>2, <1>3, <1>4, <2>2, <2>3
<1>7. CASE Expire(r)
  <2>1. Key(r) = k
    BY <1>1, <1>7 DEF Expire, Key
  <2>2. Effective(r).limit < 1
    BY <1>4, <1>7 DEF Expire, Decision, Allows, Types
  <2>3. added[r] >= 1 /\ added \in [Requests -> Nat]
    BY <1>7 DEF Expire, AddedFits
  <2>4. r \in Namers(k) /\ Namers(k) \in SUBSET Requests
    BY <1>7, <2>1 DEF Namers, Expire, StampedBefore, Called
  <2>5. Accrued(k) = added[r] + SumFunctionOnSet(added, Namers(k) \ {r})
    BY <2>3, <2>4, SumTakes, RateLimitAssumption DEF Accrued
  <2>6. SumFunctionOnSet(added, Namers(k) \ {r}) \in Nat
    <3>1. Namers(k) \ {r} \in SUBSET Requests
      BY <2>4
    <3> QED
      BY <2>3, <3>1, SumNat, RateLimitAssumption
  <2> QED
    BY <1>2, <1>3, <1>4, <2>2, <2>3, <2>5, <2>6
<1>8. stage[r] = "refused" \/ Increment(r) \/ Expire(r)
  <2>1. ASSUME NEW s \in Requests, Step(s) PROVE stage[r] = "refused" \/ Increment(r) \/ Expire(r)
    BY <2>1 DEF Step, Stamp, Increment, IncrementRaises, Expire, ExpireRaises, Types
  <2> QED
    BY <2>1 DEF Next, Tick, vars
<1> QED
  BY <1>5, <1>6, <1>7, <1>8

(* However the calls interleave, fail or are counted twice, a request is   *)
(* refused only when the requests of its quota and window have incremented *)
(* the counter more often than its limit allows (rate_limit.py:46).        *)
THEOREM RefusalsAreEarned == Spec => []RefusedOnlyOverLimit
<1>1. Init => AInv
  <2> SUFFICES ASSUME Init PROVE AInv
    OBVIOUS
  <2>1. Types /\ StampedBefore
    BY Initially DEF IInv
  <2>2. AddedFits /\ RefusedOnlyOverLimit
    BY DEF Init, AddedFits, RefusedOnlyOverLimit
  <2>3. ASSUME NEW k \in Keys PROVE counter[k] <= Accrued(k)
    <3>1. Namers(k) = {}
      BY DEF Init, Namers
    <3>2. Accrued(k) = 0
      BY <3>1, SumStep, FS_EmptySet DEF Accrued
    <3> QED
      BY <2>3, <3>2 DEF Init
  <2> QED
    BY <2>1, <2>2, <2>3 DEF AInv, CountersAccrue
<1>2. AInv /\ [Next]_vars => AInv'
  <2> SUFFICES ASSUME AInv, [Next]_vars PROVE AInv'
    OBVIOUS
  <2>1. Types' /\ StampedBefore' /\ AddedFits'
    BY TypesStep, AddedStep DEF AInv
  <2>2. CountersAccrue'
    BY <2>1, CountersAccrueStep DEF AInv
  <2> QED
    BY <2>1, <2>2, RefusedStep DEF AInv
<1>3. AInv => RefusedOnlyOverLimit
  BY DEF AInv
<1> QED
  BY <1>1, <1>2, <1>3, PTL DEF Spec

(* The witness that a counter without a deadline has. *)
Owes(r, k) ==
    /\ WindowsOf(r) # 0 /\ Key(r) = k
    /\ stage[r] \in {"expire", "failed"} \/ added[r] > 1

LEMMA OrphanStep ==
    ASSUME OInv, Types', AddedFits', [Next]_vars
    PROVE  NoOrphanCounter'
<1> USE DEF OInv
<1> SUFFICES ASSUME NEW k \in Keys, counter'[k] > 0, deadline'[k] = NoDeadline
             PROVE  \E r \in Requests : Owes(r, k)'
  BY DEF NoOrphanCounter, Owes
<1>1. ASSUME counter[k] > 0, deadline[k] = NoDeadline
      PROVE  \E r \in Requests : Owes(r, k)
  BY <1>1 DEF NoOrphanCounter, Owes
<1>2. ASSUME NEW r \in Requests, Stamp(r) PROVE \E s \in Requests : Owes(s, k)'
  <2>1. PICK s \in Requests : Owes(s, k)
    BY <1>1, <1>2 DEF Stamp
  <2>2. s # r
    BY <1>2, <2>1 DEF Stamp, Owes, AddedFits
  <2>3. Owes(s, k)'
    BY <1>2, <2>1, <2>2 DEF Stamp, Owes, Key, Types
  <2> QED
    BY <2>3
<1>3. ASSUME NEW r \in Requests, Increment(r) PROVE \E s \in Requests : Owes(s, k)'
  <2>0. PICK n \in 0 .. MaxRepeats :
          /\ counter' = [counter EXCEPT ![Key(r)] = counter[Key(r)] + n + 1]
          /\ added' = [added EXCEPT ![r] = n + 1]
          /\ stage' = [stage EXCEPT ![r] = IF First(counter[Key(r)] + n + 1) THEN "expire"
                                     ELSE Decision(counter[Key(r)] + n + 1, Effective(r))]
    BY <1>3 DEF Increment
  <2>1. /\ Key(r) \in Keys /\ WindowsOf(r) # 0 /\ counter[Key(r)] \in Nat /\ n \in Nat
        /\ UNCHANGED <<stamp, deadline>>
    BY <1>3, KeyIsKey, RateLimitAssumption DEF Increment, Called, StampedBefore, Types
  <2>2. CASE counter[k] > 0
    <3>1. PICK s \in Requests : Owes(s, k)
      BY <1>1, <2>1, <2>2
    <3>2. s # r
      BY <1>3, <3>1 DEF Increment, Owes, AddedFits
    <3>3. Owes(s, k)'
      BY <2>0, <2>1, <3>1, <3>2 DEF Owes, Key, Types, AddedFits
    <3> QED
      BY <3>3
  <2>3. CASE ~ (counter[k] > 0)
    <3>1. k = Key(r) /\ counter[k] = 0
      BY <2>0, <2>1, <2>3 DEF Types
    <3>2. stage'[r] = "expire" \/ added'[r] > 1
      BY <2>0, <2>1, <3>1 DEF Types, AddedFits, First
    <3>3. Owes(r, k)'
      BY <2>1, <3>1, <3>2 DEF Owes, Key
    <3> QED
      BY <3>3
  <2> QED
    BY <2>2, <2>3
<1>4. ASSUME NEW r \in Requests, IncrementRaises(r) PROVE \E s \in Requests : Owes(s, k)'
  <2>1. /\ WindowsOf(r) # 0 /\ stage'[r] = "failed" /\ UNCHANGED <<stamp, deadline>>
    BY <1>4, RateLimitAssumption DEF IncrementRaises, Called, StampedBefore, Types
  <2>2. CASE k = Key(r)
    BY <2>1, <2>2 DEF Owes, Key
  <2>3. CASE k # Key(r)
    <3>1. counter'[k] = counter[k]
      BY <1>4, <2>3 DEF IncrementRaises, Types
    <3>2. PICK s \in Requests : Owes(s, k)
      BY <1>1, <2>1, <3>1
    <3>3. Owes(s, k)'
      BY <1>4, <2>1, <2>3, <3>2 DEF IncrementRaises, Owes, Key, Types, AddedFits
    <3> QED
      BY <3>3
  <2> QED
    BY <2>2, <2>3
<1>5. ASSUME NEW r \in Requests, Expire(r) PROVE \E s \in Requests : Owes(s, k)'
  <2>1. UNCHANGED <<counter, stamp, added>> /\ stage' = [stage EXCEPT ![r] = Decision(1, Effective(r))]
    BY <1>5 DEF Expire
  <2>2. k # Key(r)
    <3>1. Key(r) \in Keys /\ deadline' = [deadline EXCEPT ![Key(r)] = now + WindowsOf(r)]
      BY <1>5, KeyIsKey DEF Expire, Called
    <3>2. now + WindowsOf(r) # NoDeadline
      BY <1>5, RateLimitAssumption DEF Expire, Called, StampedBefore, Types, NoDeadline
    <3> QED
      BY <3>1, <3>2 DEF Types
  <2>3. PICK s \in Requests : Owes(s, k)
    BY <1>1, <1>5, <2>1, <2>2 DEF Expire, Types
  <2>4. Owes(s, k)'
    BY <2>1, <2>2, <2>3 DEF Owes, Key, Types
  <2> QED
    BY <2>4
<1>6. ASSUME NEW r \in Requests, ExpireRaises(r) PROVE \E s \in Requests : Owes(s, k)'
  <2>1. PICK s \in Requests : Owes(s, k)
    BY <1>1, <1>6 DEF ExpireRaises
  <2>2. Owes(s, k)'
    BY <1>6, <2>1 DEF ExpireRaises, Owes, Key, Types
  <2> QED
    BY <2>2
<1>7. CASE Tick
  <2>1. counter'[k] = counter[k] /\ deadline[k] = NoDeadline
    BY <1>7 DEF Tick, Gone, Types
  <2>2. PICK s \in Requests : Owes(s, k)
    BY <1>1, <2>1
  <2>3. Owes(s, k)'
    BY <1>7, <2>2 DEF Tick, Owes, Key
  <2> QED
    BY <2>3
<1>8. CASE UNCHANGED vars
  <2>1. PICK s \in Requests : Owes(s, k)
    BY <1>1, <1>8 DEF vars
  <2>2. Owes(s, k)'
    BY <1>8, <2>1 DEF vars, Owes, Key
  <2> QED
    BY <2>2
<1> QED
  BY <1>2, <1>3, <1>4, <1>5, <1>6, <1>7, <1>8 DEF Next, Step

(* A counter without a time to live always has a request that is about to  *)
(* set it, or one whose call failed, or whose reply was lost: nothing else *)
(* leaves a counter in Redis for ever (src/app/rate_limit.py:12).          *)
THEOREM OrphansAreExplained == Spec => []NoOrphanCounter
<1>1. Init => OInv
  <2> SUFFICES ASSUME Init PROVE OInv
    OBVIOUS
  <2>1. Types /\ StampedBefore
    BY Initially DEF IInv
  <2>2. AddedFits /\ NoOrphanCounter
    BY DEF Init, AddedFits, NoOrphanCounter
  <2> QED
    BY <2>1, <2>2 DEF OInv
<1>2. OInv /\ [Next]_vars => OInv'
  <2> SUFFICES ASSUME OInv, [Next]_vars PROVE OInv'
    OBVIOUS
  <2>1. Types' /\ StampedBefore' /\ AddedFits'
    BY TypesStep, AddedStep DEF OInv
  <2> QED
    BY <2>1, OrphanStep DEF OInv
<1>3. OInv => NoOrphanCounter
  BY DEF OInv
<1> QED
  BY <1>1, <1>2, <1>3, PTL DEF Spec
=============================================================================
