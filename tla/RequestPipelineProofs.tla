------------------------ MODULE RequestPipelineProofs ------------------------
(***************************************************************************)
(* For any requests, plugin lists, plugins and reloads: a request that was *)
(* refused or served from the cache goes no further, counting and billing  *)
(* agree, the state keeps its types, the upstream is not called round a    *)
(* plugin, and the hooks run in order and unwind.  IInv says, for each     *)
(* place of app(), what is so of a request that is there; a step moves one *)
(* request, and the place it comes to has to fit what the step did.  Cover *)
(* and Align add what the phases still have to run, and what they have run *)
(* of the list the route gives them.  From IInv also: every step is one of *)
(* RequestContract or a stutter.                                           *)
(***************************************************************************)
EXTENDS RequestPipeline, FiniteSetTheorems, TLAPS

(* A request's history of hooks, as a record. *)
Hooks(h) == [before |-> h.before, around |-> h.around, after |-> h.after]

PerRequest ==
    /\ pc \in [Requests -> PCs]
    /\ outcome \in [Requests -> Outcomes]
    /\ answer \in [Requests -> Answers]
    /\ counted \in [Requests -> {0, 1}]
    /\ billed \in [Requests -> {0, 1}]
    /\ blank \in [Requests -> BOOLEAN]
    /\ upstream = [r \in Requests |-> upstream[r]]
    /\ ran = [r \in Requests |-> Hooks(ran[r])]

(* A request at place p has the answer a. *)
AnswerFits(p, a) ==
    /\ p \in {"idle", "before", "forward", "respond"} => a = "none"
    /\ p = "after" => a \in {"upstream", "plugin_status", "502"}
    /\ p = "count" => a = "cached"
    /\ p = "bill" => a \in Served
    /\ p = "done" => a \in Served \cup Refusals

(* No forward plugin, no after hook and no upstream has seen it before its *)
(* chain starts, and none ever if it was refused or found in the cache.    *)
HistoryFits(p, a, h, u) ==
    p \in {"idle", "before"} \/ a \in Refusals \cup {"cached"}
        => u = 0 /\ h.around = {} /\ h.after = <<>>

(* It is counted when it comes to the bill, and billed when that is done,  *)
(* if its tenant is not blank (bl).                                        *)
AccountsFit(p, a, c, b, bl) ==
    /\ p \notin {"bill", "done", "escaped"} => c = 0
    /\ p = "bill" => c = 1
    /\ p \notin Ended => b = 0
    /\ p = "escaped" => b <= c
    /\ p = "done" => b = (IF bl THEN 0 ELSE c) /\ (c = 1 <=> a \in Served)
    /\ c = 1 => a \in Served

Fits(p, a, c, b, bl, h, u) ==
    AnswerFits(p, a) /\ HistoryFits(p, a, h, u) /\ AccountsFit(p, a, c, b, bl)

IInv ==
    /\ PerRequest
    /\ \A r \in Requests :
          Fits(pc[r], answer[r], counted[r], billed[r], blank[r], ran[r], upstream[r])

-----------------------------------------------------------------------------

LEMMA Initially == Init => IInv
BY DEF Init, IInv, PerRequest, Hooks, Outcomes, PCs, Ended, Answers, Refusals,
       Fits, AnswerFits, HistoryFits, AccountsFit

(* A step of r moves nobody else, and r to where it fits. *)
Alone(r) ==
    \A q \in Requests : q # r =>
        /\ pc'[q] = pc[q] /\ answer'[q] = answer[q]
        /\ counted'[q] = counted[q] /\ billed'[q] = billed[q] /\ blank'[q] = blank[q]
        /\ ran'[q] = ran[q] /\ upstream'[q] = upstream[q]

Fitting(r) == Fits(pc'[r], answer'[r], counted'[r], billed'[r], blank'[r], ran'[r], upstream'[r])

LEMMA Moves ==
    ASSUME IInv, NEW r \in Requests, PerRequest', Alone(r), Fitting(r)
    PROVE  IInv'
<1> SUFFICES ASSUME NEW q \in Requests
             PROVE  Fits(pc'[q], answer'[q], counted'[q], billed'[q], blank'[q], ran'[q], upstream'[q])
  BY DEF IInv
<1>1. CASE q = r
  BY <1>1 DEF Fitting
<1>2. CASE q # r
  BY <1>2 DEF IInv, Alone
<1> QED
  BY <1>1, <1>2

(* Noting hooks of r changes one field of its record. *)
LEMMA Noting ==
    ASSUME PerRequest, NEW r \in Requests, NEW x,
           \/ ran' = [ran EXCEPT ![r].before = x]
           \/ ran' = [ran EXCEPT ![r].around = x]
           \/ ran' = [ran EXCEPT ![r].after = x]
           \/ UNCHANGED ran
    PROVE  /\ ran' = [q \in Requests |-> Hooks(ran'[q])]
           /\ \A q \in Requests : q # r => ran'[q] = ran[q]
           /\ ran' = [ran EXCEPT ![r].before = x] \/ UNCHANGED ran
                 => ran'[r].around = ran[r].around /\ ran'[r].after = ran[r].after
           /\ ran' = [ran EXCEPT ![r].around = x] => ran'[r].after = ran[r].after
<1>1. \A q \in Requests : q # r => ran'[q] = ran[q]
  BY DEF PerRequest
<1>2. DOMAIN ran' = Requests /\ ran' = [q \in Requests |-> ran'[q]]
  BY DEF PerRequest
<1>3. ran[r] = Hooks(ran[r])
  BY DEF PerRequest
<1>4. ran'[r] = Hooks(ran'[r])
  <2>1. CASE ran' = [ran EXCEPT ![r].before = x]
    <3>1. ran'[r] = [ran[r] EXCEPT !.before = x]
      BY <2>1 DEF PerRequest
    <3> QED
      BY <1>3, <3>1 DEF Hooks
  <2>2. CASE ran' = [ran EXCEPT ![r].around = x]
    <3>1. ran'[r] = [ran[r] EXCEPT !.around = x]
      BY <2>2 DEF PerRequest
    <3> QED
      BY <1>3, <3>1 DEF Hooks
  <2>3. CASE ran' = [ran EXCEPT ![r].after = x]
    <3>1. ran'[r] = [ran[r] EXCEPT !.after = x]
      BY <2>3 DEF PerRequest
    <3> QED
      BY <1>3, <3>1 DEF Hooks
  <2>4. CASE UNCHANGED ran
    BY <1>3, <2>4
  <2> QED
    BY <2>1, <2>2, <2>3, <2>4
<1>5. \A q \in Requests : ran'[q] = Hooks(ran'[q])
  BY <1>1, <1>4 DEF PerRequest
<1>6. ASSUME ran' = [ran EXCEPT ![r].before = x]
      PROVE  ran'[r].around = ran[r].around /\ ran'[r].after = ran[r].after
  <2>1. ran'[r] = [ran[r] EXCEPT !.before = x]
    BY <1>6 DEF PerRequest
  <2> QED
    BY <1>3, <2>1 DEF Hooks
<1>7. ASSUME ran' = [ran EXCEPT ![r].around = x] PROVE ran'[r].after = ran[r].after
  <2>1. ran'[r] = [ran[r] EXCEPT !.around = x]
    BY <1>7 DEF PerRequest
  <2> QED
    BY <1>3, <2>1 DEF Hooks
<1> QED
  BY <1>1, <1>2, <1>5, <1>6, <1>7

LEMMA BeforeStep ==
    ASSUME IInv, NEW r \in Requests, Before(r)
    PROVE  IInv'
<1> USE DEF Outcomes, PCs, Ended, Answers, Refusals, Served, Fits, AnswerFits, HistoryFits, AccountsFit,
            progress, accounts
<1>1. ASSUME NEW list \in Lists, Arrive(r, list) PROVE IInv'
  <2>1. PerRequest' /\ Alone(r)
    BY <1>1 DEF IInv, PerRequest, Hooks, Alone, Arrive
  <2>2. /\ pc[r] = "idle" /\ pc'[r] = "before" /\ answer'[r] = answer[r]
        /\ UNCHANGED <<counted, billed, blank, ran, upstream>>
    BY <1>1 DEF IInv, PerRequest, Arrive
  <2>3. Fits(pc[r], answer[r], counted[r], billed[r], blank[r], ran[r], upstream[r])
    BY DEF IInv
  <2>4. Fitting(r)
    BY <2>2, <2>3 DEF Fitting
  <2> QED
    BY <2>1, <2>4, Moves
<1>2. ASSUME NEW status \in {"404", "400"}, TurnAway(r, status) PROVE IInv'
  <2>1. PerRequest' /\ Alone(r)
    BY <1>2 DEF IInv, PerRequest, Hooks, Alone, TurnAway
  <2>2. /\ pc[r] = "idle" /\ pc'[r] = "done" /\ answer'[r] = status
        /\ UNCHANGED <<counted, billed, blank, ran, upstream>>
    BY <1>2 DEF IInv, PerRequest, TurnAway
  <2>3. Fits(pc[r], answer[r], counted[r], billed[r], blank[r], ran[r], upstream[r])
    BY DEF IInv
  <2>4. Fitting(r)
    BY <2>2, <2>3 DEF Fitting
  <2> QED
    BY <2>1, <2>4, Moves
<1>3. CASE HeadersRaise(r)
  <2>1. PerRequest' /\ Alone(r)
    BY <1>3 DEF IInv, PerRequest, Hooks, Alone, HeadersRaise
  <2>2. Fitting(r)
    BY <1>3, <2>1 DEF IInv, PerRequest, Hooks, Fitting, HeadersRaise
  <2> QED
    BY <2>1, <2>2, Moves
<1>4. CASE SkipHook(r)
  <2>1. PerRequest' /\ Alone(r)
    BY <1>4 DEF IInv, PerRequest, Hooks, Alone, SkipHook
  <2>2. Fitting(r)
    BY <1>4, <2>1 DEF IInv, PerRequest, Hooks, Fitting, SkipHook
  <2> QED
    BY <2>1, <2>2, Moves
<1>5. CASE RunBefore(r)
  <2> DEFINE x == Append(ran[r].before, Head(todo[r]))
  <2>1. ran' = [ran EXCEPT ![r].before = x]
    BY <1>5 DEF RunBefore
  <2> HIDE DEF x
  <2>2. /\ ran' = [q \in Requests |-> Hooks(ran'[q])]
        /\ \A q \in Requests : q # r => ran'[q] = ran[q]
        /\ ran'[r].around = ran[r].around /\ ran'[r].after = ran[r].after
    BY <2>1, Noting DEF IInv
  <2>3. UNCHANGED <<pc, outcome, answer, counted, billed, blank, upstream>>
    BY <1>5 DEF RunBefore
  <2>4. PerRequest' /\ Alone(r)
    BY <2>2, <2>3 DEF IInv, PerRequest, Alone
  <2>5. Fitting(r)
    BY <1>5, <2>2, <2>3 DEF IInv, Fitting, RunBefore
  <2> QED
    BY <2>4, <2>5, Moves
<1>6. ASSUME NEW status \in {"refused", "500"}, RefuseBefore(r, status) PROVE IInv'
  <2>1. PerRequest' /\ Alone(r)
    BY <1>6 DEF IInv, PerRequest, Hooks, Alone, RefuseBefore, AfterRefusal
  <2>2. /\ pc[r] = "before" /\ pc'[r] = "done" /\ answer'[r] = status
        /\ UNCHANGED <<counted, billed, blank, ran, upstream>>
    BY <1>6 DEF IInv, PerRequest, RefuseBefore, AfterRefusal
  <2>3. Fits(pc[r], answer[r], counted[r], billed[r], blank[r], ran[r], upstream[r])
    BY DEF IInv
  <2>4. Fitting(r)
    BY <2>2, <2>3 DEF Fitting
  <2> QED
    BY <2>1, <2>4, Moves
<1>7. CASE ServeCached(r)
  <2>1. PerRequest' /\ Alone(r)
    BY <1>7 DEF IInv, PerRequest, Hooks, Alone, ServeCached
  <2>2. Fitting(r)
    BY <1>7, <2>1 DEF IInv, PerRequest, Hooks, Fitting, ServeCached
  <2> QED
    BY <2>1, <2>2, Moves
<1> QED
  BY <1>1, <1>2, <1>3, <1>4, <1>5, <1>6, <1>7 DEF Before

(* Whoever is entered, it is noted of r alone. *)
LEMMA EntersEffect ==
    ASSUME PerRequest, NEW r \in Requests, NEW d, NEW list, Enters(r, d, list)
    PROVE  /\ ran' = [q \in Requests |-> Hooks(ran'[q])]
           /\ upstream' = [q \in Requests |-> upstream'[q]]
           /\ \A q \in Requests : q # r => ran'[q] = ran[q] /\ upstream'[q] = upstream[q]
           /\ ran'[r].after = ran[r].after
<1> DEFINE x == ran[r].around \cup {list[d]}
<1>1. UNCHANGED ran \/ ran' = [ran EXCEPT ![r].around = x]
  BY DEF Enters
<1>2. UNCHANGED upstream \/ upstream' = [upstream EXCEPT ![r] = @ + 1]
  BY DEF Enters
<1> HIDE DEF x
<1>3. /\ ran' = [q \in Requests |-> Hooks(ran'[q])]
      /\ \A q \in Requests : q # r => ran'[q] = ran[q]
      /\ ran'[r].after = ran[r].after
  BY <1>1, Noting
<1>4. /\ upstream' = [q \in Requests |-> upstream'[q]]
      /\ \A q \in Requests : q # r => upstream'[q] = upstream[q]
  BY <1>2 DEF PerRequest
<1> QED
  BY <1>3, <1>4

LEMMA ForwardStep ==
    ASSUME IInv, NEW r \in Requests, Forward(r)
    PROVE  IInv'
<1> USE DEF Outcomes, PCs, Ended, Answers, Refusals, Served, Fits, AnswerFits, HistoryFits,
            AccountsFit, progress, accounts
<1>1. CASE StartForward(r)
  <2>1. Enters(r, 1, chain'[r])
    BY <1>1 DEF StartForward
  <2>2. pc' = [pc EXCEPT ![r] = "forward"] /\ UNCHANGED <<outcome, answer, counted, billed, blank>>
    BY <1>1 DEF StartForward
  <2>3. PerRequest' /\ Alone(r)
    BY <2>1, <2>2, EntersEffect DEF IInv, PerRequest, Alone
  <2>4. pc[r] = "before"
    BY <1>1 DEF StartForward
  <2>5. Fitting(r)
    BY <2>1, <2>2, <2>4 DEF IInv, PerRequest, Fitting
  <2> QED
    BY <2>3, <2>5, Moves
<1>2. CASE CallNext(r)
  <2>1. Enters(r, depth[r] + 1, chain[r])
    BY <1>2 DEF CallNext
  <2>2. pc[r] = "forward" /\ UNCHANGED <<pc, outcome, answer, counted, billed, blank>>
    BY <1>2 DEF CallNext
  <2>3. PerRequest' /\ Alone(r)
    BY <2>1, <2>2, EntersEffect DEF IInv, PerRequest, Alone
  <2>4. Fitting(r)
    BY <2>2 DEF IInv, PerRequest, Fitting
  <2> QED
    BY <2>3, <2>4, Moves
<1>3. ASSUME NEW o \in Outcomes, Leave(r, o) PROVE IInv'
  <2>1. PerRequest' /\ Alone(r)
    BY <1>3 DEF IInv, PerRequest, Hooks, Alone, Leave
  <2>2. Fitting(r)
    BY <1>3, <2>1 DEF IInv, PerRequest, Hooks, Fitting, Leave
  <2> QED
    BY <2>1, <2>2, Moves
<1> QED
  BY <1>1, <1>2, <1>3 DEF Forward

(* A bill is one more for r, or none. *)
LEMMA BillingEffect ==
    ASSUME PerRequest, NEW r \in Requests, billed[r] = 0
    PROVE  /\ Billing(r) = [billed EXCEPT ![r] = IF blank[r] THEN 0 ELSE 1]
           /\ Billing(r) \in [Requests -> {0, 1}]
           /\ Billing(r)[r] = (IF blank[r] THEN 0 ELSE 1)
           /\ \A q \in Requests : q # r => Billing(r)[q] = billed[q]
<1>1. billed \in [Requests -> {0, 1}] /\ blank[r] \in BOOLEAN
  BY DEF PerRequest
<1>2. CASE blank[r]
  <2>1. Billing(r) = billed /\ billed = [billed EXCEPT ![r] = 0]
    BY <1>1, <1>2 DEF Billing
  <2> QED
    BY <1>1, <1>2, <2>1
<1>3. CASE ~blank[r]
  <2>1. Billing(r) = [billed EXCEPT ![r] = 1]
    BY <1>1, <1>3 DEF Billing
  <2> QED
    BY <1>1, <1>3, <2>1
<1> QED
  BY <1>2, <1>3

LEMMA AfterStep ==
    ASSUME IInv, NEW r \in Requests, After(r)
    PROVE  IInv'
<1> USE DEF Outcomes, PCs, Ended, Answers, Refusals, Served, Fits, AnswerFits, HistoryFits, AccountsFit,
            progress, accounts
<1>1. CASE Respond(r)
  <2>0. PICK a \in {"upstream", "plugin_status", "502"} : answer' = [answer EXCEPT ![r] = a]
    BY <1>1 DEF IInv, PerRequest, Respond
  <2>1. PerRequest' /\ Alone(r)
    BY <1>1, <2>0 DEF IInv, PerRequest, Alone, Respond
  <2>2. Fitting(r)
    BY <1>1, <2>0 DEF IInv, PerRequest, Fitting, Respond
  <2> QED
    BY <2>1, <2>2, Moves
<1>2. CASE RespondRaises(r)
  <2>1. PerRequest' /\ Alone(r)
    BY <1>2 DEF IInv, PerRequest, Hooks, Alone, RespondRaises
  <2>2. Fitting(r)
    BY <1>2, <2>1 DEF IInv, PerRequest, Hooks, Fitting, RespondRaises
  <2> QED
    BY <2>1, <2>2, Moves
<1>3. CASE RunAfter(r)
  <2> DEFINE x == Append(ran[r].after, Head(todo[r]))
  <2>1. ran' = [ran EXCEPT ![r].after = x]
    BY <1>3 DEF RunAfter
  <2> HIDE DEF x
  <2>2. /\ ran' = [q \in Requests |-> Hooks(ran'[q])]
        /\ \A q \in Requests : q # r => ran'[q] = ran[q]
    BY <2>1, Noting DEF IInv
  <2>3. UNCHANGED <<pc, outcome, answer, counted, billed, blank, upstream>>
    BY <1>3 DEF RunAfter
  <2>4. PerRequest' /\ Alone(r)
    BY <2>2, <2>3 DEF IInv, PerRequest, Alone
  <2>5. Fitting(r)
    BY <1>3, <2>2, <2>3 DEF IInv, Fitting, RunAfter
  <2> QED
    BY <2>4, <2>5, Moves
<1>4. ASSUME NEW o \in AfterRaises, AfterRaisesIn(r, o) PROVE IInv'
  <2>1. PerRequest' /\ Alone(r)
    BY <1>4 DEF IInv, PerRequest, Hooks, Alone, AfterRaisesIn
  <2>2. Fitting(r)
    BY <1>4, <2>1 DEF IInv, PerRequest, Hooks, Fitting, AfterRaisesIn
  <2> QED
    BY <2>1, <2>2, Moves
<1>5. CASE Count(r)
  <2>1. PerRequest' /\ Alone(r)
    BY <1>5 DEF IInv, PerRequest, Hooks, Alone, Count, Countable
  <2>2. Fits(pc[r], answer[r], counted[r], billed[r], blank[r], ran[r], upstream[r])
    BY DEF IInv
  <2>3. /\ pc[r] \in {"count", "after"} /\ counted[r] = 0 /\ billed[r] = 0
        /\ UNCHANGED <<answer, billed, blank, ran, upstream>>
    BY <1>5, <2>2 DEF Count, Countable
  <2>4. pc'[r] = "bill" /\ counted'[r] = 1 /\ answer[r] \in Served
    BY <1>5, <2>2, <2>3 DEF IInv, PerRequest, Count, Countable
  <2>5. blank[r] \in BOOLEAN
    BY DEF IInv, PerRequest
  <2>6. Fitting(r)
    BY <2>2, <2>3, <2>4, <2>5 DEF Fitting
  <2> QED
    BY <2>1, <2>6, Moves
<1>6. CASE Bill(r)
  <2>0. billed[r] = 0
    BY <1>6 DEF IInv, Bill
  <2>1. PerRequest' /\ Alone(r)
    BY <1>6, <2>0, BillingEffect DEF IInv, PerRequest, Alone, Bill
  <2>2. Fitting(r)
    BY <1>6, <2>0, BillingEffect DEF IInv, PerRequest, Fitting, Bill
  <2> QED
    BY <2>1, <2>2, Moves
<1>7. CASE BillRaises(r)
  <2>0. billed[r] = 0
    BY <1>7 DEF IInv, BillRaises
  <2>1. PerRequest' /\ Alone(r)
    BY <1>7, <2>0, BillingEffect DEF IInv, PerRequest, Alone, BillRaises
  <2>2. Fitting(r)
    BY <1>7, <2>0, BillingEffect DEF IInv, PerRequest, Fitting, BillRaises
  <2> QED
    BY <2>1, <2>2, Moves
<1> QED
  BY <1>1, <1>2, <1>3, <1>4, <1>5, <1>6, <1>7 DEF After

LEMMA Inductive == IInv /\ [Next]_vars => IInv'
<1> SUFFICES ASSUME IInv, [Next]_vars PROVE IInv'
  OBVIOUS
<1>1. ASSUME NEW m \in Reloads, Reload(m) PROVE IInv'
  BY <1>1 DEF Reload, progress, accounts, IInv, PerRequest
<1>2. CASE UNCHANGED vars
  BY <1>2 DEF vars, accounts, IInv, PerRequest
<1> QED
  BY <1>1, <1>2, BeforeStep, ForwardStep, AfterStep DEF Next

(* Whatever plugins do and whenever they are reloaded, a request that was  *)
(* refused or found in the cache reaches neither the upstream nor a later  *)
(* phase.                                                                  *)
THEOREM RefusalsAreFinal == Spec => []RefusedGoesNoFurther
<1>1. Init => IInv
  BY Initially
<1>2. IInv /\ [Next]_vars => IInv'
  BY Inductive
<1>3. IInv => RefusedGoesNoFurther
  BY DEF IInv, Fits, HistoryFits, RefusedGoesNoFurther
<1> QED
  BY <1>1, <1>2, <1>3, PTL DEF Spec

(* Over every path, those by errors included, a request is counted and     *)
(* billed at most once, and both or neither when it ends regularly.        *)
THEOREM AccountsAgree == Spec => []AccountedOnce
<1>1. Init => IInv
  BY Initially
<1>2. IInv /\ [Next]_vars => IInv'
  BY Inductive
<1>3. IInv => AccountedOnce
  BY DEF IInv, PerRequest, PCs, Ended, Fits, AccountsFit, AccountedOnce
<1> QED
  BY <1>1, <1>2, <1>3, PTL DEF Spec

-----------------------------------------------------------------------------
(* RequestContract. *)

(* A request that ends, and one that moves on, as the contract sees it. *)
LEMMA StateEnds ==
    ASSUME PerRequest, NEW r \in Requests, NEW p \in Ended, pc' = [pc EXCEPT ![r] = p]
    PROVE  Contract!Ends(r, p)
<1>1. \A q \in Requests : q # r => State(q)' = State(q)
  BY DEF PerRequest, State
<1>2. State(r)' = p
  BY DEF PerRequest, State
<1> QED
  BY <1>1, <1>2 DEF Contract!Ends

LEMMA StateStays ==
    ASSUME PerRequest, NEW r \in Requests, pc[r] \notin Ended, pc'[r] \notin Ended,
           \A q \in Requests : q # r => pc'[q] = pc[q]
    PROVE  UNCHANGED [q \in Requests |-> State(q)]
<1>1. \A q \in Requests : State(q)' = State(q)
  BY DEF State
<1> QED
  BY <1>1

(* A step that the contract does not see. *)
LEMMA Unseen ==
    ASSUME UNCHANGED <<blank, answer, upstream, counted, billed>>,
           UNCHANGED [q \in Requests |-> State(q)]
    PROVE  UNCHANGED Contract!vars
BY DEF Contract!vars

LEMMA BeforeImplements ==
    ASSUME IInv, NEW r \in Requests, Before(r)
    PROVE  [Contract!Next]_(Contract!vars)
<1> USE DEF progress, accounts
<1>1. CASE UNCHANGED <<pc, blank, answer, upstream, counted, billed>>
  BY <1>1, Unseen DEF State
<1>2. ASSUME NEW list \in Lists, Arrive(r, list) PROVE UNCHANGED Contract!vars
  <2>1. UNCHANGED [q \in Requests |-> State(q)]
    BY <1>2, StateStays DEF IInv, PerRequest, Arrive, Ended
  <2> QED
    BY <1>2, <2>1, Unseen DEF Arrive
<1>3. (* no route, no tenant, or a hook that raises *)
      ASSUME NEW a \in Refusals, pc[r] \in {"idle", "before"},
             answer' = [answer EXCEPT ![r] = a], pc' = [pc EXCEPT ![r] = "done"],
             UNCHANGED <<blank, upstream, counted, billed>>
      PROVE  Contract!Refuse(r)
  <2>1. Contract!Ends(r, "done")
    BY <1>3, StateEnds DEF IInv, Ended
  <2>2. State(r) = "open" /\ answer[r] = "none" /\ upstream[r] = 0
    BY <1>3 DEF State, Ended, IInv, Fits, AnswerFits, HistoryFits
  <2> QED
    BY <1>3, <2>1, <2>2 DEF Contract!Refuse, Contract!Unanswered, Contract!Gives
<1>4. CASE HeadersRaise(r)
  <2>1. Contract!Ends(r, "escaped") /\ State(r) = "open"
    BY <1>4, StateEnds DEF IInv, HeadersRaise, Ended, State
  <2> QED
    BY <1>4, <2>1 DEF HeadersRaise, Contract!Escape, Contract!Next
<1>5. CASE ServeCached(r)
  <2>1. UNCHANGED [q \in Requests |-> State(q)]
    BY <1>5, StateStays DEF IInv, PerRequest, ServeCached, Ended
  <2>2. State(r) = "open" /\ answer[r] = "none" /\ upstream[r] = 0
    BY <1>5 DEF ServeCached, State, Ended, IInv, Fits, AnswerFits, HistoryFits
  <2>3. "cached" \in Served /\ answer' = [answer EXCEPT ![r] = "cached"]
        /\ UNCHANGED <<blank, upstream, counted, billed>>
    BY <1>5 DEF ServeCached, Served
  <2> QED
    BY <2>1, <2>2, <2>3 DEF Contract!Answer, Contract!Unanswered, Contract!Gives, Contract!Next
<1>6. ASSUME NEW a \in {"404", "400"}, TurnAway(r, a) PROVE Contract!Refuse(r)
  BY <1>3, <1>6 DEF TurnAway, Refusals
<1>7. ASSUME NEW a \in {"refused", "500"}, RefuseBefore(r, a) PROVE Contract!Refuse(r)
  BY <1>3, <1>7 DEF RefuseBefore, AfterRefusal, Refusals
<1>8. CASE SkipHook(r) \/ RunBefore(r)
  BY <1>1, <1>8 DEF SkipHook, RunBefore
<1> QED
  BY <1>2, <1>4, <1>5, <1>6, <1>7, <1>8 DEF Before, Contract!Next

LEMMA ForwardImplements ==
    ASSUME IInv, NEW r \in Requests, Forward(r)
    PROVE  [Contract!Next]_(Contract!vars)
<1>1. UNCHANGED <<blank, answer, counted, billed>> /\ answer[r] = "none" /\ State(r) = "open"
  BY DEF Forward, StartForward, CallNext, Leave, accounts, IInv, Fits, AnswerFits, State, Ended
<1>2. UNCHANGED [q \in Requests |-> State(q)]
  <2>1. CASE StartForward(r)
    <3>1. pc[r] = "before" /\ pc' = [pc EXCEPT ![r] = "forward"]
      BY <2>1 DEF StartForward
    <3> QED
      BY <3>1, StateStays DEF IInv, PerRequest, Ended
  <2>2. CASE CallNext(r)
    BY <2>2 DEF CallNext, State
  <2>3. ASSUME NEW o \in Outcomes, Leave(r, o)
        PROVE  UNCHANGED [q \in Requests |-> State(q)]
    <3>1. PICK p \in {"respond", "forward"} : pc' = [pc EXCEPT ![r] = p]
      BY <2>3 DEF Leave
    <3> QED
      BY <2>3, <3>1, StateStays DEF IInv, PerRequest, Leave, Ended
  <2> QED
    BY <2>1, <2>2, <2>3 DEF Forward
<1>3. upstream' = [upstream EXCEPT ![r] = @ + 1] \/ UNCHANGED upstream
  BY DEF Forward, StartForward, CallNext, Leave, Enters
<1> QED
  BY <1>1, <1>2, <1>3, Unseen DEF Contract!Call, Contract!Unanswered, Contract!Next

LEMMA AfterImplements ==
    ASSUME IInv, NEW r \in Requests, After(r)
    PROVE  [Contract!Next]_(Contract!vars)
<1> USE DEF progress, accounts
<1>1. CASE UNCHANGED <<pc, blank, answer, upstream, counted, billed>>
  BY <1>1, Unseen DEF State
<1>2. ASSUME pc[r] \notin Ended, pc' = [pc EXCEPT ![r] = "escaped"],
             UNCHANGED <<blank, answer, upstream, counted, billed>>
      PROVE  Contract!Next
  <2>1. Contract!Ends(r, "escaped") /\ State(r) = "open"
    BY <1>2, StateEnds DEF IInv, Ended, State
  <2> QED
    BY <1>2, <2>1 DEF Contract!Escape, Contract!Next
<1>3. CASE Respond(r)
  <2>1. UNCHANGED [q \in Requests |-> State(q)]
    BY <1>3, StateStays DEF IInv, PerRequest, Respond, Ended
  <2>2. State(r) = "open" /\ answer[r] = "none" /\ outcome[r] \in Outcomes
    BY <1>3 DEF Respond, State, Ended, IInv, PerRequest, Fits, AnswerFits
  <2>3. PICK a \in {"upstream", "plugin_status", "502"} : answer' = [answer EXCEPT ![r] = a]
    BY <1>3, <2>2 DEF Respond, Outcomes
  <2>4. a \in Served /\ a # "cached" /\ UNCHANGED <<blank, upstream, counted, billed>>
    BY <1>3 DEF Respond, Served
  <2> QED
    BY <2>1, <2>2, <2>3, <2>4 DEF Contract!Answer, Contract!Unanswered, Contract!Gives, Contract!Next
<1>4. CASE Count(r)
  <2>1. UNCHANGED [q \in Requests |-> State(q)] /\ State(r) = "open"
    BY <1>4, StateStays DEF IInv, PerRequest, Count, Countable, Ended, State
  <2>2. answer[r] \in Served /\ counted[r] = 0
    BY <1>4 DEF Count, Countable, IInv, Fits, AnswerFits, AccountsFit, Served
  <2>3. counted' = [counted EXCEPT ![r] = 1] /\ UNCHANGED <<blank, answer, upstream, billed>>
    BY <1>4, <2>2 DEF Count, IInv, PerRequest
  <2> QED
    BY <2>1, <2>2, <2>3 DEF Contract!Count, Contract!Next
<1>5. CASE Bill(r)
  <2>1. Contract!Ends(r, "done") /\ State(r) = "open"
    BY <1>5, StateEnds DEF IInv, Bill, Ended, State
  <2>2. counted[r] = 1 /\ billed[r] = 0
    BY <1>5 DEF Bill, IInv, Fits, AccountsFit, Ended
  <2>3. billed' = Contract!Billed(r) /\ UNCHANGED <<blank, answer, upstream, counted>>
    BY <1>5, <2>2, BillingEffect DEF Bill, IInv, Contract!Billed
  <2> QED
    BY <2>1, <2>2, <2>3 DEF Contract!Bill, Contract!Next
<1>6. CASE RunAfter(r)
  BY <1>1, <1>6 DEF RunAfter
<1>7. CASE RespondRaises(r)
  BY <1>2, <1>7 DEF RespondRaises, Ended
<1>9. CASE BillRaises(r)
  <2>1. Contract!Ends(r, "escaped") /\ State(r) = "open"
    BY <1>9, StateEnds DEF IInv, BillRaises, Ended, State
  <2>2. counted[r] = 1 /\ billed[r] = 0
    BY <1>9 DEF BillRaises, IInv, Fits, AccountsFit, Ended
  <2>3. billed' \in {billed, Contract!Billed(r)} /\ UNCHANGED <<blank, answer, upstream, counted>>
    BY <1>9, <2>2, BillingEffect DEF BillRaises, IInv, Contract!Billed
  <2> QED
    BY <2>1, <2>2, <2>3 DEF Contract!Escape, Contract!Next
<1>8. ASSUME NEW o \in AfterRaises, AfterRaisesIn(r, o) PROVE [Contract!Next]_(Contract!vars)
  BY <1>1, <1>2, <1>8 DEF AfterRaisesIn, Ended
<1> QED
  BY <1>3, <1>4, <1>5, <1>6, <1>7, <1>8, <1>9 DEF After

(* app() implements RequestContract for any requests, plugin lists,        *)
(* plugins and reloads: initial states map to initial states, and every    *)
(* step to a step of the contract for one request, or to a stutter.        *)
THEOREM ImplementsContract == Spec => KeepsContract
<1>1. Init => Contract!Init
  BY DEF Init, Contract!Init, State, Ended
<1>2. Init => IInv
  BY Initially
<1>3. IInv /\ [Next]_vars => IInv'
  BY Inductive
<1>4. IInv /\ [Next]_vars => [Contract!Next]_(Contract!vars)
  <2>1. ASSUME NEW m \in Reloads, Reload(m) PROVE UNCHANGED Contract!vars
    BY <2>1 DEF Reload, progress, accounts, Contract!vars, State
  <2>2. UNCHANGED vars => UNCHANGED Contract!vars
    BY DEF vars, accounts, Contract!vars, State
  <2> QED
    BY <2>1, <2>2, BeforeImplements, ForwardImplements, AfterImplements DEF Next
<1> QED
  BY <1>1, <1>2, <1>3, <1>4, PTL DEF Spec, Contract!Spec, KeepsContract

-----------------------------------------------------------------------------
(* What the order of a list is. *)

(* Earlier is a strict total order on the places of a list. *)
LEMMA EarlierIsOrder ==
    ASSUME NEW list \in Seq(Elements)
    PROVE  /\ \A n \in DOMAIN list : n \in Nat /\ OrderOf(list, n) \in Int
           /\ \A n \in DOMAIN list : ~ Earlier(list, n, n)
           /\ \A m, n \in DOMAIN list : m # n => Earlier(list, m, n) \/ Earlier(list, n, m)
           /\ \A l, m, n \in DOMAIN list :
                 Earlier(list, l, m) /\ Earlier(list, m, n) => Earlier(list, l, n)
<1>1. \A n \in DOMAIN list : n \in Nat /\ OrderOf(list, n) \in Int
  <2> SUFFICES ASSUME NEW n \in DOMAIN list PROVE n \in Nat /\ OrderOf(list, n) \in Int
    OBVIOUS
  <2>1. n \in Nat /\ list[n] \in Elements
    OBVIOUS
  <2>2. list[n].order \in Seq(Int)
    BY <2>1 DEF Elements
  <2>3. list[n].order # <<>> => list[n].order[1] \in Int
    <3> DEFINE o == list[n].order
    <3> HIDE DEF o
    <3>1. o \in Seq(Int)
      BY <2>2 DEF o
    <3>2. o # <<>> => o[1] \in Int
      BY <3>1
    <3> QED
      BY <3>2 DEF o
  <2> QED
    BY <2>1, <2>3 DEF OrderOf
<1> QED
  BY <1>1 DEF Earlier

LEMMA PlacesFinite ==
    ASSUME NEW list \in Seq(Elements), NEW S \in SUBSET DOMAIN list
    PROVE  IsFiniteSet(S) /\ Cardinality(S) \in Nat
<1>1. DOMAIN list = 1 .. Len(list) /\ Len(list) \in Nat
  OBVIOUS
<1>2. IsFiniteSet(1 .. Len(list))
  BY <1>1, FS_Interval
<1> QED
  BY <1>1, <1>2, FS_Subset, FS_CardinalityType

LEMMA RankGrows ==
    ASSUME NEW list \in Seq(Elements), NEW S \in SUBSET DOMAIN list,
           NEW m \in S, NEW n \in S, Earlier(list, m, n)
    PROVE  Rank(list, S, m) < Rank(list, S, n)
<1> DEFINE M == {l \in S : Earlier(list, l, m)}
           N == {l \in S : Earlier(list, l, n)}
<1>1. M \cup {m} \in SUBSET N /\ m \notin M /\ M \in SUBSET S /\ N \in SUBSET S
  BY EarlierIsOrder
<1>2. IsFiniteSet(M) /\ IsFiniteSet(N) /\ Cardinality(M) \in Nat /\ Cardinality(N) \in Nat
  BY <1>1, PlacesFinite
<1> HIDE DEF M, N
<1>3. Cardinality(M \cup {m}) = Cardinality(M) + 1 /\ Cardinality(M \cup {m}) <= Cardinality(N)
  BY <1>1, <1>2, FS_AddElement, FS_Subset
<1>4. Cardinality(M) < Cardinality(N)
  BY <1>2, <1>3
<1> QED
  BY <1>4 DEF M, N, Rank

LEMMA RankIsPlace ==
    ASSUME NEW list \in Seq(Elements), NEW S \in SUBSET DOMAIN list
    PROVE  \A n \in S : Rank(list, S, n) \in 0 .. Cardinality(S) - 1
<1> SUFFICES ASSUME NEW n \in S PROVE Rank(list, S, n) \in 0 .. Cardinality(S) - 1
  OBVIOUS
<1> DEFINE N == {l \in S : Earlier(list, l, n)}
<1>1. N \cup {n} \in SUBSET S /\ n \notin N /\ N \in SUBSET S
  BY EarlierIsOrder
<1>2. IsFiniteSet(S) /\ Cardinality(S) \in Nat /\ IsFiniteSet(N) /\ Cardinality(N) \in Nat
  BY <1>1, PlacesFinite
<1> HIDE DEF N
<1>3. Cardinality(N \cup {n}) = Cardinality(N) + 1 /\ Cardinality(N \cup {n}) <= Cardinality(S)
  BY <1>1, <1>2, FS_AddElement, FS_Subset
<1>4. Cardinality(N) \in 0 .. Cardinality(S) - 1
  BY <1>2, <1>3
<1> QED
  BY <1>4 DEF N, Rank

(* Sorted lists each place of S once, by order. *)
LEMMA SortedSorts ==
    ASSUME NEW list \in Seq(Elements), NEW S \in SUBSET DOMAIN list
    PROVE  /\ Cardinality(S) \in Nat
           /\ Sorted(list, S) \in [1 .. Cardinality(S) -> S]
           /\ \A n \in S : \E k \in 1 .. Cardinality(S) : Sorted(list, S)[k] = n
           /\ \A j, k \in 1 .. Cardinality(S) :
                 j < k => Earlier(list, Sorted(list, S)[j], Sorted(list, S)[k])
<1> DEFINE c == Cardinality(S)
           rank == [n \in S |-> Rank(list, S, n) + 1]
           s == Sorted(list, S)
<1>1. IsFiniteSet(S) /\ c \in Nat
  BY PlacesFinite
<1>2. rank \in [S -> 1 .. c]
  BY <1>1, RankIsPlace
<1>3. \A m, n \in S : Earlier(list, m, n) => rank[m] < rank[n]
  <2> SUFFICES ASSUME NEW m \in S, NEW n \in S, Earlier(list, m, n)
               PROVE  rank[m] < rank[n]
    OBVIOUS
  <2>1. Rank(list, S, m) < Rank(list, S, n)
    BY RankGrows
  <2>2. Rank(list, S, m) \in Int /\ Rank(list, S, n) \in Int
    BY <1>1, RankIsPlace
  <2> QED
    BY <2>1, <2>2
<1>4. IsInjective(rank)
  <2> SUFFICES ASSUME NEW m \in S, NEW n \in S, rank[m] = rank[n], m # n
               PROVE  FALSE
    BY DEF IsInjective
  <2>1. rank[m] < rank[n] \/ rank[n] < rank[m]
    BY <1>3, EarlierIsOrder
  <2>2. rank[m] \in Int /\ rank[n] \in Int
    BY <1>2
  <2> HIDE DEF rank
  <2> QED
    BY <2>1, <2>2
<1>5. rank \in Surjection(S, 1 .. c)
  <2>1. rank \in Injection(S, 1 .. c)
    BY <1>2, <1>4 DEF Injection
  <2>2. IsFiniteSet(1 .. c) /\ Cardinality(1 .. c) = Cardinality(S)
    BY <1>1, FS_Interval
  <2> HIDE DEF rank
  <2> QED
    BY <2>1, <2>2, FS_Injection
<1>6. ASSUME NEW k \in 1 .. c PROVE s[k] \in S /\ rank[s[k]] = k
  <2>1. PICK n \in S : rank[n] = k
    <3> HIDE DEF rank, c
    <3> QED
      BY <1>5 DEF Surjection
  <2>2. Rank(list, S, n) = k - 1
    BY <1>1, <2>1, RankIsPlace
  <2>3. s[k] = CHOOSE l \in S : Rank(list, S, l) = k - 1
    BY DEF Sorted
  <2>4. s[k] \in S /\ Rank(list, S, s[k]) = k - 1
    BY <2>2, <2>3
  <2> QED
    BY <1>1, <2>4
<1>7. s \in [1 .. c -> S]
  BY <1>6 DEF Sorted
<1>8. ASSUME NEW n \in S PROVE \E k \in 1 .. c : s[k] = n
  <2>1. rank[n] \in 1 .. c
    BY <1>2
  <2>2. s[rank[n]] \in S /\ rank[s[rank[n]]] = rank[n]
    BY <1>6, <2>1
  <2>3. s[rank[n]] = n
    <3> HIDE DEF rank, s
    <3> QED
      BY <1>2, <1>4, <2>2 DEF IsInjective
  <2> QED
    BY <2>1, <2>3
<1>9. ASSUME NEW j \in 1 .. c, NEW k \in 1 .. c, j < k
      PROVE  Earlier(list, s[j], s[k])
  <2>1. s[j] \in S /\ s[k] \in S /\ rank[s[j]] = j /\ rank[s[k]] = k
    BY <1>6
  <2>2. s[j] # s[k]
    BY <1>1, <1>9, <2>1
  <2>3. ~ Earlier(list, s[k], s[j])
    <3> HIDE DEF rank, s, c
    <3> QED
      BY <1>1, <1>3, <1>9, <2>1
  <2> HIDE DEF rank, s
  <2> QED
    BY <2>1, <2>2, <2>3, EarlierIsOrder
<1> QED
  BY <1>1, <1>7, <1>8, <1>9

LEMMA ListedAreTypes ==
    ASSUME NEW list \in Seq(Elements)
    PROVE  /\ Listed(list) \in SUBSET DOMAIN list
           /\ \A n \in Listed(list) : list[n].type \in Types
<1>1. ASSUME NEW n \in DOMAIN list, list[n].type # "" PROVE list[n].type \in Types
  <2>1. list[n] \in Elements
    OBVIOUS
  <2> QED
    BY <1>1, <2>1 DEF Elements
<1> QED
  BY <1>1 DEF Listed

(* The plugins of the phases are types, and every forward plugin a route   *)
(* asks for is in its chain.                                               *)
LEMMA OrdersTyped ==
    ASSUME NEW list \in Seq(Elements)
    PROVE  BeforeOrder(list) \in Seq(Types) /\ AfterOrder(list) \in Seq(Types)
<1> DEFINE S == {n \in Listed(list) : OrderOf(list, n) # 0}
<1>1. S \in SUBSET DOMAIN list /\ \A n \in S : list[n].type \in Types
  BY ListedAreTypes
<1>2. Cardinality(S) \in Nat /\ BeforePlaces(list) \in [1 .. Cardinality(S) -> S]
  <2> HIDE DEF S
  <2>1. Cardinality(S) \in Nat /\ Sorted(list, S) \in [1 .. Cardinality(S) -> S]
    BY <1>1, SortedSorts
  <2> QED
    BY <2>1 DEF S, BeforePlaces
<1> HIDE DEF S
<1>3. BeforeOrder(list) \in [1 .. Cardinality(S) -> Types]
  BY <1>1, <1>2 DEF BeforeOrder, TypesAt
<1>4. BeforeOrder(list) \in Seq(Types)
  BY <1>2, <1>3
<1>5. AfterOrder(list) \in Seq(Types)
  <2> DEFINE b == BeforeOrder(list)
  <2> HIDE DEF b
  <2>1. b \in Seq(Types)
    BY <1>4 DEF b
  <2>2. Reverse(b) \in Seq(Types)
    BY <2>1 DEF Reverse
  <2> QED
    BY <2>2 DEF b, AfterOrder
<1> QED
  BY <1>4, <1>5

LEMMA ChainTyped ==
    ASSUME NEW list \in Seq(Elements), NEW reg
    PROVE  /\ ForwardChain(list, reg) \in Seq(Types)
           /\ \A t \in Asked(list) :
                 reg[t] = "forward" => t \in Range(ForwardChain(list, reg))
<1> DEFINE S == {n \in Listed(list) : reg[list[n].type] = "forward"}
           s == Sorted(list, S)
           F == ForwardChain(list, reg)
<1>1. S \in SUBSET DOMAIN list /\ \A n \in S : list[n].type \in Types
  BY ListedAreTypes
<1>2. /\ Cardinality(S) \in Nat /\ s \in [1 .. Cardinality(S) -> S]
      /\ \A n \in S : \E k \in 1 .. Cardinality(S) : s[k] = n
  <2> HIDE DEF S
  <2> QED
    BY <1>1, SortedSorts
<1>3. F = [k \in 1 .. Cardinality(S) |-> list[s[k]].type]
  <2>1. F = TypesAt(list, s)
    BY DEF ForwardChain
  <2> HIDE DEF F, s, S
  <2> QED
    BY <1>2, <2>1 DEF TypesAt
<1>4. F \in Seq(Types)
  <2> HIDE DEF F, s, S
  <2>1. F \in [1 .. Cardinality(S) -> Types]
    BY <1>1, <1>2, <1>3
  <2> QED
    BY <1>2, <2>1
<1>5. ASSUME NEW t \in Asked(list), reg[t] = "forward" PROVE t \in Range(F)
  <2>1. PICK n \in Listed(list) : list[n].type = t
    <3> DEFINE P == {n \in Listed(list) : OrderOf(list, n) # 0}
    <3>1. P \in SUBSET DOMAIN list
      BY DEF Listed
    <3>2. Sorted(list, P) \in [1 .. Cardinality(P) -> P]
      <4> HIDE DEF P
      <4> QED
        BY <3>1, SortedSorts
    <3>3. PICK k \in 1 .. Cardinality(P) : t = list[Sorted(list, P)[k]].type
      BY <3>2 DEF Asked, BeforeOrder, BeforePlaces, TypesAt, Range
    <3>4. Sorted(list, P)[k] \in P
      BY <3>2
    <3> QED
      BY <3>3, <3>4
  <2>2. n \in S
    BY <1>5, <2>1
  <2>3. PICK k \in 1 .. Cardinality(S) : s[k] = n
    BY <1>2, <2>2
  <2>4. F[k] = t /\ k \in DOMAIN F
    <3> HIDE DEF F, s, S
    <3> QED
      BY <1>3, <2>1, <2>3
  <2> QED
    BY <2>4 DEF Range
<1> QED
  BY <1>4, <1>5

(* The places of a list that the phase before the request runs, by order. *)
LEMMA PlacesInOrder ==
    ASSUME NEW list \in Seq(Elements)
    PROVE  LET P == BeforePlaces(list)
               B == BeforeOrder(list)
           IN  /\ DOMAIN P = 1 .. Len(B)
               /\ \A k \in 1 .. Len(B) :
                    P[k] \in DOMAIN list /\ list[P[k]].type = B[k] /\ OrderOf(list, P[k]) # 0
               /\ \A j, k \in 1 .. Len(B) :
                    j < k => P[j] # P[k] /\ OrderOf(list, P[j]) <= OrderOf(list, P[k])
<1> DEFINE S == {n \in Listed(list) : OrderOf(list, n) # 0}
           P == BeforePlaces(list)
           B == BeforeOrder(list)
<1>1. S \in SUBSET DOMAIN list
  BY DEF Listed
<1>2. /\ Cardinality(S) \in Nat /\ P \in [1 .. Cardinality(S) -> S]
      /\ \A j, k \in 1 .. Cardinality(S) : j < k => Earlier(list, P[j], P[k])
  <2> HIDE DEF S
  <2>1. /\ Cardinality(S) \in Nat /\ Sorted(list, S) \in [1 .. Cardinality(S) -> S]
        /\ \A j, k \in 1 .. Cardinality(S) :
              j < k => Earlier(list, Sorted(list, S)[j], Sorted(list, S)[k])
    BY <1>1, SortedSorts
  <2> QED
    BY <2>1 DEF S, BeforePlaces
<1>3. B = [k \in DOMAIN P |-> list[P[k]].type] /\ B \in Seq(Types)
  BY OrdersTyped DEF BeforeOrder, TypesAt
<1>4. DOMAIN P = 1 .. Cardinality(S) /\ Len(B) = Cardinality(S)
  <2> HIDE DEF P, B, S
  <2> QED
    BY <1>2, <1>3
<1>5. \A k \in 1 .. Len(B) : P[k] \in S
  <2> HIDE DEF P, B, S
  <2> QED
    BY <1>2, <1>4
<1>6. \A k \in 1 .. Len(B) : list[P[k]].type = B[k]
  <2> HIDE DEF P, B, S
  <2> QED
    BY <1>3, <1>4
<1>7. ASSUME NEW j \in 1 .. Len(B), NEW k \in 1 .. Len(B), j < k
      PROVE  P[j] # P[k] /\ OrderOf(list, P[j]) <= OrderOf(list, P[k])
  <2>1. Earlier(list, P[j], P[k]) /\ P[j] \in DOMAIN list /\ P[k] \in DOMAIN list
    BY <1>1, <1>2, <1>4, <1>5, <1>7
  <2> HIDE DEF P, B
  <2> QED
    BY <2>1, EarlierIsOrder DEF Earlier
<1> QED
  BY <1>1, <1>4, <1>5, <1>6, <1>7

-----------------------------------------------------------------------------
(* What a step does to its request. *)

Shapes ==
    /\ route \in [Requests -> Lists \cup {<<>>}]
    /\ hit \in [Requests -> BOOLEAN]
    /\ steady \in [Requests -> SUBSET Types]
    /\ todo = [r \in Requests |-> todo[r]]
    /\ chain = [r \in Requests |-> chain[r]]
    /\ depth = [r \in Requests |-> depth[r]]

(* What of the state of a request the invariants below speak of. *)
Plan(r) == <<pc[r], route[r], todo[r], chain[r], depth[r], steady[r]>>
History(r) == <<ran[r].before, ran[r].around, ran[r].after, upstream[r]>>

Others(r) == \A q \in Requests : q # r => Plan(q)' = Plan(q) /\ History(q)' = History(q)

Came(r) ==
    /\ pc[r] = "idle" /\ pc'[r] = "before"
    /\ route'[r] \in Lists /\ todo'[r] = BeforeOrder(route'[r])
    /\ steady'[r] = {t \in Types : registry[t] # "absent"}
    /\ UNCHANGED <<chain[r], depth[r], History(r)>>

Skipped(r) ==
    /\ pc[r] \in {"before", "after"} /\ todo[r] # <<>> /\ registry[Head(todo[r])] # "before_after"
    /\ todo'[r] = Tail(todo[r])
    /\ UNCHANGED <<pc[r], route[r], chain[r], depth[r], steady[r], History(r)>>

Saw(r) ==
    /\ pc[r] = "before" /\ todo[r] # <<>> /\ registry[Head(todo[r])] = "before_after"
    /\ todo'[r] = Tail(todo[r])
    /\ ran'[r].before = Append(ran[r].before, Head(todo[r]))
    /\ UNCHANGED <<pc[r], route[r], chain[r], depth[r], steady[r],
                   ran[r].around, ran[r].after, upstream[r]>>

Refused(r) ==
    /\ pc[r] = "before" /\ pc'[r] = "done" /\ todo'[r] = <<>>
    /\ UNCHANGED <<route[r], chain[r], depth[r], steady[r], History(r)>>

(* execute() goes to place d. *)
Entered(r, d) ==
    /\ depth'[r] = d
    /\ IF d > Len(chain'[r])
       THEN upstream'[r] = upstream[r] + 1 /\ UNCHANGED ran[r].around
       ELSE ran'[r].around = ran[r].around \cup {chain'[r][d]} /\ UNCHANGED upstream[r]
    /\ UNCHANGED <<route[r], todo[r], steady[r], ran[r].before, ran[r].after>>

Started(r) ==
    /\ pc[r] = "before" /\ pc'[r] = "forward" /\ todo[r] = <<>>
    /\ chain'[r] = ForwardChain(route[r], registry)
    /\ Entered(r, 1)

Called(r) ==
    /\ pc[r] = "forward" /\ pc'[r] = "forward" /\ UNCHANGED chain[r]
    /\ depth[r] \in 1 .. Len(chain[r]) /\ upstream[r] < MaxUpstream
    /\ Entered(r, depth[r] + 1)

Left(r) ==
    /\ pc[r] = "forward" /\ pc'[r] = (IF depth[r] = 1 THEN "respond" ELSE "forward")
    /\ depth'[r] = depth[r] - 1
    /\ UNCHANGED <<route[r], todo[r], chain[r], steady[r], History(r)>>

Responded(r) ==
    /\ pc[r] = "respond" /\ pc'[r] = "after" /\ todo'[r] = AfterOrder(route[r])
    /\ UNCHANGED <<route[r], chain[r], depth[r], steady[r], History(r)>>

Unwound(r) ==
    /\ pc[r] = "after" /\ todo[r] # <<>> /\ registry[Head(todo[r])] = "before_after"
    /\ todo'[r] = Tail(todo[r])
    /\ ran'[r].after = Append(ran[r].after, Head(todo[r]))
    /\ UNCHANGED <<pc[r], route[r], chain[r], depth[r], steady[r],
                   ran[r].before, ran[r].around, upstream[r]>>

CutShort(r) ==
    /\ pc[r] = "after" /\ pc'[r] \in {"after", "escaped"} /\ todo'[r] = <<>>
    /\ UNCHANGED <<route[r], chain[r], depth[r], steady[r], History(r)>>

(* It is answered, counted, billed or given up. *)
Ends(r) ==
    /\ pc'[r] \in {"done", "escaped", "count", "bill"}
    /\ pc[r] = "idle" => pc'[r] \in Ended
    /\ UNCHANGED <<route[r], todo[r], chain[r], depth[r], steady[r], History(r)>>

Effect(r) ==
    \/ Came(r) \/ Skipped(r) \/ Saw(r) \/ Refused(r) \/ Started(r) \/ Called(r) \/ Left(r)
    \/ Responded(r) \/ Unwound(r) \/ CutShort(r) \/ Ends(r)

Moved(r) == Effect(r) /\ Others(r) /\ Shapes' /\ UNCHANGED registry

(* Noting hooks of r sets one field of its record. *)
LEMMA Noted ==
    ASSUME PerRequest, NEW r \in Requests, NEW x
    PROVE  /\ ran' = [ran EXCEPT ![r].before = x] =>
                 ran'[r].before = x /\ UNCHANGED <<ran[r].around, ran[r].after>>
           /\ ran' = [ran EXCEPT ![r].after = x] =>
                 ran'[r].after = x /\ UNCHANGED <<ran[r].before, ran[r].around>>
           /\ ran' = [ran EXCEPT ![r].around = x] =>
                 ran'[r].around = x /\ UNCHANGED <<ran[r].before, ran[r].after>>
<1>1. ran[r] = Hooks(ran[r])
  BY DEF PerRequest
<1>2. ASSUME ran' = [ran EXCEPT ![r].before = x]
      PROVE  ran'[r] = [before |-> x, around |-> ran[r].around, after |-> ran[r].after]
  <2>1. ran'[r] = [ran[r] EXCEPT !.before = x]
    BY <1>2 DEF PerRequest
  <2> QED
    BY <1>1, <2>1 DEF Hooks
<1>3. ASSUME ran' = [ran EXCEPT ![r].after = x]
      PROVE  ran'[r] = [before |-> ran[r].before, around |-> ran[r].around, after |-> x]
  <2>1. ran'[r] = [ran[r] EXCEPT !.after = x]
    BY <1>3 DEF PerRequest
  <2> QED
    BY <1>1, <2>1 DEF Hooks
<1>4. ASSUME ran' = [ran EXCEPT ![r].around = x]
      PROVE  ran'[r] = [before |-> ran[r].before, around |-> x, after |-> ran[r].after]
  <2>1. ran'[r] = [ran[r] EXCEPT !.around = x]
    BY <1>4 DEF PerRequest
  <2> QED
    BY <1>1, <2>1 DEF Hooks
<1> QED
  BY <1>2, <1>3, <1>4

(* Every step of a request has one of these effects on it, and none on the *)
(* others.                                                                 *)
LEMMA MovedBefore ==
    ASSUME PerRequest, Shapes, NEW r \in Requests, Before(r)
    PROVE  Moved(r)
<1>1. CASE \E list \in Lists : Arrive(r, list)
  <2>1. PICK list \in Lists : Arrive(r, list)
    BY <1>1
  <2>2. Came(r)
    BY <2>1 DEF Shapes, History, PerRequest, Came, Arrive, HooksBefore
  <2>3. Others(r) /\ UNCHANGED registry
    BY <2>1 DEF Shapes, Plan, History, PerRequest, Others, Arrive
  <2>4. steady' \in [Requests -> SUBSET Types]
    BY <2>1 DEF Shapes, Arrive
  <2>5. Shapes'
    BY <2>1, <2>4 DEF Shapes, Arrive
  <2> QED
    BY <2>2, <2>3, <2>5 DEF Moved, Effect
<1>2. CASE \E status \in {"404", "400"} : TurnAway(r, status)
  <2>1. Ends(r)
    BY <1>2 DEF PerRequest, Shapes, History, Ends, TurnAway, progress, Ended
  <2>2. Others(r) /\ Shapes' /\ UNCHANGED registry
    BY <1>2 DEF PerRequest, Shapes, Plan, History, Others, TurnAway, progress
  <2> QED
    BY <2>1, <2>2 DEF Moved, Effect
<1>3. CASE HeadersRaise(r)
  <2>1. Ends(r)
    BY <1>3 DEF PerRequest, Shapes, History, Ends, HeadersRaise, progress, Ended
  <2>2. Others(r) /\ Shapes' /\ UNCHANGED registry
    BY <1>3 DEF PerRequest, Shapes, Plan, History, Others, HeadersRaise, progress
  <2> QED
    BY <2>1, <2>2 DEF Moved, Effect
<1>4. CASE SkipHook(r)
  <2>1. Skipped(r)
    BY <1>4 DEF PerRequest, Shapes, History, Skipped, SkipHook, RunsHooks
  <2>2. Others(r) /\ Shapes' /\ UNCHANGED registry
    BY <1>4 DEF PerRequest, Shapes, Plan, History, Others, SkipHook
  <2> QED
    BY <2>1, <2>2 DEF Moved, Effect
<1>5. CASE RunBefore(r)
  <2>1. ran' = [ran EXCEPT ![r].before = Append(ran[r].before, Head(todo[r]))]
    BY <1>5 DEF RunBefore, RunsHooks
  <2>2. /\ ran'[r].before = Append(ran[r].before, Head(todo[r]))
        /\ UNCHANGED <<ran[r].around, ran[r].after>>
    BY <2>1, Noted
  <2>3. Saw(r)
    BY <1>5, <2>2 DEF PerRequest, Shapes, History, Saw, RunBefore, RunsHooks
  <2>4. Others(r) /\ Shapes' /\ UNCHANGED registry
    BY <1>5, <2>1 DEF PerRequest, Shapes, Plan, History, Others, RunBefore
  <2> QED
    BY <2>3, <2>4 DEF Moved, Effect
<1>6. CASE \E status \in {"refused", "500"} : RefuseBefore(r, status)
  <2>1. Refused(r)
    BY <1>6
       DEF PerRequest, Shapes, History, Refused, RefuseBefore, RunsHooks,
           AfterRefusal
  <2>2. PICK status \in {"refused", "500"} : RefuseBefore(r, status)
    BY <1>6
  <2>3. Others(r) /\ UNCHANGED registry
    BY <2>2 DEF PerRequest, Shapes, Plan, History, Others, RefuseBefore
  <2>4. Shapes'
    BY <2>2 DEF Shapes, RefuseBefore
  <2> QED
    BY <2>1, <2>3, <2>4 DEF Moved, Effect
<1>7. CASE ServeCached(r)
  <2>1. Ends(r)
    BY <1>7 DEF PerRequest, Shapes, History, Ends, ServeCached, progress, Ended
  <2>2. Others(r) /\ Shapes' /\ UNCHANGED registry
    BY <1>7 DEF PerRequest, Shapes, Plan, History, Others, ServeCached, progress
  <2> QED
    BY <2>1, <2>2 DEF Moved, Effect
<1> QED
  BY <1>1, <1>2, <1>3, <1>4, <1>5, <1>6, <1>7 DEF Before

LEMMA EnteredBy ==
    ASSUME PerRequest, Shapes, NEW r \in Requests, NEW d, NEW list, chain'[r] = list,
           Enters(r, d, list), UNCHANGED <<route, todo, steady>>
    PROVE  /\ Entered(r, d)
           /\ depth' = [q \in Requests |-> depth'[q]]
           /\ \A q \in Requests : q # r => History(q)' = History(q) /\ depth'[q] = depth[q]
<1>1. CASE d > Len(list)
  BY <1>1 DEF Enters, Entered, PerRequest, Shapes, History
<1>2. CASE ~ (d > Len(list))
  <2> DEFINE x == ran[r].around \cup {list[d]}
  <2>1. ran' = [ran EXCEPT ![r].around = x] /\ UNCHANGED upstream
    BY <1>2 DEF Enters, PerRequest
  <2> HIDE DEF x
  <2>2. ran'[r].around = x /\ UNCHANGED <<ran[r].before, ran[r].after>>
    BY <2>1, Noted
  <2>3. Entered(r, d)
    BY <1>2, <2>1, <2>2 DEF Enters, Entered, Shapes, x
  <2> QED
    BY <1>2, <2>1, <2>3 DEF Enters, PerRequest, Shapes, History
<1> QED
  BY <1>1, <1>2

LEMMA MovedForward ==
    ASSUME PerRequest, Shapes, NEW r \in Requests, Forward(r)
    PROVE  Moved(r)
<1>1. CASE StartForward(r)
  <2>1. chain'[r] = ForwardChain(route[r], registry)
    BY <1>1 DEF StartForward, ChainOf, Shapes
  <2>2. /\ Entered(r, 1)
        /\ depth' = [q \in Requests |-> depth'[q]]
        /\ \A q \in Requests : q # r => History(q)' = History(q) /\ depth'[q] = depth[q]
    BY <1>1, <2>1, EnteredBy DEF StartForward
  <2>3. Started(r)
    BY <1>1, <2>1, <2>2 DEF StartForward, Started, PerRequest
  <2>4. Others(r) /\ Shapes' /\ UNCHANGED registry
    BY <1>1, <2>2 DEF StartForward, PerRequest, Shapes, Others, Plan
  <2> QED
    BY <2>3, <2>4 DEF Moved, Effect
<1>2. CASE CallNext(r)
  <2>1. /\ Entered(r, depth[r] + 1)
        /\ depth' = [q \in Requests |-> depth'[q]]
        /\ \A q \in Requests : q # r => History(q)' = History(q) /\ depth'[q] = depth[q]
    BY <1>2, EnteredBy DEF CallNext
  <2>2. Called(r)
    BY <1>2, <2>1 DEF CallNext, Called
  <2>3. Others(r) /\ Shapes' /\ UNCHANGED registry
    BY <1>2, <2>1 DEF CallNext, PerRequest, Shapes, Others, Plan
  <2> QED
    BY <2>2, <2>3 DEF Moved, Effect
<1>3. CASE \E o \in Outcomes : Leave(r, o)
  <2>1. Left(r)
    BY <1>3 DEF PerRequest, Shapes, History, Left, Leave
  <2>2. Others(r) /\ Shapes' /\ UNCHANGED registry
    BY <1>3 DEF PerRequest, Shapes, Plan, History, Others, Leave
  <2> QED
    BY <2>1, <2>2 DEF Moved, Effect
<1> QED
  BY <1>1, <1>2, <1>3 DEF Forward

LEMMA MovedAfter ==
    ASSUME PerRequest, Shapes, NEW r \in Requests, After(r)
    PROVE  Moved(r)
<1>1. CASE Respond(r)
  <2>1. Responded(r)
    BY <1>1 DEF PerRequest, Shapes, History, Responded, Respond, HooksAfter
  <2>2. Others(r) /\ Shapes' /\ UNCHANGED registry
    BY <1>1 DEF PerRequest, Shapes, Plan, History, Others, Respond
  <2> QED
    BY <2>1, <2>2 DEF Moved, Effect
<1>2. CASE RespondRaises(r)
  <2>1. Ends(r)
    BY <1>2 DEF PerRequest, Shapes, History, Ends, RespondRaises, progress, Ended
  <2>2. Others(r) /\ Shapes' /\ UNCHANGED registry
    BY <1>2 DEF PerRequest, Shapes, Plan, History, Others, RespondRaises, progress
  <2> QED
    BY <2>1, <2>2 DEF Moved, Effect
<1>3. CASE RunAfter(r)
  <2>1. ran' = [ran EXCEPT ![r].after = Append(ran[r].after, Head(todo[r]))]
    BY <1>3 DEF RunAfter, RunsHooks
  <2>2. /\ ran'[r].after = Append(ran[r].after, Head(todo[r]))
        /\ UNCHANGED <<ran[r].before, ran[r].around>>
    BY <2>1, Noted
  <2>3. Unwound(r)
    BY <1>3, <2>2 DEF PerRequest, Shapes, History, Unwound, RunAfter, RunsHooks
  <2>4. Others(r) /\ Shapes' /\ UNCHANGED registry
    BY <1>3, <2>1 DEF PerRequest, Shapes, Plan, History, Others, RunAfter
  <2> QED
    BY <2>3, <2>4 DEF Moved, Effect
<1>4. CASE \E o \in AfterRaises : AfterRaisesIn(r, o)
  <2>1. CutShort(r)
    BY <1>4 DEF PerRequest, Shapes, History, CutShort, AfterRaisesIn
  <2>2. Others(r) /\ Shapes' /\ UNCHANGED registry
    BY <1>4 DEF PerRequest, Shapes, Plan, History, Others, AfterRaisesIn
  <2> QED
    BY <2>1, <2>2 DEF Moved, Effect
<1>5. CASE Count(r)
  <2>1. Ends(r)
    BY <1>5
       DEF PerRequest, Shapes, History, Ends, Count, progress, Ended, Countable
  <2>2. Others(r) /\ Shapes' /\ UNCHANGED registry
    BY <1>5 DEF PerRequest, Shapes, Plan, History, Others, Count, progress
  <2> QED
    BY <2>1, <2>2 DEF Moved, Effect
<1>6. CASE Bill(r)
  <2>1. Ends(r)
    BY <1>6 DEF PerRequest, Shapes, History, Ends, Bill, progress, Ended
  <2>2. Others(r) /\ Shapes' /\ UNCHANGED registry
    BY <1>6 DEF PerRequest, Shapes, Plan, History, Others, Bill, progress
  <2> QED
    BY <2>1, <2>2 DEF Moved, Effect
<1>7. CASE BillRaises(r)
  <2>1. Ends(r)
    BY <1>7 DEF PerRequest, Shapes, History, Ends, BillRaises, progress, Ended
  <2>2. Others(r) /\ Shapes' /\ UNCHANGED registry
    BY <1>7 DEF PerRequest, Shapes, Plan, History, Others, BillRaises, progress
  <2> QED
    BY <2>1, <2>2 DEF Moved, Effect
<1> QED
  BY <1>1, <1>2, <1>3, <1>4, <1>5, <1>6, <1>7 DEF After

-----------------------------------------------------------------------------
(* Types. *)

HistoryTyped(r) ==
    /\ ran[r].before \in Seq(Types) /\ ran[r].after \in Seq(Types)
    /\ ran[r].around \subseteq Types /\ upstream[r] \in 0 .. MaxUpstream

PlanTyped(r) ==
    /\ route[r] \in Lists \cup {<<>>}
    /\ todo[r] \in Seq(Types) /\ chain[r] \in Seq(Types)
    /\ depth[r] \in 0 .. Len(chain[r]) + 1
    /\ pc[r] = "forward" => depth[r] > 0
    /\ pc[r] \in {"before", "forward", "respond", "after"} => route[r] \in Lists

(* The parts of TypeOK that IInv does not say already, and why they last. *)
Typed ==
    /\ Shapes
    /\ registry \in Registries
    /\ \A r \in Requests : PlanTyped(r) /\ HistoryTyped(r)

LEMMA TypesFollow == IInv /\ Typed => TypeOK
<1> SUFFICES ASSUME IInv, Typed PROVE TypeOK
  OBVIOUS
<1>1. PerRequest /\ Shapes
  BY DEF IInv, Typed
<1>2. counted \in [Requests -> Nat] /\ billed \in [Requests -> Nat]
  BY <1>1 DEF PerRequest
<1>3. upstream \in [Requests -> 0 .. MaxUpstream]
  <2>1. \A r \in Requests : upstream[r] \in 0 .. MaxUpstream
    BY DEF Typed, HistoryTyped
  <2> QED
    BY <1>1, <2>1 DEF PerRequest
<1> QED
  BY <1>1, <1>2, <1>3 DEF PerRequest, Shapes, Typed, PlanTyped, HistoryTyped, TypeOK

LEMMA TypedInitially == Init => Typed
<1> SUFFICES ASSUME Init PROVE Typed
  OBVIOUS
<1>1. <<>> \in Seq(Types) /\ Len(<<>>) = 0
  OBVIOUS
<1>2. Shapes
  BY DEF Init, Shapes
<1>3. \A r \in Requests : PlanTyped(r)
  BY <1>1 DEF Init, PlanTyped
<1>4. 0 \in 0 .. MaxUpstream
  <2>1. MaxUpstream \in Nat
    BY PipelineAssumption
  <2> QED
    BY <2>1
<1>5. ASSUME NEW r \in Requests PROVE HistoryTyped(r)
  <2>1. ran[r] = [before |-> <<>>, around |-> {}, after |-> <<>>]
    BY DEF Init
  <2>2. upstream[r] = 0
    BY DEF Init
  <2> QED
    BY <1>1, <1>4, <2>1, <2>2 DEF HistoryTyped
<1> QED
  BY <1>2, <1>3, <1>5, PipelineAssumption DEF Init, Typed

LEMMA TypedMove ==
    ASSUME IInv, Typed, NEW r \in Requests, Moved(r)
    PROVE  Typed'
<1>1. PlanTyped(r) /\ HistoryTyped(r)
  BY DEF Typed
<1>2. \A q \in Requests : q # r => PlanTyped(q)' /\ HistoryTyped(q)'
  BY DEF Typed, Moved, Others, Plan, History, PlanTyped, HistoryTyped
<1> SUFFICES PlanTyped(r)' /\ HistoryTyped(r)'
  BY <1>2 DEF Typed, Moved
<1>3. MaxUpstream \in Nat \ {0} /\ Lists \in SUBSET Seq(Elements)
  BY PipelineAssumption
<1>4. CASE Came(r)
  <2>1. todo'[r] \in Seq(Types)
    BY <1>3, <1>4, OrdersTyped DEF Came
  <2> QED
    BY <1>1, <1>4, <2>1 DEF Came, PlanTyped, HistoryTyped, History
<1>5. CASE Skipped(r) \/ Saw(r) \/ Unwound(r)
  <2> DEFINE t == todo[r]
  <2>1. t \in Seq(Types) /\ t # <<>>
    BY <1>1, <1>5 DEF PlanTyped, Skipped, Saw, Unwound
  <2> HIDE DEF t
  <2>2. Head(t) \in Types /\ Tail(t) \in Seq(Types)
    BY <2>1
  <2>3. PlanTyped(r)'
    BY <1>1, <1>5, <2>2 DEF PlanTyped, Skipped, Saw, Unwound, t
  <2>4. /\ Append(ran[r].before, Head(t)) \in Seq(Types)
        /\ Append(ran[r].after, Head(t)) \in Seq(Types)
    BY <1>1, <2>2 DEF HistoryTyped
  <2>5. HistoryTyped(r)'
    BY <1>1, <1>5, <2>4 DEF HistoryTyped, Skipped, Saw, Unwound, History, t
  <2> QED
    BY <2>3, <2>5
<1>6. CASE Refused(r) \/ CutShort(r) \/ Ends(r)
  <2>1. <<>> \in Seq(Types)
    OBVIOUS
  <2> QED
    BY <1>1, <1>6, <2>1 DEF Refused, CutShort, Ends, PlanTyped, HistoryTyped, History, Ended
<1>7. CASE Started(r) \/ Called(r)
  <2> DEFINE c == chain'[r]
             d == depth'[r]
  <2>1. c \in Seq(Types)
    BY <1>1, <1>3, <1>7, ChainTyped DEF Started, Called, PlanTyped
  <2>2. d \in 1 .. Len(c) + 1 /\ Entered(r, d)
    <3>1. CASE Started(r)
      BY <2>1, <3>1 DEF Started, Entered
    <3>2. CASE Called(r)
      <4>1. Entered(r, depth[r] + 1) /\ d = depth[r] + 1
        BY <3>2 DEF Called, Entered
      <4>2. depth[r] \in 1 .. Len(c) /\ Len(c) \in Nat
        BY <2>1, <3>2 DEF Called
      <4> QED
        BY <4>1, <4>2
    <3> QED
      BY <1>7, <3>1, <3>2
  <2>3. upstream[r] \in 0 .. MaxUpstream - 1
    <3>1. CASE Started(r)
      <4>1. upstream[r] = 0
        BY <3>1 DEF IInv, Fits, HistoryFits, Started
      <4> QED
        BY <1>3, <4>1
    <3>2. CASE Called(r)
      BY <1>1, <1>3, <3>2 DEF Called, HistoryTyped
    <3> QED
      BY <1>7, <3>1, <3>2
  <2>4. PlanTyped(r)'
    BY <1>1, <1>7, <2>1, <2>2 DEF PlanTyped, Entered, Started, Called
  <2>5. upstream'[r] \in 0 .. MaxUpstream /\ ran'[r].around \subseteq Types
    <3>1. CASE d > Len(c)
      BY <1>1, <1>3, <2>2, <2>3, <3>1 DEF Entered, HistoryTyped
    <3>2. CASE ~ (d > Len(c))
      <4>1. c[d] \in Types
        BY <2>1, <2>2, <3>2
      <4> QED
        BY <1>1, <2>2, <3>2, <4>1 DEF Entered, HistoryTyped
    <3> QED
      BY <3>1, <3>2
  <2> QED
    BY <1>1, <2>2, <2>4, <2>5 DEF HistoryTyped, Entered
<1>8. CASE Left(r)
  BY <1>1, <1>8 DEF Left, PlanTyped, HistoryTyped, History
<1>9. CASE Responded(r)
  <2>1. todo'[r] \in Seq(Types)
    BY <1>1, <1>3, <1>9, OrdersTyped DEF Responded, PlanTyped
  <2> QED
    BY <1>1, <1>9, <2>1 DEF Responded, PlanTyped, HistoryTyped, History
<1> QED
  BY <1>4, <1>5, <1>6, <1>7, <1>8, <1>9 DEF Moved, Effect

LEMMA TypedReload ==
    ASSUME Typed, NEW m \in Reloads, Reload(m)
    PROVE  Typed'
<1>1. DOMAIN m \subseteq Types /\ \A t \in DOMAIN m : m[t] \in Phases
  BY PipelineAssumption DEF Range
<1>2. registry' \in Registries
  BY <1>1 DEF Typed, Reload, Registries
<1>3. steady' \in [Requests -> SUBSET Types]
  BY DEF Typed, Shapes, Reload
<1>4. Shapes'
  BY <1>3 DEF Typed, Shapes, Reload, progress
<1> QED
  BY <1>2, <1>4 DEF Typed, PlanTyped, HistoryTyped, Reload, progress

-----------------------------------------------------------------------------

LEMMA Steps ==
    ASSUME IInv, Typed, [Next]_vars
    PROVE  \/ \E r \in Requests : Moved(r)
           \/ \E m \in Reloads : Reload(m)
           \/ UNCHANGED vars
BY MovedBefore, MovedForward, MovedAfter DEF Next, IInv, Typed

LEMMA TypedStep == IInv /\ Typed /\ [Next]_vars => Typed'
<1> SUFFICES ASSUME IInv, Typed, [Next]_vars PROVE Typed'
  OBVIOUS
<1>1. CASE UNCHANGED vars
  BY <1>1 DEF vars, progress, Typed, Shapes, PlanTyped, HistoryTyped
<1> QED
  BY <1>1, Steps, TypedMove, TypedReload

(* Plugin names, histories and the place in the chain stay what they are:  *)
(* depth in particular never leaves the chain run_forward made, whatever   *)
(* plugins call or raise (engine.py:121 to :164).                          *)
THEOREM TypesCorrect == Spec => []TypeOK
<1>1. Init => IInv /\ Typed
  BY Initially, TypedInitially
<1>2. IInv /\ Typed /\ [Next]_vars => (IInv /\ Typed)'
  BY Inductive, TypedStep
<1>3. IInv /\ Typed => TypeOK
  BY TypesFollow
<1> QED
  BY <1>1, <1>2, <1>3, PTL DEF Spec

-----------------------------------------------------------------------------
(* No way round a plugin. *)

LEMMA Ranges ==
    ASSUME NEW T, NEW s \in Seq(T)
    PROVE  /\ \A x \in T : Range(Append(s, x)) = Range(s) \cup {x}
           /\ s # <<>> => Range(s) = {Head(s)} \cup Range(Tail(s))
<1>1. ASSUME NEW x \in T PROVE Range(Append(s, x)) = Range(s) \cup {x}
  <2> DEFINE a == Append(s, x)
  <2>1. /\ DOMAIN a = 1 .. Len(s) + 1 /\ DOMAIN s = 1 .. Len(s) /\ Len(s) \in Nat
        /\ a[Len(s) + 1] = x /\ \A k \in 1 .. Len(s) : a[k] = s[k]
    OBVIOUS
  <2>2. \A k \in 1 .. Len(s) : k \in DOMAIN a
    BY <2>1
  <2>3. Len(s) + 1 \in DOMAIN a
    BY <2>1
  <2>4. \A k \in DOMAIN a : k \in 1 .. Len(s) \/ k = Len(s) + 1
    BY <2>1
  <2> HIDE DEF a
  <2>5. Range(a) = Range(s) \cup {x}
    BY <2>1, <2>2, <2>3, <2>4 DEF Range
  <2> QED
    BY <2>5 DEF a
<1>2. ASSUME s # <<>> PROVE Range(s) = {Head(s)} \cup Range(Tail(s))
  <2> DEFINE t == Tail(s)
  <2>1. /\ DOMAIN s = 1 .. Len(s) /\ Len(s) \in Nat \ {0} /\ Head(s) = s[1]
        /\ DOMAIN t = 1 .. Len(s) - 1 /\ \A k \in 1 .. Len(s) - 1 : t[k] = s[k + 1]
    BY <1>2
  <2> HIDE DEF t
  <2>2. \A k \in DOMAIN t : k + 1 \in DOMAIN s /\ t[k] = s[k + 1]
    BY <2>1
  <2>3. \A k \in DOMAIN s : k = 1 \/ (k - 1 \in DOMAIN t /\ t[k - 1] = s[k])
    BY <2>1
  <2>4. 1 \in DOMAIN s
    BY <2>1
  <2>5. Range(s) = {Head(s)} \cup Range(t)
    BY <2>1, <2>2, <2>3, <2>4 DEF Range
  <2> QED
    BY <2>5 DEF t
<1> QED
  BY <1>1, <1>2

(* The plugins that a request may not get round. *)
Bound(r) == Asked(route[r]) \cap steady[r]

(* Those of its phase are still to run or have; the chain takes the rest;  *)
(* what is entered has run; and then the upstream is called.               *)
Covered(r) ==
    /\ \A t \in steady[r] : registry[t] # "absent"
    /\ pc[r] = "before" => \A t \in Bound(r) :
          registry[t] = "before_after" => t \in Range(ran[r].before) \cup Range(todo[r])
    /\ pc[r] = "forward" =>
          /\ Bound(r) \subseteq Range(ran[r].before) \cup Range(chain[r])
          /\ \A i \in DOMAIN chain[r] : i <= depth[r] => chain[r][i] \in ran[r].around
    /\ upstream[r] > 0 => Bound(r) \subseteq Range(ran[r].before) \cup ran[r].around

Cover == \A r \in Requests : Covered(r)

LEMMA CoverMove ==
    ASSUME IInv, Typed, Cover, NEW r \in Requests, Moved(r)
    PROVE  Cover'
<1>1. PlanTyped(r) /\ HistoryTyped(r) /\ Covered(r)
  BY DEF Typed, Cover
<1>2. \A q \in Requests : q # r => Covered(q)'
  BY DEF Cover, Moved, Others, Plan, History, Covered, Bound
<1> SUFFICES Covered(r)'
  BY <1>2 DEF Cover
<1>3. pc[r] \in {"idle", "before"} => upstream[r] = 0
  BY DEF IInv, Fits, HistoryFits
<1>4. UNCHANGED registry
  BY DEF Moved
<1>5. CASE Came(r)
  <2>1. upstream'[r] = 0
    BY <1>3, <1>5 DEF Came, History
  <2>2. todo'[r] = BeforeOrder(route'[r])
    BY <1>5 DEF Came
  <2>3. \A t \in Asked(route'[r]) : t \in Range(todo'[r])
    BY <2>2 DEF Asked
  <2>4. pc'[r] = "before" /\ \A t \in steady'[r] : registry'[t] # "absent"
    BY <1>4, <1>5 DEF Came
  <2> QED
    BY <2>1, <2>3, <2>4 DEF Covered, Bound
<1>6. CASE Skipped(r) \/ Saw(r)
  <2> DEFINE t == todo[r]
             b == ran[r].before
  <2>1. t \in Seq(Types) /\ b \in Seq(Types) /\ t # <<>>
    BY <1>1, <1>6 DEF PlanTyped, HistoryTyped, Skipped, Saw
  <2> HIDE DEF t, b
  <2>2. Range(t) = {Head(t)} \cup Range(Tail(t)) /\ Head(t) \in Types
    BY <2>1, Ranges
  <2>3. Range(Append(b, Head(t))) = Range(b) \cup {Head(t)}
    BY <2>1, <2>2, Ranges
  <2>4. CASE Skipped(r)
    BY <1>1, <1>4, <2>2, <2>4 DEF Covered, Bound, Skipped, History, t
  <2>5. CASE Saw(r)
    BY <1>1, <1>3, <1>4, <2>2, <2>3, <2>5 DEF Covered, Bound, Saw, t, b
  <2> QED
    BY <1>6, <2>4, <2>5
<1>7. CASE Refused(r) \/ CutShort(r) \/ Ends(r) \/ Responded(r) \/ Unwound(r)
  BY <1>1, <1>4, <1>7
     DEF Covered, Bound, Refused, CutShort, Ends, Responded, Unwound, History
<1>8. CASE Left(r)
  BY <1>1, <1>4, <1>8 DEF Covered, Bound, Left, History, PlanTyped
<1>9. CASE Started(r)
  <2>1. Entered(r, 1) /\ upstream[r] = 0
    BY <1>3, <1>9 DEF Started
  <2>2. chain'[r] = ForwardChain(route[r], registry) /\ route[r] \in Seq(Elements)
    BY <1>1, <1>9, PipelineAssumption DEF Started, PlanTyped
  <2>3. chain'[r] \in Seq(Types)
    BY <2>2, ChainTyped
  <2>4. Range(todo[r]) = {} /\ pc[r] = "before" /\ pc'[r] = "forward"
    BY <1>9 DEF Started, Range
  <2>5. ASSUME NEW t \in Bound(r) PROVE t \in Range(ran[r].before) \cup Range(chain'[r])
    <3>1. registry[t] \in Phases /\ registry[t] # "absent"
      BY <1>1, <2>5 DEF Covered, Bound, Typed, Shapes, Registries
    <3>2. CASE registry[t] = "before_after"
      BY <1>1, <2>4, <2>5, <3>2 DEF Covered
    <3>3. CASE registry[t] = "forward"
      BY <2>2, <2>5, <3>3, ChainTyped DEF Bound
    <3> QED
      BY <3>1, <3>2, <3>3 DEF Phases
  <2>6. UNCHANGED <<route[r], steady[r], ran[r].before>> /\ depth'[r] = 1
    BY <2>1 DEF Entered
  <2>7. \A t \in steady'[r] : registry'[t] # "absent"
    BY <1>1, <1>4, <2>6 DEF Covered
  <2>8. Bound(r)' \subseteq Range(ran'[r].before) \cup Range(chain'[r])
    BY <2>5, <2>6 DEF Bound
  <2>9. CASE 1 > Len(chain'[r])
    <3> DEFINE c == chain'[r]
    <3> HIDE DEF c
    <3>1. Range(c) = {} /\ DOMAIN c = {}
      BY <2>3, <2>9 DEF c, Range
    <3> QED
      BY <2>4, <2>7, <2>8, <3>1 DEF Covered, c
  <2>10. CASE ~ (1 > Len(chain'[r]))
    <3>1. UNCHANGED upstream[r] /\ chain'[r][1] \in ran'[r].around
      BY <2>1, <2>10 DEF Entered
    <3>2. \A i \in DOMAIN chain'[r] : i <= 1 => i = 1
      BY <2>3
    <3> QED
      BY <2>1, <2>4, <2>6, <2>7, <2>8, <3>1, <3>2 DEF Covered
  <2> QED
    BY <2>9, <2>10
<1>10. CASE Called(r)
  <2> DEFINE d == depth[r] + 1
             c == chain[r]
  <2>1. Entered(r, d) /\ chain'[r] = c /\ pc[r] = "forward" /\ pc'[r] = "forward"
    BY <1>10 DEF Called
  <2>2. c \in Seq(Types) /\ depth[r] \in 1 .. Len(c) /\ d \in Nat
    BY <1>1, <1>10 DEF Called, PlanTyped
  <2>3. UNCHANGED <<route[r], steady[r], ran[r].before>> /\ depth'[r] = d
    BY <2>1 DEF Entered
  <2>4. \A t \in steady'[r] : registry'[t] # "absent"
    BY <1>1, <1>4, <2>3 DEF Covered
  <2>5. Bound(r)' = Bound(r) /\ Bound(r) \subseteq Range(ran[r].before) \cup Range(c)
    BY <1>1, <2>1, <2>3 DEF Bound, Covered
  <2>6. \A i \in DOMAIN c : i <= depth[r] => c[i] \in ran[r].around
    BY <1>1, <2>1 DEF Covered
  <2>7. CASE d > Len(c)
    <3>1. UNCHANGED ran[r].around
      BY <2>1, <2>7 DEF Entered
    <3>2. \A i \in DOMAIN c : i <= depth[r]
      BY <2>2, <2>7
    <3>3. Range(c) \subseteq ran[r].around
      BY <2>6, <3>2 DEF Range
    <3> HIDE DEF c, d
    <3> QED
      BY <2>1, <2>3, <2>4, <2>5, <2>6, <3>1, <3>2, <3>3 DEF Covered
  <2>8. CASE ~ (d > Len(c))
    <3>1. UNCHANGED upstream[r] /\ ran'[r].around = ran[r].around \cup {c[d]}
      BY <2>1, <2>8 DEF Entered
    <3>2. \A i \in DOMAIN c : i <= d => i = d \/ i <= depth[r]
      BY <2>2
    <3> HIDE DEF c, d
    <3> QED
      BY <1>1, <2>1, <2>3, <2>4, <2>5, <2>6, <3>1, <3>2 DEF Covered
  <2> QED
    BY <2>7, <2>8
<1> QED
  BY <1>5, <1>6, <1>7, <1>8, <1>9, <1>10 DEF Moved, Effect

LEMMA CoverReload ==
    ASSUME Typed, Cover, NEW m \in Reloads, Reload(m)
    PROVE  Cover'
<1> SUFFICES ASSUME NEW r \in Requests PROVE Covered(r)'
  BY DEF Cover
<1>1. Covered(r)
  BY DEF Cover
<1>2. \A t \in steady'[r] : t \in steady[r] /\ registry'[t] = registry[t]
  BY DEF Reload
<1>3. UNCHANGED <<pc, route, todo, chain, depth, ran, upstream>>
  BY DEF Reload, progress
<1> QED
  BY <1>1, <1>2, <1>3 DEF Covered, Bound

LEMMA CoverStep == IInv /\ Typed /\ Cover /\ [Next]_vars => Cover'
<1> SUFFICES ASSUME IInv, Typed, Cover, [Next]_vars PROVE Cover'
  OBVIOUS
<1>1. CASE UNCHANGED vars
  BY <1>1 DEF vars, progress, Cover, Covered, Bound
<1> QED
  BY <1>1, Steps, CoverMove, CoverReload

(* Whatever the lists, however requests and reloads interleave and however *)
(* often a plugin calls call_next, no call of the upstream goes round a    *)
(* plugin the route asks for that has kept its phase since the request     *)
(* came (engine.py:52, :121, main.py:395 to :543).                         *)
THEOREM PluginsAreNotBypassed == Spec => []NoneBypassed
<1>1. Init => IInv /\ Typed /\ Cover
  BY Initially, TypedInitially DEF Init, Cover, Covered, Bound
<1>2. IInv /\ Typed /\ Cover /\ [Next]_vars => (IInv /\ Typed /\ Cover)'
  BY Inductive, TypedStep, CoverStep
<1>3. Cover => NoneBypassed
  BY DEF Cover, Covered, Bound, NoneBypassed
<1> QED
  BY <1>1, <1>2, <1>3, PTL DEF Spec

-----------------------------------------------------------------------------
(* The order of the hooks. *)

(* The hooks s of a phase with list L: the phase has passed c places, f is *)
(* the place each hook ran at, and of the types in st that are before_after*)
(* plugins now, every place that was passed has run, and no other has.     *)
Tracked(s, L, f, c, reg, st) ==
    /\ c \in 0 .. Len(L)
    /\ f \in [DOMAIN s -> 1 .. c]
    /\ \A i \in DOMAIN s : s[i] = L[f[i]]
    /\ \A i, k \in DOMAIN s : i < k => f[i] < f[k]
    /\ \A q \in 1 .. c :
          L[q] \in st /\ reg[L[q]] = "before_after" => \E i \in DOMAIN s : f[i] = q
    /\ \A i \in DOMAIN s : s[i] \in st => reg[s[i]] = "before_after"

(* What is left of L after c places. *)
Rest(t, L, c) ==
    /\ Len(t) = Len(L) - c
    /\ \A q \in 1 .. Len(t) : t[q] = L[c + q]

LEMMA TrackEmpty ==
    ASSUME NEW T, NEW L \in Seq(T), NEW reg, NEW st
    PROVE  Tracked(<<>>, L, <<>>, 0, reg, st) /\ Rest(L, L, 0)
BY DEF Tracked, Rest

LEMMA TrackSkips ==
    ASSUME NEW T, NEW L \in Seq(T), NEW s \in Seq(T), NEW f, NEW c, NEW reg, NEW st,
           Tracked(s, L, f, c, reg, st), c < Len(L), reg[L[c + 1]] # "before_after"
    PROVE  Tracked(s, L, f, c + 1, reg, st)
<1>1. c \in Nat /\ Len(L) \in Nat /\ c + 1 \in 0 .. Len(L)
  BY DEF Tracked
<1>2. \A q \in 1 .. c + 1 : q \in 1 .. c \/ q = c + 1
  BY <1>1
<1>3. \A q \in 1 .. c : q \in 1 .. c + 1
  BY <1>1
<1> QED
  BY <1>1, <1>2, <1>3 DEF Tracked

LEMMA TrackRuns ==
    ASSUME NEW T, NEW L \in Seq(T), NEW s \in Seq(T), NEW f, NEW c, NEW reg, NEW st, NEW x \in T,
           Tracked(s, L, f, c, reg, st), c < Len(L), x = L[c + 1], reg[x] = "before_after"
    PROVE  \E g : Tracked(Append(s, x), L, g, c + 1, reg, st)
<1> DEFINE n == Len(s)
           a == Append(s, x)
           g == [i \in 1 .. n + 1 |-> IF i = n + 1 THEN c + 1 ELSE f[i]]
<1>1. /\ n \in Nat /\ c \in Nat /\ c + 1 \in 0 .. Len(L)
      /\ DOMAIN s = 1 .. n /\ DOMAIN a = 1 .. n + 1
      /\ a[n + 1] = x /\ \A i \in 1 .. n : a[i] = s[i]
  BY DEF Tracked
<1>2. \A i \in 1 .. n : f[i] \in 1 .. c
  BY <1>1 DEF Tracked
<1>3. /\ g[n + 1] = c + 1 /\ \A i \in 1 .. n : g[i] = f[i]
      /\ DOMAIN g = 1 .. n + 1
  BY <1>1
<1>4. g \in [1 .. n + 1 -> 1 .. c + 1]
  BY <1>1, <1>2
<1> HIDE DEF n, a, g
<1>5. \A i \in 1 .. n + 1 : i \in 1 .. n \/ i = n + 1
  BY <1>1
<1>6. \A i \in DOMAIN a : a[i] = L[g[i]]
  BY <1>1, <1>3, <1>5 DEF Tracked
<1>7. ASSUME NEW i \in DOMAIN a, NEW k \in DOMAIN a, i < k PROVE g[i] < g[k]
  <2>1. i \in 1 .. n
    BY <1>1, <1>7
  <2>2. CASE k = n + 1
    BY <1>1, <1>2, <1>3, <2>1, <2>2
  <2>3. CASE k \in 1 .. n
    BY <1>1, <1>3, <1>7, <2>1, <2>3 DEF Tracked
  <2> QED
    BY <1>1, <1>5, <2>2, <2>3
<1>8. ASSUME NEW q \in 1 .. c + 1, L[q] \in st, reg[L[q]] = "before_after"
      PROVE  \E i \in DOMAIN a : g[i] = q
  <2>1. CASE q = c + 1
    BY <1>1, <1>3, <2>1
  <2>2. CASE q # c + 1
    <3>1. q \in 1 .. c
      BY <1>1, <2>2
    <3>2. PICK i \in DOMAIN s : f[i] = q
      BY <1>8, <3>1 DEF Tracked
    <3>3. i \in 1 .. n /\ i \in DOMAIN a
      BY <1>1, <3>2
    <3> QED
      BY <1>3, <3>2, <3>3
  <2> QED
    BY <2>1, <2>2
<1>9. \A i \in DOMAIN a : a[i] \in st => reg[a[i]] = "before_after"
  BY <1>1, <1>5 DEF Tracked
<1>10. Tracked(a, L, g, c + 1, reg, st)
  BY <1>1, <1>4, <1>6, <1>7, <1>8, <1>9 DEF Tracked
<1> QED
  BY <1>10 DEF a

(* A reload leaves those in st fewer, and the same. *)
LEMMA TrackReloads ==
    ASSUME NEW s, NEW L, NEW f, NEW c, NEW reg, NEW st, NEW reg2, NEW st2,
           Tracked(s, L, f, c, reg, st), \A t \in st2 : t \in st /\ reg2[t] = reg[t]
    PROVE  Tracked(s, L, f, c, reg2, st2)
BY DEF Tracked

LEMMA RestSteps ==
    ASSUME NEW T, NEW L \in Seq(T), NEW t \in Seq(T), NEW c \in 0 .. Len(L), Rest(t, L, c)
    PROVE  /\ t # <<>> => /\ c < Len(L) /\ Head(t) = L[c + 1] /\ Head(t) \in T
                          /\ Tail(t) \in Seq(T) /\ Rest(Tail(t), L, c + 1)
           /\ t = <<>> => c = Len(L)
<1>1. Len(L) \in Nat /\ c \in Nat /\ Len(t) \in Nat /\ Len(t) = Len(L) - c
  BY DEF Rest
<1>2. t = <<>> => c = Len(L)
  BY <1>1
<1>3. ASSUME t # <<>>
      PROVE  /\ c < Len(L) /\ Head(t) = L[c + 1] /\ Head(t) \in T
             /\ Tail(t) \in Seq(T) /\ Rest(Tail(t), L, c + 1)
  <2> DEFINE u == Tail(t)
  <2>1. Len(t) > 0 /\ u \in Seq(T) /\ Len(u) = Len(t) - 1 /\ Head(t) = t[1] /\ Head(t) \in T
    BY <1>3
  <2>2. \A q \in 1 .. Len(u) : u[q] = t[q + 1]
    BY <1>3
  <2>3. t[1] = L[c + 1]
    BY <1>1, <2>1 DEF Rest
  <2> HIDE DEF u
  <2>4. ASSUME NEW q \in 1 .. Len(u) PROVE u[q] = L[(c + 1) + q]
    <3>1. q + 1 \in 1 .. Len(t) /\ c + (q + 1) = (c + 1) + q
      BY <1>1, <2>1
    <3> QED
      BY <2>2, <3>1 DEF Rest
  <2>5. Rest(u, L, c + 1)
    BY <1>1, <2>1, <2>4 DEF Rest
  <2> QED
    BY <1>1, <2>1, <2>3, <2>5 DEF u
<1> QED
  BY <1>2, <1>3

(* The list of a request's route, for the hooks before and after. *)
B(r) == BeforeOrder(route[r])
A(r) == AfterOrder(route[r])

FollowsBefore(r, f, c) ==
    /\ Tracked(ran[r].before, B(r), f, c, registry, steady[r])
    /\ pc[r] = "before" => Rest(todo[r], B(r), c)
    /\ pc[r] \in {"forward", "respond", "after"} \/ ran[r].after # <<>> => c = Len(B(r))

FollowsAfter(r, g, e) ==
    /\ Tracked(ran[r].after, A(r), g, e, registry, steady[r])
    /\ pc[r] = "after" => todo[r] = <<>> \/ Rest(todo[r], A(r), e)

Aligned(r) ==
    /\ \E f, c : FollowsBefore(r, f, c)
    /\ \E g, e : FollowsAfter(r, g, e)
    /\ pc[r] = "idle" => ran[r].before = <<>>
    /\ pc[r] \in {"idle", "before", "forward", "respond"} => ran[r].after = <<>>

Align == \A r \in Requests : Aligned(r)

LEMMA RouteLists ==
    ASSUME Typed, NEW r \in Requests
    PROVE  /\ route[r] \in Seq(Elements) /\ B(r) \in Seq(Types) /\ A(r) \in Seq(Types)
           /\ Len(A(r)) = Len(B(r))
           /\ \A q \in 1 .. Len(B(r)) : A(r)[q] = B(r)[Len(B(r)) + 1 - q]
<1>1. route[r] \in Lists \cup {<<>>} /\ Lists \in SUBSET Seq(Elements)
  BY PipelineAssumption DEF Typed, PlanTyped
<1>2. route[r] \in Seq(Elements)
  <2>1. <<>> \in Seq(Elements)
    OBVIOUS
  <2> QED
    BY <1>1, <2>1
<1>3. B(r) \in Seq(Types) /\ A(r) \in Seq(Types)
  BY <1>2, OrdersTyped DEF B, A
<1>4. A(r) = [q \in 1 .. Len(B(r)) |-> B(r)[(Len(B(r)) - q) + 1]]
  BY DEF A, B, AfterOrder, Reverse
<1>5. Len(B(r)) \in Nat
  BY <1>3
<1>6. Len(A(r)) = Len(B(r))
  <2> DEFINE a == A(r)
             n == Len(B(r))
  <2>1. DOMAIN a = 1 .. n
    BY <1>4
  <2>2. a \in Seq(Types) /\ n \in Nat
    BY <1>3, <1>5
  <2> HIDE DEF a, n
  <2>3. Len(a) = n
    BY <2>1, <2>2
  <2> QED
    BY <2>3 DEF a, n
<1>7. \A q \in 1 .. Len(B(r)) : A(r)[q] = B(r)[Len(B(r)) + 1 - q]
  <2> SUFFICES ASSUME NEW q \in 1 .. Len(B(r)) PROVE A(r)[q] = B(r)[Len(B(r)) + 1 - q]
    OBVIOUS
  <2>1. (Len(B(r)) - q) + 1 = Len(B(r)) + 1 - q
    BY <1>5
  <2> QED
    BY <1>4, <2>1
<1> QED
  BY <1>2, <1>3, <1>6, <1>7

LEMMA AlignMove ==
    ASSUME IInv, Typed, Align, NEW r \in Requests, Moved(r), Typed'
    PROVE  Align'
<1>1. PlanTyped(r) /\ HistoryTyped(r) /\ Aligned(r)
  BY DEF Typed, Align
<1>2. ASSUME NEW q \in Requests, q # r PROVE Aligned(q)'
  <2>1. /\ UNCHANGED <<pc[q], route[q], todo[q], steady[q], ran[q].before, ran[q].after>>
        /\ UNCHANGED registry
    BY <1>2 DEF Moved, Others, Plan, History
  <2>2. Aligned(q)
    BY DEF Align
  <2> QED
    BY <2>1, <2>2 DEF Aligned, FollowsBefore, FollowsAfter, A, B
<1> SUFFICES Aligned(r)'
  BY <1>2 DEF Align
<1>3. UNCHANGED registry
  BY DEF Moved
<1>4. PICK f, c : FollowsBefore(r, f, c)
  BY <1>1 DEF Aligned
<1>5. PICK g, e : FollowsAfter(r, g, e)
  BY <1>1 DEF Aligned
<1>6. /\ B(r) \in Seq(Types) /\ A(r) \in Seq(Types) /\ todo[r] \in Seq(Types)
      /\ ran[r].before \in Seq(Types) /\ ran[r].after \in Seq(Types)
      /\ c \in 0 .. Len(B(r)) /\ e \in 0 .. Len(A(r))
  BY <1>1, <1>4, <1>5, RouteLists DEF PlanTyped, HistoryTyped, FollowsBefore, FollowsAfter, Tracked
<1>7. CASE Came(r)
  <2>1. /\ todo'[r] = B(r)' /\ ran'[r].before = <<>> /\ ran'[r].after = <<>>
        /\ pc'[r] = "before"
    BY <1>1, <1>7 DEF Came, Aligned, History, B
  <2>2. B(r)' \in Seq(Types) /\ A(r)' \in Seq(Types)
    <3>1. route'[r] \in Seq(Elements)
      BY <1>7, PipelineAssumption DEF Came
    <3> QED
      BY <3>1, OrdersTyped DEF A, B
  <2>3. Tracked(<<>>, B(r)', <<>>, 0, registry', steady'[r]) /\ Rest(B(r)', B(r)', 0)
    BY <2>2, TrackEmpty
  <2>4. Tracked(<<>>, A(r)', <<>>, 0, registry', steady'[r])
    BY <2>2, TrackEmpty
  <2>5. FollowsBefore(r, <<>>, 0)' /\ FollowsAfter(r, <<>>, 0)'
    BY <2>1, <2>3, <2>4 DEF FollowsBefore, FollowsAfter
  <2> QED
    BY <2>1, <2>5 DEF Aligned
<1>8. CASE Skipped(r) /\ pc[r] = "before"
  <2>1. /\ Rest(todo[r], B(r), c) /\ todo[r] # <<>> /\ pc'[r] = "before"
        /\ UNCHANGED <<B(r), A(r), steady[r], ran[r].before, ran[r].after>>
    BY <1>4, <1>8 DEF Skipped, History, FollowsBefore, A, B
  <2>2. /\ c < Len(B(r)) /\ Head(todo[r]) = B(r)[c + 1] /\ Rest(Tail(todo[r]), B(r), c + 1)
    BY <1>6, <2>1, RestSteps
  <2>3. Tracked(ran[r].before, B(r), f, c + 1, registry, steady[r])
    BY <1>4, <1>6, <1>8, <2>2, TrackSkips DEF FollowsBefore, Skipped
  <2>4. ran'[r].after = <<>>
    BY <1>1, <1>8, <2>1 DEF Aligned
  <2>5. FollowsBefore(r, f, c + 1)' /\ FollowsAfter(r, g, e)'
    BY <1>3, <1>5, <1>8, <2>1, <2>2, <2>3, <2>4 DEF FollowsBefore, FollowsAfter, Skipped
  <2> QED
    BY <2>1, <2>4, <2>5 DEF Aligned
<1>9. CASE Saw(r)
  <2>1. /\ Rest(todo[r], B(r), c) /\ todo[r] # <<>> /\ pc'[r] = "before"
        /\ UNCHANGED <<B(r), A(r), steady[r], ran[r].after>>
    BY <1>4, <1>9 DEF Saw, FollowsBefore, A, B
  <2>2. /\ c < Len(B(r)) /\ Head(todo[r]) = B(r)[c + 1] /\ Rest(Tail(todo[r]), B(r), c + 1)
        /\ Head(todo[r]) \in Types
    BY <1>6, <2>1, RestSteps
  <2>3. PICK h : Tracked(ran'[r].before, B(r), h, c + 1, registry, steady[r])
    <3> DEFINE s == ran[r].before
               x == Head(todo[r])
    <3>1. /\ Tracked(s, B(r), f, c, registry, steady[r]) /\ registry[x] = "before_after"
          /\ ran'[r].before = Append(s, x)
      BY <1>4, <1>9 DEF FollowsBefore, Saw
    <3>2. s \in Seq(Types) /\ B(r) \in Seq(Types) /\ x \in Types
      BY <1>6, <2>2
    <3>3. c < Len(B(r)) /\ x = B(r)[c + 1]
      BY <2>2
    <3> HIDE DEF s, x
    <3>4. \E h : Tracked(Append(s, x), B(r), h, c + 1, registry, steady[r])
      BY <3>1, <3>2, <3>3, TrackRuns
    <3> QED
      BY <3>1, <3>4
  <2>4. ran'[r].after = <<>>
    BY <1>1, <1>9, <2>1 DEF Aligned, Saw
  <2>5. FollowsBefore(r, h, c + 1)' /\ FollowsAfter(r, g, e)'
    BY <1>3, <1>5, <1>9, <2>1, <2>2, <2>3, <2>4 DEF FollowsBefore, FollowsAfter, Saw
  <2> QED
    BY <2>1, <2>4, <2>5 DEF Aligned
<1>10. CASE Started(r)
  <2>1. /\ UNCHANGED <<B(r), A(r), steady[r], ran[r].before, ran[r].after>>
        /\ pc'[r] = "forward" /\ todo[r] = <<>> /\ pc[r] = "before"
    BY <1>10 DEF Started, Entered, A, B
  <2>2. c = Len(B(r))
    BY <1>4, <1>6, <2>1, RestSteps DEF FollowsBefore
  <2>3. FollowsBefore(r, f, c)' /\ FollowsAfter(r, g, e)'
    BY <1>3, <1>4, <1>5, <2>1, <2>2 DEF FollowsBefore, FollowsAfter
  <2> QED
    BY <1>1, <2>1, <2>3 DEF Aligned
<1>11. CASE Called(r) \/ Left(r)
  <2>1. /\ UNCHANGED <<B(r), A(r), steady[r], ran[r].before, ran[r].after>>
        /\ pc'[r] \in {"forward", "respond"} /\ pc[r] = "forward"
    BY <1>11 DEF Called, Left, Entered, History, A, B
  <2>2. FollowsBefore(r, f, c)' /\ FollowsAfter(r, g, e)'
    BY <1>3, <1>4, <1>5, <2>1 DEF FollowsBefore, FollowsAfter
  <2> QED
    BY <1>1, <2>1, <2>2 DEF Aligned
<1>12. CASE Responded(r)
  <2>1. /\ UNCHANGED <<B(r), A(r), steady[r], ran[r].before, ran[r].after>>
        /\ pc'[r] = "after" /\ pc[r] = "respond" /\ todo'[r] = A(r)
    BY <1>12 DEF Responded, History, A, B
  <2>2. ran'[r].after = <<>>
    BY <1>1, <2>1 DEF Aligned
  <2>3. Tracked(<<>>, A(r), <<>>, 0, registry, steady[r]) /\ Rest(A(r), A(r), 0)
    BY <1>6, TrackEmpty
  <2>4. FollowsBefore(r, f, c)' /\ FollowsAfter(r, <<>>, 0)'
    BY <1>3, <1>4, <2>1, <2>2, <2>3 DEF FollowsBefore, FollowsAfter
  <2> QED
    BY <2>1, <2>4 DEF Aligned
<1>13. CASE Skipped(r) /\ pc[r] = "after"
  <2>1. /\ Rest(todo[r], A(r), e) /\ todo[r] # <<>> /\ pc'[r] = "after"
        /\ UNCHANGED <<B(r), A(r), steady[r], ran[r].before, ran[r].after>>
    BY <1>5, <1>13 DEF Skipped, History, FollowsAfter, A, B
  <2>2. /\ e < Len(A(r)) /\ Head(todo[r]) = A(r)[e + 1] /\ Rest(Tail(todo[r]), A(r), e + 1)
    BY <1>6, <2>1, RestSteps
  <2>3. Tracked(ran[r].after, A(r), g, e + 1, registry, steady[r])
    BY <1>5, <1>6, <1>13, <2>2, TrackSkips DEF FollowsAfter, Skipped
  <2>4. FollowsBefore(r, f, c)' /\ FollowsAfter(r, g, e + 1)'
    BY <1>3, <1>4, <1>13, <2>1, <2>2, <2>3 DEF FollowsBefore, FollowsAfter, Skipped
  <2> QED
    BY <2>1, <2>4 DEF Aligned
<1>14. CASE Unwound(r)
  <2>1. /\ Rest(todo[r], A(r), e) /\ todo[r] # <<>> /\ pc'[r] = "after" /\ pc[r] = "after"
        /\ UNCHANGED <<B(r), A(r), steady[r], ran[r].before>>
    BY <1>5, <1>14 DEF Unwound, FollowsAfter, A, B
  <2>2. /\ e < Len(A(r)) /\ Head(todo[r]) = A(r)[e + 1] /\ Rest(Tail(todo[r]), A(r), e + 1)
        /\ Head(todo[r]) \in Types
    BY <1>6, <2>1, RestSteps
  <2>3. PICK h : Tracked(ran'[r].after, A(r), h, e + 1, registry, steady[r])
    <3> DEFINE s == ran[r].after
               x == Head(todo[r])
    <3>1. /\ Tracked(s, A(r), g, e, registry, steady[r]) /\ registry[x] = "before_after"
          /\ ran'[r].after = Append(s, x)
      BY <1>5, <1>14 DEF FollowsAfter, Unwound
    <3>2. s \in Seq(Types) /\ A(r) \in Seq(Types) /\ x \in Types
      BY <1>6, <2>2
    <3>3. e < Len(A(r)) /\ x = A(r)[e + 1]
      BY <2>2
    <3> HIDE DEF s, x
    <3>4. \E h : Tracked(Append(s, x), A(r), h, e + 1, registry, steady[r])
      BY <3>1, <3>2, <3>3, TrackRuns
    <3> QED
      BY <3>1, <3>4
  <2>4. FollowsBefore(r, f, c)' /\ FollowsAfter(r, h, e + 1)'
    BY <1>3, <1>4, <1>14, <2>1, <2>2, <2>3 DEF FollowsBefore, FollowsAfter, Unwound
  <2> QED
    BY <2>1, <2>4 DEF Aligned
<1>15. CASE Refused(r) \/ CutShort(r) \/ Ends(r)
  <2>1. /\ UNCHANGED <<B(r), A(r), steady[r], ran[r].before, ran[r].after>>
        /\ pc'[r] \in {"done", "escaped", "count", "bill", "after"}
        /\ pc'[r] = "after" => pc[r] = "after" /\ todo'[r] = <<>>
    BY <1>15 DEF Refused, CutShort, Ends, History, A, B
  <2>2. FollowsBefore(r, f, c)' /\ FollowsAfter(r, g, e)'
    BY <1>3, <1>4, <1>5, <2>1 DEF FollowsBefore, FollowsAfter
  <2> QED
    BY <2>1, <2>2 DEF Aligned
<1> QED
  BY <1>7, <1>8, <1>9, <1>10, <1>11, <1>12, <1>13, <1>14, <1>15 DEF Moved, Effect, Skipped

LEMMA AlignReload ==
    ASSUME Typed, Align, NEW m \in Reloads, Reload(m)
    PROVE  Align'
<1> SUFFICES ASSUME NEW r \in Requests PROVE Aligned(r)'
  BY DEF Align
<1>1. Aligned(r)
  BY DEF Align
<1>2. \A t \in steady'[r] : t \in steady[r] /\ registry'[t] = registry[t]
  BY DEF Reload
<1>3. UNCHANGED <<pc, route, todo, chain, depth, ran, upstream, A(r), B(r)>>
  BY DEF Reload, progress, A, B
<1>4. ASSUME NEW f, NEW c, FollowsBefore(r, f, c) PROVE FollowsBefore(r, f, c)'
  <2>1. Tracked(ran[r].before, B(r), f, c, registry', steady'[r])
    BY <1>2, <1>4, TrackReloads DEF FollowsBefore
  <2> QED
    BY <1>3, <1>4, <2>1 DEF FollowsBefore
<1>5. ASSUME NEW g, NEW e, FollowsAfter(r, g, e) PROVE FollowsAfter(r, g, e)'
  <2>1. Tracked(ran[r].after, A(r), g, e, registry', steady'[r])
    BY <1>2, <1>5, TrackReloads DEF FollowsAfter
  <2> QED
    BY <1>3, <1>5, <2>1 DEF FollowsAfter
<1> QED
  BY <1>1, <1>3, <1>4, <1>5 DEF Aligned

LEMMA AlignInitially == Init => Align
<1> SUFFICES ASSUME Init, NEW r \in Requests PROVE Aligned(r)
  BY DEF Align
<1>1. pc[r] = "idle" /\ ran[r].before = <<>> /\ ran[r].after = <<>>
  BY DEF Init
<1>2. A(r) \in Seq(Types) /\ B(r) \in Seq(Types)
  BY TypedInitially, RouteLists
<1>3. /\ Tracked(<<>>, A(r), <<>>, 0, registry, steady[r])
      /\ Tracked(<<>>, B(r), <<>>, 0, registry, steady[r])
  BY <1>2, TrackEmpty
<1>4. FollowsBefore(r, <<>>, 0) /\ FollowsAfter(r, <<>>, 0)
  BY <1>1, <1>3 DEF FollowsBefore, FollowsAfter
<1> QED
  BY <1>1, <1>4 DEF Aligned

LEMMA AlignStep == IInv /\ Typed /\ Align /\ [Next]_vars => Align'
<1> SUFFICES ASSUME IInv, Typed, Align, [Next]_vars PROVE Align'
  OBVIOUS
<1>1. CASE UNCHANGED vars
  BY <1>1 DEF vars, progress, Align, Aligned, FollowsBefore, FollowsAfter, A, B
<1> QED
  BY <1>1, Steps, TypedStep, AlignMove, AlignReload

(* Two tracks, the second over the reversed list. *)
LEMMA TracksUnwind ==
    ASSUME NEW T, NEW L \in Seq(T), NEW M \in Seq(T), Len(M) = Len(L),
           \A q \in 1 .. Len(L) : M[q] = L[Len(L) + 1 - q],
           NEW b \in Seq(T), NEW a \in Seq(T), NEW f, NEW g, NEW e, NEW reg, NEW st,
           Tracked(b, L, f, Len(L), reg, st), Tracked(a, M, g, e, reg, st)
    PROVE  Unwinds(b, a, st)
<1> DEFINE N == Len(L)
           Mate(q) == N + 1 - q
           seen == {j \in DOMAIN b : b[j] \in st}
           back == {i \in DOMAIN a : \E j \in seen : a[i] = b[j]}
           h == [i \in back |-> CHOOSE j \in seen : f[j] = Mate(g[i])]
<1>1. /\ N \in Nat /\ e \in 0 .. N
      /\ \A j \in DOMAIN b : f[j] \in 1 .. N /\ b[j] = L[f[j]]
      /\ \A i \in DOMAIN a : g[i] \in 1 .. N /\ a[i] = M[g[i]]
      /\ \A i \in DOMAIN a : g[i] <= e
      /\ \A j, k \in DOMAIN b : j < k => f[j] < f[k]
      /\ \A i, k \in DOMAIN a : i < k => g[i] < g[k]
  <2>1. N \in Nat /\ e \in 0 .. N
    BY DEF Tracked
  <2>2. \A i \in DOMAIN a : g[i] \in 1 .. e
    BY DEF Tracked
  <2>3. \A q \in 1 .. e : q \in 1 .. N /\ q <= e
    BY <2>1
  <2> QED
    BY <2>1, <2>2, <2>3 DEF Tracked
<1>2. \A q \in 1 .. N : Mate(q) \in 1 .. N /\ Mate(Mate(q)) = q /\ M[q] = L[Mate(q)]
  BY <1>1
<1>3. \A p, q \in 1 .. N : p < q => Mate(q) < Mate(p)
  BY <1>1
<1>4. /\ DOMAIN a = 1 .. Len(a) /\ DOMAIN b = 1 .. Len(b) /\ Len(a) \in Nat /\ Len(b) \in Nat
      /\ seen \subseteq DOMAIN b /\ back \subseteq DOMAIN a
  OBVIOUS
<1>5. /\ \A j : j \in seen <=> j \in DOMAIN b /\ b[j] \in st
      /\ \A i : i \in back <=> i \in DOMAIN a /\ \E j \in seen : a[i] = b[j]
  OBVIOUS
<1>6. /\ \A j \in seen : reg[b[j]] = "before_after"
      /\ \A q \in 1 .. N :
            L[q] \in st /\ reg[L[q]] = "before_after" => \E j \in DOMAIN b : f[j] = q
      /\ \A q \in 1 .. N : q <= e /\ M[q] \in st /\ reg[M[q]] = "before_after"
            => \E i \in DOMAIN a : g[i] = q
  <2>1. \A q \in 1 .. N : q <= e => q \in 1 .. e
    BY <1>1
  <2> QED
    BY <2>1 DEF Tracked
<1>7. h = [i \in back |-> CHOOSE j \in seen : f[j] = Mate(g[i])]
  OBVIOUS
<1> HIDE DEF N, Mate, seen, back, h
<1>8. ASSUME NEW j \in DOMAIN b, NEW k \in DOMAIN b, f[j] = f[k] PROVE j = k
  <2>1. ~ (j < k) /\ ~ (k < j)
    BY <1>1, <1>8
  <2> QED
    BY <1>4, <2>1
<1>9. ASSUME NEW i \in back PROVE \E j \in seen : f[j] = Mate(g[i])
  <2>1. PICK k \in seen : a[i] = b[k]
    BY <1>5
  <2>2. i \in DOMAIN a /\ k \in DOMAIN b
    BY <1>4
  <2>3. Mate(g[i]) \in 1 .. N /\ L[Mate(g[i])] = b[k]
    <3>1. g[i] \in 1 .. N /\ a[i] = M[g[i]]
      BY <1>1, <2>2
    <3> QED
      BY <1>2, <2>1, <3>1
  <2>4. PICK j \in DOMAIN b : f[j] = Mate(g[i])
    <3>1. b[k] \in st /\ reg[b[k]] = "before_after"
      BY <1>5, <1>6
    <3>2. \A p \in 1 .. N :
            L[p] \in st /\ reg[L[p]] = "before_after" => \E j \in DOMAIN b : f[j] = p
      BY <1>6
    <3> QED
      BY ONLY <2>3, <3>1, <3>2
  <2>5. b[j] = b[k]
    BY <1>1, <2>3, <2>4
  <2> QED
    BY <1>5, <2>4, <2>5
<1>10. ASSUME NEW i \in back
       PROVE  h[i] \in seen /\ h[i] \in DOMAIN b /\ f[h[i]] = Mate(g[i]) /\ a[i] = b[h[i]]
  <2>1. h[i] \in seen /\ f[h[i]] = Mate(g[i])
    BY <1>7, <1>9
  <2>2. i \in DOMAIN a /\ h[i] \in DOMAIN b
    BY <1>4, <2>1
  <2>3. g[i] \in 1 .. N /\ a[i] = M[g[i]] /\ b[h[i]] = L[f[h[i]]]
    BY <1>1, <2>2
  <2>4. M[g[i]] = L[Mate(g[i])]
    BY <1>2, <2>3
  <2> QED
    BY <2>1, <2>2, <2>3, <2>4
<1>11. h \in [back -> seen]
  BY <1>7, <1>10
<1>12. ASSUME NEW i \in back, NEW k \in back, i < k PROVE h[k] < h[i]
  <2>1. i \in DOMAIN a /\ k \in DOMAIN a
    BY <1>4
  <2>2. g[i] \in 1 .. N /\ g[k] \in 1 .. N /\ g[i] < g[k]
    BY <1>1, <1>12, <2>1
  <2>3. f[h[k]] < f[h[i]]
    BY <1>3, <1>10, <2>2
  <2>4. f[h[k]] \in Nat /\ f[h[i]] \in Nat
    BY <1>1, <1>10
  <2>5. ~ (h[i] < h[k])
    BY <1>1, <1>10, <2>3, <2>4
  <2>6. h[i] # h[k]
    BY <2>3, <2>4
  <2> QED
    BY <1>4, <1>10, <2>5, <2>6
<1>13. ASSUME NEW i \in back, NEW j \in seen, h[i] < j PROVE \E k \in back : h[k] = j
  <2>1. i \in DOMAIN a /\ j \in DOMAIN b /\ g[i] \in 1 .. N /\ f[j] \in 1 .. N
    BY <1>1, <1>4
  <2>2. Mate(g[i]) < f[j]
    BY <1>1, <1>10, <1>13, <2>1
  <2> DEFINE q == Mate(f[j])
  <2>3. q \in 1 .. N /\ Mate(q) = f[j] /\ M[q] = b[j]
    <3>1. Mate(f[j]) \in 1 .. N /\ Mate(Mate(f[j])) = f[j]
      BY <1>2, <2>1
    <3>2. M[Mate(f[j])] = L[f[j]]
      BY <1>2, <3>1
    <3> QED
      BY <1>1, <2>1, <3>1, <3>2
  <2>4. q < g[i]
    <3>1. Mate(f[j]) < Mate(Mate(g[i]))
      BY <1>2, <1>3, <2>1, <2>2
    <3> QED
      BY <1>2, <2>1, <3>1
  <2> HIDE DEF q
  <2>5. g[i] <= e
    BY <1>1, <2>1
  <2>6. q <= e
    <3>1. q \in Int /\ g[i] \in Int /\ e \in Int
      BY <1>1, <2>1, <2>3
    <3> QED
      BY ONLY <2>4, <2>5, <3>1
  <2>7. PICK k \in DOMAIN a : g[k] = q
    <3>1. b[j] \in st /\ reg[b[j]] = "before_after"
      BY <1>5, <1>6
    <3>2. \A p \in 1 .. N : p <= e /\ M[p] \in st /\ reg[M[p]] = "before_after"
            => \E k \in DOMAIN a : g[k] = p
      BY <1>6
    <3> QED
      BY ONLY <2>3, <2>6, <3>1, <3>2
  <2>8. a[k] = b[j] /\ k \in back
    BY <1>1, <1>5, <2>3, <2>7
  <2>9. h[k] \in DOMAIN b /\ f[h[k]] = f[j]
    BY <1>10, <2>3, <2>7, <2>8
  <2>10. h[k] = j
    BY <1>8, <2>1, <2>9
  <2> QED
    BY <2>8, <2>10
<1>14. \E w \in [back -> seen] :
         /\ \A i \in back : a[i] = b[w[i]]
         /\ \A i, k \in back : i < k => w[k] < w[i]
         /\ \A i \in back, j \in seen : w[i] < j => \E k \in back : w[k] = j
  BY <1>10, <1>11, <1>12, <1>13
<1> QED
  BY <1>14 DEF Unwinds, seen, back

LEMMA HooksFollow == Typed /\ Align => HooksOrdered
<1> SUFFICES ASSUME Typed, Align, NEW r \in Requests
             PROVE  /\ Unwinds(ran[r].before, ran[r].after, steady[r])
                    /\ \E f \in [DOMAIN ran[r].before -> DOMAIN route[r]] :
                         /\ \A n \in DOMAIN ran[r].before :
                               /\ route[r][f[n]].type = ran[r].before[n]
                               /\ OrderOf(route[r], f[n]) # 0
                         /\ \A m, n \in DOMAIN ran[r].before :
                               m < n => /\ f[m] # f[n]
                                        /\ OrderOf(route[r], f[m]) <= OrderOf(route[r], f[n])
  BY DEF HooksOrdered, HooksInOrder, HooksMirror
<1> DEFINE b == ran[r].before
           a == ran[r].after
           list == route[r]
           P == BeforePlaces(list)
<1>1. PICK f, c : FollowsBefore(r, f, c)
  BY DEF Align, Aligned
<1>2. PICK g, e : FollowsAfter(r, g, e)
  BY DEF Align, Aligned
<1>3. /\ list \in Seq(Elements) /\ B(r) \in Seq(Types) /\ A(r) \in Seq(Types)
      /\ Len(A(r)) = Len(B(r))
      /\ \A q \in 1 .. Len(B(r)) : A(r)[q] = B(r)[Len(B(r)) + 1 - q]
      /\ b \in Seq(Types) /\ a \in Seq(Types)
  BY RouteLists DEF Typed, HistoryTyped
<1>4. /\ Tracked(b, B(r), f, c, registry, steady[r])
      /\ Tracked(a, A(r), g, e, registry, steady[r])
      /\ a # <<>> => c = Len(B(r))
  BY <1>1, <1>2 DEF FollowsBefore, FollowsAfter
<1>5. Unwinds(b, a, steady[r])
  <2> HIDE DEF a, b
  <2>1. CASE a = <<>>
    <3> DEFINE seen == {j \in DOMAIN b : b[j] \in steady[r]}
               back == {i \in DOMAIN a : \E j \in seen : a[i] = b[j]}
    <3>1. back = {}
      BY <2>1
    <3>2. <<>> \in [back -> seen]
      BY <3>1
    <3> HIDE DEF seen
    <3>3. \E w \in [back -> seen] :
             /\ \A i \in back : a[i] = b[w[i]]
             /\ \A i, k \in back : i < k => w[k] < w[i]
             /\ \A i \in back, j \in seen : w[i] < j => \E k \in back : w[k] = j
      BY <3>1, <3>2
    <3> QED
      BY <3>3 DEF Unwinds, seen
  <2>2. CASE a # <<>>
    BY <1>3, <1>4, <2>2, TracksUnwind
  <2> QED
    BY <2>1, <2>2
<1>6. /\ DOMAIN P = 1 .. Len(B(r))
      /\ \A k \in 1 .. Len(B(r)) :
            P[k] \in DOMAIN list /\ list[P[k]].type = B(r)[k] /\ OrderOf(list, P[k]) # 0
      /\ \A j, k \in 1 .. Len(B(r)) :
            j < k => P[j] # P[k] /\ OrderOf(list, P[j]) <= OrderOf(list, P[k])
  BY <1>3, PlacesInOrder DEF B
<1>7. /\ \A n \in DOMAIN b : f[n] \in 1 .. Len(B(r)) /\ b[n] = B(r)[f[n]]
      /\ \A m, n \in DOMAIN b : m < n => f[m] < f[n]
  <2>1. c \in 0 .. Len(B(r)) /\ Len(B(r)) \in Nat
    BY <1>3, <1>4 DEF Tracked
  <2>2. \A n \in DOMAIN b : f[n] \in 1 .. c /\ b[n] = B(r)[f[n]]
    BY <1>4 DEF Tracked
  <2>3. 1 .. c \subseteq 1 .. Len(B(r))
    BY <2>1
  <2>4. \A m, n \in DOMAIN b : m < n => f[m] < f[n]
    BY <1>4 DEF Tracked
  <2> QED
    BY <2>2, <2>3, <2>4
<1> DEFINE h == [n \in DOMAIN b |-> P[f[n]]]
<1>8. h \in [DOMAIN b -> DOMAIN list]
  <2> HIDE DEF P, b, list
  <2> QED
    BY <1>6, <1>7
<1>9. \A n \in DOMAIN b : list[h[n]].type = b[n] /\ OrderOf(list, h[n]) # 0
  <2> HIDE DEF P, b, list
  <2> QED
    BY <1>6, <1>7
<1>10. \A m, n \in DOMAIN b :
          m < n => h[m] # h[n] /\ OrderOf(list, h[m]) <= OrderOf(list, h[n])
  <2> HIDE DEF P, b, list
  <2> QED
    BY <1>6, <1>7
<1> HIDE DEF h
<1> QED
  BY <1>5, <1>8, <1>9, <1>10

(* Whatever plugins and reloads do, no plugin sees a request before one of *)
(* smaller order, and the hooks after the response unwind those before it, *)
(* last one first and none left out (engine.py:52 to :119).                *)
THEOREM HooksKeepOrder == Spec => []HooksOrdered
<1>1. Init => IInv /\ Typed /\ Align
  BY Initially, TypedInitially, AlignInitially
<1>2. IInv /\ Typed /\ Align /\ [Next]_vars => (IInv /\ Typed /\ Align)'
  BY Inductive, TypedStep, AlignStep
<1>3. Typed /\ Align => HooksOrdered
  BY HooksFollow
<1> QED
  BY <1>1, <1>2, <1>3, PTL DEF Spec
=============================================================================
