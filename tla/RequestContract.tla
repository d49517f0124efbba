--------------------------- MODULE RequestContract ---------------------------
(***************************************************************************)
(* What app() (src/app/main.py, lines 148 to 590) promises of every        *)
(* request, whatever plugins a route has, whatever they raise and however  *)
(* often they are reloaded: the client gets one answer at most; upstream   *)
(* is called before the answer only, and never for a request that is       *)
(* refused or served from the cache; a request is counted once, after an   *)
(* answer that is no refusal, and billed once, after it was counted, if    *)
(* there is somebody to bill; and nothing happens to a request that ended. *)
(***************************************************************************)
EXTENDS Naturals

CONSTANTS Requests,
          Refusals,  \* answers of the gateway's own, before upstream
          Served     \* the other answers, "cached" among them

VARIABLES blank,     \* nobody is behind the name of its tenant
          state,     \* "open", or how the request ended
          answer,    \* what the client got, "none" before
          upstream,  \* calls of upstream
          counted,   \* in the metrics
          billed     \* in the tenant's usage

vars == <<blank, state, answer, upstream, counted, billed>>

Init ==
    /\ blank \in [Requests -> BOOLEAN]
    /\ state = [r \in Requests |-> "open"]
    /\ answer = [r \in Requests |-> "none"]
    /\ upstream = [r \in Requests |-> 0]
    /\ counted = [r \in Requests |-> 0]
    /\ billed = [r \in Requests |-> 0]

Unanswered(r) == state[r] = "open" /\ answer[r] = "none"
Ends(r, how) == state' = [state EXCEPT ![r] = how]
Gives(r, a) == answer' = [answer EXCEPT ![r] = a]

Call(r) ==
    /\ Unanswered(r)
    /\ upstream' = [upstream EXCEPT ![r] = @ + 1]
    /\ UNCHANGED <<blank, state, answer, counted, billed>>

(* The answer of a request that is refused is the end of it. *)
Refuse(r) ==
    /\ Unanswered(r)
    /\ upstream[r] = 0
    /\ \E a \in Refusals : Gives(r, a)
    /\ Ends(r, "done")
    /\ UNCHANGED <<blank, upstream, counted, billed>>

Answer(r) ==
    /\ Unanswered(r)
    /\ \E a \in Served : (a = "cached" => upstream[r] = 0) /\ Gives(r, a)
    /\ UNCHANGED <<blank, state, upstream, counted, billed>>

Count(r) ==
    /\ state[r] = "open" /\ answer[r] \in Served
    /\ counted[r] = 0
    /\ counted' = [counted EXCEPT ![r] = 1]
    /\ UNCHANGED <<blank, state, answer, upstream, billed>>

Billed(r) == [billed EXCEPT ![r] = IF blank[r] THEN 0 ELSE 1]

Bill(r) ==
    /\ state[r] = "open" /\ counted[r] = 1
    /\ billed' = Billed(r)
    /\ Ends(r, "done")
    /\ UNCHANGED <<blank, answer, upstream, counted>>

(* An exception leaves app(), at any moment; nothing else is owed then,    *)
(* but a bill that was on its way may have arrived.                        *)
Escape(r) ==
    /\ state[r] = "open"
    /\ Ends(r, "escaped")
    /\ billed' = billed \/ (counted[r] = 1 /\ billed' = Billed(r))
    /\ UNCHANGED <<blank, answer, upstream, counted>>

Next ==
    \E r \in Requests : Call(r) \/ Refuse(r) \/ Answer(r) \/ Count(r) \/ Bill(r) \/ Escape(r)

Spec == Init /\ [][Next]_vars
=============================================================================
