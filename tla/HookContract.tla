---------------------------- MODULE HookContract ----------------------------
(***************************************************************************)
(* What a sandboxed plugin promises to the requests that run its hooks,    *)
(* whatever carries the messages (the docstrings of                        *)
(* src/app/plugins/dynamic.py and plugin_worker.py): calls are served one  *)
(* at a time in the order they were asked for, a request passes only when  *)
(* the plugin approved its call, and every call ends.                      *)
(***************************************************************************)
EXTENDS Naturals, Sequences

CONSTANTS Calls

VARIABLES queue,     \* calls asked for and not ended, oldest first
          approved,  \* calls whose hook returned without an error
          result     \* how each call ended

vars == <<queue, approved, result>>

Init ==
    /\ queue = <<>>
    /\ approved = {}
    /\ result = [c \in Calls |-> "none"]

Ask(c) ==
    /\ result[c] = "none"
    /\ \A n \in DOMAIN queue : queue[n] # c
    /\ queue' = Append(queue, c)
    /\ UNCHANGED <<approved, result>>

Approve ==
    /\ queue # <<>>
    /\ approved' = approved \cup {Head(queue)}
    /\ UNCHANGED <<queue, result>>

(* The oldest call ends; a failure of any kind is a "raised". *)
End(v) ==
    /\ queue # <<>>
    /\ v = "passed" => Head(queue) \in approved
    /\ result' = [result EXCEPT ![Head(queue)] = v]
    /\ queue' = Tail(queue)
    /\ UNCHANGED approved

Next ==
    \/ \E c \in Calls : Ask(c)
    \/ Approve
    \/ \E v \in {"passed", "raised"} : End(v)

Spec == Init /\ [][Next]_vars

FairSpec == Spec /\ WF_vars(\E v \in {"passed", "raised"} : End(v))
=============================================================================
