---------------------------- MODULE PluginWorker ----------------------------
(***************************************************************************)
(* A plugin stored in MongoDB runs in a process of its own: the proxy in   *)
(* the gateway (SubprocessProxyPlugin, src/app/plugins/dynamic.py) and the *)
(* worker (src/app/plugins/plugin_worker.py) exchange one JSON line per    *)
(* message over the worker's stdin and stdout.                             *)
(*                                                                         *)
(* A call is one hook (before_request or after_response) run for one       *)
(* request.  Calls take turns under an asyncio lock.  The holder starts a  *)
(* worker if there is none, sends the message and takes the next line of   *)
(* stdout for the reply; nothing in a line says which message it answers.  *)
(* The worker may die at any moment; asyncio learns of it a little later   *)
(* (returncode), while what it had printed can still be read.              *)
(***************************************************************************)
EXTENDS Naturals, Sequences

CONSTANTS Calls,    \* hook calls
          Nobody,   \* holds the lock when no call does
          Prints    \* whether the plugin's own code may write to stdout

ASSUME WorkerAssumption ==
    /\ Nobody \notin Calls
    /\ {"init", "printed"} \cap Calls = {}
    /\ Prints \in BOOLEAN

VARIABLES waiting,   \* calls queued at the lock, in order
          holder,    \* the call inside `async with self._lock`
          stage,     \* where the holder is in _ensure_proc and _send
          proc,      \* the worker process, as the proxy may find it
          inbox,     \* messages on the worker's stdin
          outbox,    \* lines on the worker's stdout
          ready,     \* plugin_instance of the worker is set
          result,    \* how each call ended for its request
          judged     \* history: what the plugin said of each call

proxy == <<waiting, holder, stage, result>>
worker == <<proc, inbox, outbox, ready, judged>>
workerVars == <<waiting, holder, stage, proc, inbox, outbox, ready, result, judged>>

Line(of, ok) == [of |-> of, ok |-> ok]
Printed == Line("printed", FALSE)
Lines == [of : Calls \cup {"init", "printed"}, ok : BOOLEAN]

WorkerInit ==
    /\ waiting = <<>>
    /\ holder = Nobody
    /\ stage = "idle"
    /\ proc = "none"
    /\ inbox = <<>>
    /\ outbox = <<>>
    /\ ready = FALSE
    /\ result = [c \in Calls |-> "none"]
    /\ judged = [c \in Calls |-> "none"]

-----------------------------------------------------------------------------
(* Plausible defects of the operators below, used by no action. *)

MayTakeAlways == TRUE                   \* no lock
VerdictOfAny(line) == "passed"          \* "ok" is not looked at
AtEndNever == FALSE                     \* an empty line is waited on

-----------------------------------------------------------------------------
(* The proxy. *)

(* self._proc and self._proc.returncode is None *)
HasWorker == proc \in {"running", "exited"}

MayTake == holder = Nobody

(* if not resp.get("ok"): raise; a line that is not JSON raises as well. *)
Verdict(line) == IF line.of # "printed" /\ line.ok THEN "passed" ELSE "raised"

(* stdout is at its end: readline returns nothing. *)
AtEnd == outbox = <<>> /\ proc # "running"

(* Who has the lock after `async with` is left, by any path. *)
LockAfter == Nobody

(* A request comes to the hook and queues at the lock. *)
Ask(c) ==
    /\ result[c] = "none"
    /\ c # holder
    /\ \A n \in DOMAIN waiting : waiting[n] # c
    /\ waiting' = Append(waiting, c)
    /\ UNCHANGED <<holder, stage, result, worker>>

(* The lock is free and goes to the first in the queue. *)
Take ==
    /\ waiting # <<>>
    /\ MayTake
    /\ holder' = Head(waiting)
    /\ waiting' = Tail(waiting)
    /\ stage' = "ensure"
    /\ UNCHANGED <<result, worker>>

(* The holder's hook ends: the lock is released whatever the reason. *)
Ends(v) ==
    /\ result' = [result EXCEPT ![holder] = v]
    /\ holder' = LockAfter
    /\ stage' = "idle"
    /\ UNCHANGED waiting

(* No worker: spawn one with empty pipes and send it the code. *)
Spawn ==
    /\ stage = "ensure"
    /\ ~HasWorker
    /\ proc' = "running"
    /\ inbox' = <<"init">>
    /\ outbox' = <<>>
    /\ ready' = FALSE
    /\ stage' = "init"
    /\ UNCHANGED <<waiting, holder, result, judged>>

(* The spawn fails, or the code and config are not JSON: then the worker   *)
(* is there and has not been told its code.                                *)
SpawnRaises ==
    /\ stage = "ensure"
    /\ ~HasWorker
    /\ Ends("raised")
    /\ \/ UNCHANGED worker
       \/ /\ proc' = "running" /\ inbox' = <<>> /\ outbox' = <<>> /\ ready' = FALSE
          /\ UNCHANGED judged

Writes(c) == inbox' = IF proc = "running" THEN Append(inbox, c) ELSE inbox

SendCall ==
    /\ stage = "ensure"
    /\ HasWorker
    /\ Writes(holder)
    /\ stage' = "call"
    /\ UNCHANGED <<waiting, holder, proc, outbox, ready, result, judged>>

(* The route is not JSON and nothing is written, or the write finds the    *)
(* pipe closed: drain() raises.                                            *)
SendRaises ==
    /\ stage = "ensure"
    /\ HasWorker
    /\ Ends("raised")
    /\ UNCHANGED worker

(* The line after init: only its being JSON matters, "ok" is not looked at.*)
(* The call is sent in the same step, or raises as in SendRaises.          *)
ReadInit ==
    /\ stage = "init"
    /\ outbox # <<>>
    /\ outbox' = Tail(outbox)
    /\ \/ Ends("raised") /\ UNCHANGED inbox
       \/ /\ Head(outbox).of # "printed"
          /\ Writes(holder)
          /\ stage' = "call"
          /\ UNCHANGED <<waiting, holder, result>>
    /\ UNCHANGED <<proc, ready, judged>>

ReadReply ==
    /\ stage = "call"
    /\ outbox # <<>>
    /\ outbox' = Tail(outbox)
    /\ Ends(Verdict(Head(outbox)))
    /\ UNCHANGED <<proc, inbox, ready, judged>>

ReadEnd ==
    /\ stage \in {"init", "call"}
    /\ AtEnd
    /\ Ends("raised")        \* "plugin worker closed"
    /\ UNCHANGED worker

-----------------------------------------------------------------------------
(* The worker. *)

(* What the worker writes for a message: the reply, and before it whatever *)
(* the plugin's code printed.                                              *)
Says(line) ==
    \/ outbox' = Append(outbox, line)
    \/ Prints /\ outbox' = outbox \o <<Printed, line>>

(* init: the code is executed and the plugin built, or that fails. *)
WorkInit(ok) ==
    /\ proc = "running"
    /\ inbox # <<>> /\ Head(inbox) = "init"
    /\ inbox' = Tail(inbox)
    /\ ready' = (ok \/ ready)
    /\ Says(Line("init", ok))
    /\ UNCHANGED <<proxy, proc, judged>>

(* call: the hook returns (ok) or raises; without a plugin it is an error. *)
WorkCall(ok) ==
    /\ proc = "running"
    /\ inbox # <<>> /\ Head(inbox) # "init"
    /\ inbox' = Tail(inbox)
    /\ ok => ready
    /\ judged' = [judged EXCEPT ![Head(inbox)] = IF ok THEN "approved" ELSE "rejected"]
    /\ Says(Line(Head(inbox), ok))
    /\ UNCHANGED <<proxy, proc, ready>>

(* The process dies: plugin code that exits, a result that is not JSON.    *)
Die ==
    /\ proc = "running"
    /\ proc' = "exited"
    /\ inbox' = <<>>
    /\ UNCHANGED <<proxy, outbox, ready, judged>>

(* asyncio's child watcher sets returncode. *)
Reap ==
    /\ proc = "exited"
    /\ proc' = "reaped"
    /\ UNCHANGED <<proxy, inbox, outbox, ready, judged>>

Proxy == Take \/ Spawn \/ SpawnRaises \/ SendCall \/ SendRaises \/ ReadInit \/ ReadReply \/ ReadEnd

Work == \E ok \in BOOLEAN : WorkInit(ok) \/ WorkCall(ok)

WorkerNext == (\E c \in Calls : Ask(c)) \/ Proxy \/ Work \/ Die \/ Reap

WorkerSpec == WorkerInit /\ [][WorkerNext]_workerVars

(* The event loop runs the holder, and what the plugin's code does ends:   *)
(* the proxy sets no time limit, so the second is an assumption on plugins.*)
FairWorkerSpec == WorkerSpec /\ WF_workerVars(Proxy) /\ WF_workerVars(Work)

-----------------------------------------------------------------------------

(* Types, and what each step of the holder implies. *)
WorkerTypeOK ==
    /\ waiting \in Seq(Calls)
    /\ holder \in Calls \cup {Nobody}
    /\ stage \in {"idle", "ensure", "init", "call"}
    /\ stage = "idle" <=> holder = Nobody
    /\ proc \in {"none", "running", "exited", "reaped"}
    /\ inbox \in Seq(Calls \cup {"init"})
    /\ outbox \in Seq(Lines)
    /\ ready \in BOOLEAN
    /\ result \in [Calls -> {"none", "passed", "raised"}]
    /\ judged \in [Calls -> {"none", "approved", "rejected"}]

(* A request passes a hook only if the plugin approved that very request:  *)
(* no reply is ever taken for another's, over deaths, restarts and calls   *)
(* waiting their turn.  TRUE while nothing but the worker writes to its    *)
(* stdout; FALSE when the plugin prints: the reply to init, left unread,   *)
(* then answers a call, and every later reply answers the call after.      *)
PassedWasApproved == \A c \in Calls : result[c] = "passed" => judged[c] = "approved"

(* Every call ends: a dead worker is noticed or replaced, and the lock is  *)
(* released on every path, in the order it was asked for.                  *)
EveryCallEnds == \A c \in Calls : (\E n \in DOMAIN waiting : waiting[n] = c) ~> result[c] # "none"

(* The proxy and the worker keep the contract of HookContract: the queue   *)
(* is the holder followed by the calls at the lock, and the messages in    *)
(* the pipes are invisible.                                                *)
Queue == (IF holder = Nobody THEN <<>> ELSE <<holder>>) \o waiting
Approved == {c \in Calls : judged[c] = "approved"}

Contract == INSTANCE HookContract WITH queue <- Queue, approved <- Approved

KeepsContract == Contract!FairSpec

-----------------------------------------------------------------------------
(* The inductive invariant behind both, when the plugin does not print:    *)
(* what is in the pipes is the one exchange the holder is waiting for.     *)

NoExchange == inbox = <<>> /\ outbox = <<>>

Exchange(of) ==
    \/ proc = "running" /\ inbox = <<of>> /\ outbox = <<>>
    \/ inbox = <<>> /\ \E ok \in BOOLEAN : outbox = <<Line(of, ok)>>
    \/ proc # "running" /\ NoExchange

ReplyIsJudgement ==
    \A n \in DOMAIN outbox :
        outbox[n].ok /\ outbox[n].of \in Calls => judged[outbox[n].of] = "approved"

(* A call asked for has not ended, and waits once. *)
Unserved ==
    /\ holder # Nobody => result[holder] = "none"
    /\ \A n \in DOMAIN waiting : waiting[n] # holder /\ result[waiting[n]] = "none"
    /\ \A m, n \in DOMAIN waiting : waiting[m] = waiting[n] => m = n

WorkerInv ==
    /\ WorkerTypeOK
    /\ Unserved
    /\ stage \in {"idle", "ensure"} => NoExchange
    /\ stage = "init" => Exchange("init")
    /\ stage = "call" => Exchange(holder)
    /\ ReplyIsJudgement
    /\ PassedWasApproved

(* A call is judged in its one exchange and not before, so that no         *)
(* judgement is ever taken back: needed for the refinement.                *)
Fresh ==
    /\ \A c \in Calls : judged[c] # "none" => c = holder \/ result[c] # "none"
    /\ stage \in {"ensure", "init"} => judged[holder] = "none"
    /\ stage = "call" /\ inbox # <<>> => judged[holder] = "none"

=============================================================================
