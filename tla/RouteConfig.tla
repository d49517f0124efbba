----------------------------- MODULE RouteConfig -----------------------------
(***************************************************************************)
(* The route table of one gateway process and how it follows the MongoDB   *)
(* collection (src/app/config_store.py, src/app/lifespan.py).              *)
(*                                                                         *)
(* startup() loads the collection, document by document, then creates the  *)
(* task subscribe_config_updates.  That listener takes one event at a time *)
(* from a Redis channel and either re-reads the document the event names   *)
(* or loads the collection again.  An event published while nobody is      *)
(* subscribed is lost.  Between reading a document and changing the table  *)
(* the coroutine waits for MongoDB, and the collection may change.         *)
(*                                                                         *)
(* Whoever edits routes is outside the repository: it stores or removes a  *)
(* document and announces that, in the orders that Habits allows.          *)
(*                                                                         *)
(* A table key is a method and a composed path; a document is known by its *)
(* id, path, methods and the number of the write that stored it.           *)
(***************************************************************************)
EXTENDS Integers, Sequences, FiniteSets

CONSTANTS Ids,          \* route documents, by _id
          Methods,      \* HTTP methods
          Paths,        \* paths composed of tenant and prefix
          MethodSets,   \* what "methods" of a document may hold
          Tenanted,     \* the documents that have a tenant_id field
          AppEnv,       \* APP_ENV
          EventEnvs,    \* what "environment" of an event may hold
          OurEnvs,      \* those of them by which the editor means this gateway
          EventTenants, \* whether an event names a tenant
          Habits,       \* what the editor of routes may do, see below
          Initial,      \* the collections the process may start with
          MaxWrites,    \* bound: documents stored while it runs
          MaxQueue      \* bound: announcements waiting for the listener

(* "early":          writes before the listener has subscribed             *)
(* "drop_key":       an edit may leave a method or a path                  *)
(* "remove_first":   removes a document, then announces the removal        *)
(* "announce_first": announces the removal, then removes the document      *)
(* "faults":         the load, or the listener, may raise                  *)
AllHabits == {"early", "drop_key", "remove_first", "announce_first", "faults"}

NoDoc == [id |-> "none"]
Docs == [id : Ids, path : Paths, methods : MethodSets, ver : 0..MaxWrites]
Keys == Methods \X Paths
Tables == [Keys -> Docs \cup {NoDoc}]

ASSUME ConfigAssumption ==
    /\ "GET" \in Methods
    /\ MethodSets \subseteq SUBSET Methods
    /\ Tenanted \subseteq Ids
    /\ OurEnvs \subseteq EventEnvs
    /\ EventTenants \subseteq BOOLEAN
    /\ Habits \subseteq AllHabits
    /\ Initial \subseteq [Ids -> Docs \cup {NoDoc}]
    /\ \A stored \in Initial, i \in Ids :
          stored[i] # NoDoc => stored[i].id = i /\ stored[i].ver = 0
    /\ MaxWrites \in Nat /\ MaxQueue \in Nat

VARIABLES db,        \* the routes collection
          writes,    \* how many documents were stored since the start
          owed,      \* what the editor still has to do for a document
          queue,     \* messages received by the subscription, not yet taken
          cache,     \* _routes_cache
          startup,   \* the task startup()
          listener,  \* the task subscribe_config_updates()
          scan,      \* documents a full load has still to read, per task
          building,  \* the local dictionary of a full load, per task
          pending,   \* what the listener is about to apply
          left,      \* history: the keys an edit took from a document
          lost       \* history: the documents whose last announcement missed

editor == <<db, writes, owed>>
history == <<left, lost>>
gateway == <<cache, startup, listener, scan, building, pending>>
vars == <<db, writes, owed, queue, cache, startup, listener, scan, building, pending,
          left, lost>>

Tasks == {"startup", "listener"}
Nothing == [kind |-> "nothing", doc |-> NoDoc]
EmptyTable == [k \in Keys |-> NoDoc]

Events == [kind : {"upsert", "delete"}, id : Ids, tenant : BOOLEAN, env : EventEnvs]

-----------------------------------------------------------------------------
(* Plausible defects of the operators below, used by no action. *)

ShouldProcessRaw(e) == e.env \in {"", AppEnv}          \* aliases not resolved
PutMissing(t, d) ==                                    \* setdefault for update
    [k \in Keys |-> IF t[k] = NoDoc /\ k[2] = d.path /\ k[1] \in d.methods
                    THEN d ELSE t[k]]
ScanDoneEarly(t) == scan[t] # Ids                      \* swap after one read
MaySubscribeEarly == listener = "off"                  \* load not awaited

-----------------------------------------------------------------------------
(* What documents and events mean to the gateway. *)

(* r.get("methods") or ["GET"] *)
MethodsOf(d) == IF d.methods = {} THEN {"GET"} ELSE d.methods

(* The keys load_routes enters a document under. *)
KeysOf(d) == MethodsOf(d) \X {d.path}

(* The keys a delete removes: here an empty "methods" has no default. *)
DeletedKeys(d) == d.methods \X {d.path}

(* _routes_cache.update(...), or an assignment in the loop of a full load. *)
Put(t, d) == [k \in Keys |-> IF k \in KeysOf(d) THEN d ELSE t[k]]

(* _routes_cache.pop(key, None) for each key *)
Without(t, ks) == [k \in Keys |-> IF k \in ks THEN NoDoc ELSE t[k]]

(* _normalize_environment *)
Normalized(env) ==
    IF env \in {"prod", "prd", "production"} THEN "production"
    ELSE IF env \in {"hml", "homolog", "homologacao", "stg", "staging"} THEN "staging"
    ELSE env

(* _should_process_event: only production and staging are ever told apart. *)
ShouldProcess(e) ==
    \/ e.env = ""
    \/ Normalized(e.env) =
          IF Normalized(AppEnv) = "production" THEN "production" ELSE "staging"

(* find_one({"tenant_id": ..., "_id": ...}): a null tenant_id matches the  *)
(* documents that have none.                                               *)
Found(e) == IF e.tenant = (e.id \in Tenanted) THEN db[e.id] ELSE NoDoc

Init ==
    /\ db \in Initial
    /\ writes = 0
    /\ owed = [i \in Ids |-> "nothing"]
    /\ queue = <<>>
    /\ cache = EmptyTable
    /\ startup = "loading"
    /\ listener = "off"
    /\ scan = [t \in Tasks |-> IF t = "startup" THEN Ids ELSE {}]
    /\ building = [t \in Tasks |-> EmptyTable]
    /\ pending = Nothing
    /\ left = {}
    /\ lost = {}

-----------------------------------------------------------------------------
(* The editor of routes: external. *)

Subscribed == listener \notin {"off", "dead"}
MayWrite(i) == owed[i] = "nothing" /\ ("early" \in Habits \/ Subscribed)

KeysAt(i) == IF db[i] = NoDoc THEN {} ELSE KeysOf(db[i])

(* Stores a new document, or a new version of one. *)
Store(i, path, methods) ==
    /\ MayWrite(i)
    /\ writes < MaxWrites
    /\ LET d == [id |-> i, path |-> path, methods |-> methods, ver |-> writes + 1] IN
         /\ db[i] # NoDoc /\ "drop_key" \notin Habits => KeysOf(db[i]) \subseteq KeysOf(d)
         /\ db' = [db EXCEPT ![i] = d]
         /\ left' = left \cup (KeysAt(i) \ KeysOf(d))
    /\ writes' = writes + 1
    /\ owed' = [owed EXCEPT ![i] = "upsert"]
    /\ UNCHANGED <<queue, gateway, lost>>

Remove(i) ==
    /\ db[i] # NoDoc
    /\ \/ /\ "remove_first" \in Habits
          /\ MayWrite(i)
          /\ owed' = [owed EXCEPT ![i] = "delete"]
       \/ /\ owed[i] = "remove"
          /\ owed' = [owed EXCEPT ![i] = "nothing"]
    /\ db' = [db EXCEPT ![i] = NoDoc]
    /\ left' = left \cup KeysAt(i)
    /\ UNCHANGED <<writes, queue, gateway, lost>>

(* Whether an announcement is one the gateway should act on: it listens,   *)
(* it is meant, and the document is where the event says.                  *)
Reaches(i, tenant, env) == Subscribed /\ env \in OurEnvs /\ (tenant => i \in Tenanted)

(* A published message: only a subscribed process receives it. *)
Send(kind, i, tenant, env) ==
    /\ Len(queue) < MaxQueue
    /\ LET e == [kind |-> kind, id |-> i, tenant |-> tenant, env |-> env] IN
         queue' = IF Subscribed THEN Append(queue, e) ELSE queue
    /\ UNCHANGED <<db, writes, gateway>>

(* Announces a write or a removal that was done. *)
Announce(i, tenant, env) ==
    /\ owed[i] \in {"upsert", "delete"}
    /\ Send(owed[i], i, tenant, env)
    /\ lost' = IF owed[i] = "delete" THEN lost
               ELSE IF Reaches(i, tenant, env) THEN lost \ {i} ELSE lost \cup {i}
    /\ owed' = [owed EXCEPT ![i] = "nothing"]
    /\ UNCHANGED left

(* Announces a removal still to be done. *)
AnnounceFirst(i, tenant, env) ==
    /\ "announce_first" \in Habits
    /\ MayWrite(i)
    /\ db[i] # NoDoc
    /\ Send("delete", i, tenant, env)
    /\ owed' = [owed EXCEPT ![i] = "remove"]
    /\ left' = left \cup KeysAt(i)
    /\ UNCHANGED lost

-----------------------------------------------------------------------------
(* The gateway. *)

Loading(t) == IF t = "startup" THEN startup = "loading" ELSE listener = "reloading"

(* The cursor of a full load yields the next document. *)
ReadNext(t, i) ==
    /\ Loading(t)
    /\ i \in scan[t]
    /\ scan' = [scan EXCEPT ![t] = @ \ {i}]
    /\ building' = IF db[i] = NoDoc THEN building
                   ELSE [building EXCEPT ![t] = Put(@, db[i])]
    /\ UNCHANGED <<editor, history, queue, cache, startup, listener, pending>>

ScanDone(t) == scan[t] = {}

(* The end of a full load: the finished dictionary becomes the table. *)
Swap(t) ==
    /\ Loading(t)
    /\ ScanDone(t)
    /\ cache' = building[t]
    /\ building' = [building EXCEPT ![t] = EmptyTable]
    /\ scan' = [scan EXCEPT ![t] = {}]
    /\ startup' = IF t = "startup" THEN "done" ELSE startup
    /\ listener' = IF t = "listener" THEN "listening" ELSE listener
    /\ UNCHANGED <<editor, history, queue, pending>>

(* startup() raises in load_routes: the listener is never created. *)
StartupFails ==
    /\ "faults" \in Habits
    /\ startup = "loading"
    /\ startup' = "failed"
    /\ scan' = [scan EXCEPT !["startup"] = {}]
    /\ building' = [building EXCEPT !["startup"] = EmptyTable]
    /\ UNCHANGED <<editor, history, queue, cache, listener, pending>>

MaySubscribe == startup = "done" /\ listener = "off"

Subscribe ==
    /\ MaySubscribe
    /\ listener' = "listening"
    /\ UNCHANGED <<editor, history, queue, cache, startup, scan, building, pending>>

(* The listener takes a message.  Nobody else sees the queue, so reading   *)
(* the document is the same step; its reply is applied in a later one.     *)
Receive ==
    /\ listener = "listening"
    /\ queue # <<>>
    /\ queue' = Tail(queue)
    /\ LET e == Head(queue) IN
         \/ /\ ~ShouldProcess(e)
            /\ UNCHANGED <<listener, scan, pending>>
         \/ /\ ShouldProcess(e)
            /\ e.kind = "delete" \/ e.tenant
            /\ listener' = "applying"
            /\ pending' = [kind |-> e.kind, doc |-> Found(e)]
            /\ UNCHANGED scan
         \/ /\ ShouldProcess(e)
            /\ e.kind = "upsert" /\ ~e.tenant
            /\ listener' = "reloading"
            /\ scan' = [scan EXCEPT !["listener"] = Ids]
            /\ UNCHANGED pending
    /\ UNCHANGED <<editor, history, cache, startup, building>>

(* The table after an event; a document that was not found changes nothing. *)
Applied(kind, d) ==
    IF d = NoDoc THEN cache
    ELSE IF kind = "upsert" THEN Put(cache, d)
    ELSE Without(cache, DeletedKeys(d))

Apply ==
    /\ listener = "applying"
    /\ cache' = Applied(pending.kind, pending.doc)
    /\ pending' = Nothing
    /\ listener' = "listening"
    /\ UNCHANGED <<editor, history, queue, startup, scan, building>>

(* Anything raised in the loop ends the task: a lost connection, a message *)
(* that is not the expected JSON.  Nothing starts it again.                *)
ListenerDies ==
    /\ "faults" \in Habits
    /\ Subscribed
    /\ listener' = "dead"
    /\ queue' = <<>>
    /\ pending' = Nothing
    /\ scan' = [scan EXCEPT !["listener"] = {}]
    /\ building' = [building EXCEPT !["listener"] = EmptyTable]
    /\ UNCHANGED <<editor, history, cache, startup>>

Edit ==
    \/ \E i \in Ids, tenant \in EventTenants, env \in EventEnvs : AnnounceFirst(i, tenant, env)
    \/ \E i \in Ids, path \in Paths, methods \in MethodSets : Store(i, path, methods)
    \/ \E i \in Ids : Remove(i)

Publish == \E i \in Ids, tenant \in EventTenants, env \in EventEnvs : Announce(i, tenant, env)

Load(t) == (\E i \in Ids : ReadNext(t, i)) \/ Swap(t)

Listen == Subscribe \/ Receive \/ Apply \/ Load("listener")

Next == Edit \/ Publish \/ Load("startup") \/ Listen \/ StartupFails \/ ListenerDies

Spec == Init /\ [][Next]_vars

(* The event loop runs both tasks, and the editor keeps to its habits: it  *)
(* announces what it stored.  It need not store anything.                  *)
FairSpec == Spec /\ WF_vars(Load("startup")) /\ WF_vars(Listen) /\ WF_vars(Publish)

-----------------------------------------------------------------------------

TypeOK ==
    /\ db \in [Ids -> Docs \cup {NoDoc}]
    /\ writes \in 0..MaxWrites
    /\ owed \in [Ids -> {"nothing", "upsert", "delete", "remove"}]
    /\ queue \in Seq(Events) /\ Len(queue) <= MaxQueue
    /\ cache \in Tables
    /\ startup \in {"loading", "done", "failed"}
    /\ listener \in {"off", "listening", "applying", "reloading", "dead"}
    /\ scan \in [Tasks -> SUBSET Ids]
    /\ building \in [Tasks -> Tables]
    /\ pending \in [kind : {"upsert", "delete", "nothing"}, doc : Docs \cup {NoDoc}]
    /\ left \subseteq Keys /\ lost \subseteq Ids
    /\ \A i \in Ids : db[i] # NoDoc => db[i].id = i

(* Reads and writes of the table are never reordered: once a version of a  *)
(* document is served at a key, an older version of it never replaces it   *)
(* there, though events, full loads and edits overlap.                     *)
NoVersionRegression ==
    [][\A k \in Keys :
         (cache[k] # NoDoc /\ cache'[k] # NoDoc /\ cache'[k].id = cache[k].id)
            => cache'[k].ver >= cache[k].ver]_vars

(* A full load in progress is never visible: a route whose stored document *)
(* is the one served stops being served only by a delete event.            *)
UnchangedRoutesStay ==
    [][\A k \in Keys :
         (cache[k] # NoDoc /\ db[cache[k].id] = cache[k] /\ cache'[k] = NoDoc)
            => pending.kind = "delete"]_vars

(* The stored documents that should be served at a key. *)
Owners(k) == {d \in {db[i] : i \in Ids} \ {NoDoc} : k \in KeysOf(d)}

InSyncAt(k) == IF Owners(k) = {} THEN cache[k] = NoDoc ELSE cache[k] \in Owners(k)

(* Everything announced and nothing left to do. *)
Quiet ==
    /\ startup = "done" /\ listener = "listening" /\ queue = <<>>
    /\ \A i \in Ids : owed[i] = "nothing"

(* The keys the gateway can be expected to serve rightly: no edit took     *)
(* them from a document, and the last announcement of every document that  *)
(* has them reached the listener.                                          *)
OwedKeys == {k \in Keys \ left : \A d \in Owners(k) : d.id \notin lost}

(* When every edit has been announced and processed, the gateway serves at *)
(* every key it can be expected to what the collection holds               *)
(* (README.md:11 and :15), whatever else was lost, left or removed         *)
(* meanwhile: announcements with and without tenant and environment, under *)
(* the aliases of an environment, overlapping full loads and edits.        *)
AnnouncedRoutesServed == Quiet => \A k \in OwedKeys : InSyncAt(k)

(* And it gets there: edits being finite, the table ends up right for good *)
(* at those keys, unless the tasks have died.                              *)
TableConverges ==
    <>[](startup = "failed" \/ listener = "dead" \/ \A k \in OwedKeys : InSyncAt(k))

(* The same of every key.  FALSE: an edit announced between the load and   *)
(* the subscription is lost, and a key an edit leaves is served on.        *)
TableFollowsStore == Quiet => \A k \in Keys : InSyncAt(k)

=============================================================================
