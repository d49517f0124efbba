-------------------------- MODULE RouteConfigProofs --------------------------
(***************************************************************************)
(* For any documents, keys, events and habits of the editor: the table     *)
(* never goes back to an older version of a document, and a full load      *)
(* never shows through.  Both rest on what the listener has read but not   *)
(* yet applied: it is not newer than the collection (KnownIsOld), not      *)
(* older than the table (Overtakes), and a full load has by now everything *)
(* that was there when it began (Kept).                                    *)
(*                                                                         *)
(* The second part is about what the table owes the collection.  At a key  *)
(* no edit has left, whatever an edit changed and the table does not serve *)
(* yet is on its way (Delivery): to be announced, in a waiting event, read *)
(* by the listener, or still to be read by its load.                       *)
(***************************************************************************)
EXTENDS RouteConfig, TLAPS

Types ==
    /\ db \in [Ids -> Docs \cup {NoDoc}]
    /\ writes \in Nat
    /\ queue \in Seq(Events)
    /\ cache \in Tables
    /\ startup \in {"loading", "done", "failed"}
    /\ listener \in {"off", "listening", "applying", "reloading", "dead"}
    /\ scan \in [Tasks -> SUBSET Ids]
    /\ building \in [Tasks -> Tables]
    /\ pending \in [kind : {"upsert", "delete", "nothing"}, doc : Docs \cup {NoDoc}]

(* The document d was stored before, and store has no older version of it. *)
NoNewer(d, store, n) ==
    d # NoDoc => d.ver <= n /\ (store[d.id] # NoDoc => d.ver <= store[d.id].ver)

StoreNamed == \A i \in Ids : db[i] # NoDoc => db[i].id = i /\ db[i].ver <= writes

(* Every document the gateway holds. *)
Known ==
    {cache[k] : k \in Keys} \cup {building[t][k] : t \in Tasks, k \in Keys} \cup {pending.doc}

KnownIsOld == \A d \in Known : NoNewer(d, db, writes)

(* A table has a document under its own keys. *)
Keyed(table) == \A k \in Keys : table[k] # NoDoc => k \in KeysOf(table[k])

AllKeyed == Keyed(cache) /\ \A t \in Tasks : Keyed(building[t])

(* One task at a time, which leaves nothing behind. *)
OneTask ==
    /\ startup = "loading" => listener = "off" /\ cache = EmptyTable
    /\ listener # "reloading" => building["listener"] = EmptyTable
    /\ IF listener = "applying" THEN pending.kind # "nothing" ELSE pending = Nothing

(* If d replaces c, it is not by an older version. *)
NotOlder(c, d) == c # NoDoc /\ d # NoDoc /\ d.id = c.id => d.ver >= c.ver

Overtakes ==
    \A k \in Keys :
        NotOlder(cache[k], building["listener"][k]) /\ NotOlder(cache[k], pending.doc)

Kept ==
    listener = "reloading" =>
        \A k \in Keys :
            /\ cache[k] # NoDoc /\ db[cache[k].id] = cache[k]
            /\ cache[k].id \notin scan["listener"]
            => building["listener"][k] # NoDoc

IInv == /\ Types /\ StoreNamed /\ KnownIsOld /\ AllKeyed /\ OneTask /\ Overtakes /\ Kept

-----------------------------------------------------------------------------

LEMMA PutType ==
    ASSUME NEW table \in Tables, NEW d \in Docs
    PROVE  Put(table, d) \in Tables
BY DEF Tables, Put

LEMMA EmptyIsTable == EmptyTable \in Tables /\ Keyed(EmptyTable)
BY DEF Tables, EmptyTable, Keyed

LEMMA Initially == Init => IInv
<1> SUFFICES ASSUME Init PROVE IInv
  OBVIOUS
<1>1. Types
  <2>1. building \in [Tasks -> Tables] /\ cache \in Tables
    BY EmptyIsTable DEF Init
  <2>2. db \in [Ids -> Docs \cup {NoDoc}]
    BY ConfigAssumption DEF Init
  <2> QED
    BY <2>1, <2>2 DEF Init, Types, Nothing
<1>2. StoreNamed
  BY ConfigAssumption DEF Init, StoreNamed
<1>3. Known \subseteq {NoDoc}
  BY DEF Init, Known, EmptyTable, Nothing
<1>4. KnownIsOld
  BY <1>3 DEF KnownIsOld, NoNewer
<1>5. AllKeyed
  BY EmptyIsTable DEF Init, AllKeyed
<1>6. OneTask
  BY DEF Init, OneTask, Tasks
<1>7. Overtakes /\ Kept
  BY DEF Init, Overtakes, NotOlder, Kept, EmptyTable
<1> QED
  BY <1>1, <1>2, <1>4, <1>5, <1>6, <1>7 DEF IInv

(* What the editor does: the collection only moves on. *)
MovesOn ==
    /\ \A i \in Ids : db'[i] = db[i] \/ db'[i] = NoDoc \/ (db'[i].id = i /\ db'[i].ver = writes + 1)
    /\ writes' \in {writes, writes + 1}
    /\ \A i \in Ids : db'[i] # db[i] /\ db'[i] # NoDoc => writes' = writes + 1
    /\ UNCHANGED <<cache, building, pending, listener, startup, scan>>

LEMMA MovesOnStep == IInv /\ Types' /\ MovesOn => IInv'
<1> SUFFICES ASSUME IInv, Types', MovesOn PROVE IInv'
  OBVIOUS
<1> USE DEF IInv
<1>1. StoreNamed'
  <2> SUFFICES ASSUME NEW i \in Ids, db'[i] # NoDoc
               PROVE  db'[i].id = i /\ db'[i].ver <= writes'
    BY DEF StoreNamed
  <2>1. CASE db'[i] # db[i]
    BY <2>1 DEF MovesOn, Types
  <2>2. CASE db'[i] = db[i]
    <3>1. db[i].id = i /\ db[i].ver <= writes /\ db[i].ver \in Nat
      BY <2>2 DEF StoreNamed, Types, Docs
    <3> QED
      BY <2>2, <3>1 DEF MovesOn, Types
  <2> QED
    BY <2>1, <2>2
<1>2. Known' = Known
  BY DEF Known, MovesOn
<1>3. \A d \in Known : d # NoDoc => d \in Docs
  BY DEF Known, Types, Tables
<1>4. KnownIsOld'
  <2> SUFFICES ASSUME NEW d \in Known, d # NoDoc
               PROVE  d.ver <= writes' /\ (db'[d.id] # NoDoc => d.ver <= db'[d.id].ver)
    BY <1>2 DEF KnownIsOld, NoNewer
  <2>1. /\ d.ver <= writes /\ d.ver \in Nat /\ d.id \in Ids
        /\ db[d.id] # NoDoc => d.ver <= db[d.id].ver
    BY <1>3 DEF KnownIsOld, NoNewer, Docs
  <2> QED
    BY <2>1 DEF MovesOn, Types
<1>5. AllKeyed' /\ OneTask' /\ Overtakes'
  BY DEF AllKeyed, OneTask, Overtakes, MovesOn, Keyed
<1>6. Kept'
  <2> SUFFICES ASSUME listener' = "reloading", NEW k \in Keys,
                      cache[k] # NoDoc, db'[cache[k].id] = cache[k],
                      cache[k].id \notin scan["listener"]
               PROVE  building["listener"][k] # NoDoc
    BY DEF Kept, MovesOn
  <2>1. cache[k] \in Known /\ cache[k] \in Docs
    BY <1>3 DEF Known
  <2>2. cache[k].ver <= writes /\ cache[k].id \in Ids /\ cache[k].ver \in Nat
    BY <2>1 DEF KnownIsOld, NoNewer, Docs
  <2>3. db[cache[k].id] = cache[k]
    BY <2>2 DEF MovesOn, Types
  <2> QED
    BY <2>3 DEF Kept, MovesOn
<1> QED
  BY <1>1, <1>4, <1>5, <1>6

LEMMA EditMovesOn == IInv /\ (Edit \/ Publish) => MovesOn /\ Types'
<1> SUFFICES ASSUME IInv, Edit \/ Publish PROVE MovesOn /\ Types'
  OBVIOUS
<1> USE DEF IInv, Types, MovesOn, gateway
<1>1. ASSUME NEW i \in Ids, NEW path \in Paths, NEW methods \in MethodSets,
             Store(i, path, methods)
      PROVE  MovesOn /\ Types'
  <2> DEFINE d == [id |-> i, path |-> path, methods |-> methods, ver |-> writes + 1]
  <2>1. d \in Docs /\ d.id = i /\ d.ver = writes + 1
    BY <1>1, ConfigAssumption DEF Store, Docs
  <2>2. /\ db' = [db EXCEPT ![i] = d] /\ writes' = writes + 1
        /\ UNCHANGED <<queue, cache, building, pending, listener, startup, scan>>
    BY <1>1 DEF Store
  <2> HIDE DEF d
  <2> QED
    BY <2>1, <2>2
<1>2. ASSUME NEW i \in Ids, Remove(i) PROVE MovesOn /\ Types'
  BY <1>2 DEF Remove
<1>3. ASSUME NEW i \in Ids, NEW tenant \in EventTenants, NEW env \in EventEnvs,
             NEW kind \in {"upsert", "delete"}, Send(kind, i, tenant, env)
      PROVE  MovesOn /\ Types'
  <2>1. [kind |-> kind, id |-> i, tenant |-> tenant, env |-> env] \in Events
    BY ConfigAssumption DEF Events
  <2>2. queue' \in Seq(Events)
    BY <1>3, <2>1 DEF Send
  <2> QED
    BY <1>3, <2>2 DEF Send
<1>4. CASE Publish
  BY <1>3, <1>4 DEF Publish, Announce
<1>5. CASE Edit
  BY <1>1, <1>2, <1>3, <1>5 DEF Edit, AnnounceFirst
<1> QED
  BY <1>4, <1>5

-----------------------------------------------------------------------------
(* The gateway's steps: db and writes stay, the rest is one task's.        *)

(* What is read from the collection is as new as anything held. *)
LEMMA ReadIsNew ==
    ASSUME IInv, NEW i \in Ids
    PROVE  /\ NoNewer(db[i], db, writes)
           /\ \A d \in Known : NotOlder(d, db[i])
           /\ db[i] # NoDoc => db[i] \in Docs /\ db[i].id = i
<1>1. db[i] # NoDoc => db[i] \in Docs /\ db[i].id = i /\ db[i].ver <= writes /\ db[i].ver \in Nat
  BY DEF IInv, Types, StoreNamed, Docs
<1>2. NoNewer(db[i], db, writes)
  BY <1>1 DEF NoNewer
<1>3. \A d \in Known : NotOlder(d, db[i])
  <2> SUFFICES ASSUME NEW d \in Known, d # NoDoc, db[i] # NoDoc, db[i].id = d.id
               PROVE  db[i].ver >= d.ver
    BY DEF NotOlder
  <2>1. d.ver <= db[d.id].ver /\ d.id = i
    BY <1>1 DEF IInv, KnownIsOld, NoNewer
  <2>2. d \in Docs
    BY DEF IInv, Known, Types, Tables
  <2>3. d.ver \in Nat
    BY <2>2 DEF Docs
  <2> QED
    BY <1>1, <2>1, <2>3
<1> QED
  BY <1>1, <1>2, <1>3

LEMMA PutFacts ==
    ASSUME NEW table \in Tables, Keyed(table), NEW d \in Docs
    PROVE  /\ Put(table, d) \in Tables /\ Keyed(Put(table, d))
           /\ \A k \in Keys : /\ Put(table, d)[k] \in {d, table[k]}
                              /\ d # NoDoc /\ table[k] # NoDoc => Put(table, d)[k] # NoDoc
                              /\ k \in KeysOf(d) => Put(table, d)[k] = d
BY DEF Put, Tables, Keyed

LEMMA ReadNextStep ==
    ASSUME IInv, NEW t \in Tasks, NEW i \in Ids, ReadNext(t, i)
    PROVE  IInv'
<1> USE DEF IInv
<1>1. /\ UNCHANGED <<db, writes, queue, cache, startup, listener, pending>>
      /\ scan' = [scan EXCEPT ![t] = scan[t] \ {i}]
      /\ Loading(t) /\ i \in scan[t]
  BY DEF ReadNext, editor
<1>2. /\ NoNewer(db[i], db, writes)
      /\ \A d \in Known : NotOlder(d, db[i])
      /\ db[i] # NoDoc => db[i] \in Docs /\ db[i].id = i
  BY ReadIsNew
<1>3. building[t] \in Tables /\ Keyed(building[t])
  BY DEF Types, AllKeyed
<1>4. PICK new \in Tables :
        /\ building' = [building EXCEPT ![t] = new] /\ Keyed(new)
        /\ \A k \in Keys : /\ new[k] \in {db[i], building[t][k]}
                           /\ building[t][k] # NoDoc => new[k] # NoDoc
                           /\ db[i] # NoDoc /\ k \in KeysOf(db[i]) => new[k] = db[i]
  <2>1. CASE db[i] = NoDoc
    <3>1. building' = [building EXCEPT ![t] = building[t]]
      BY <2>1 DEF ReadNext, Types
    <3> QED
      BY <1>3, <2>1, <3>1
  <2>2. CASE db[i] # NoDoc
    <3> DEFINE table == Put(building[t], db[i])
    <3>1. building' = [building EXCEPT ![t] = table]
      BY <2>2 DEF ReadNext
    <3>2. /\ table \in Tables /\ Keyed(table)
          /\ \A k \in Keys : /\ table[k] \in {db[i], building[t][k]}
                             /\ building[t][k] # NoDoc => table[k] # NoDoc
                             /\ k \in KeysOf(db[i]) => table[k] = db[i]
      <4> HIDE DEF table
      <4> USE <1>2, <1>3, <2>2
      <4> QED
        BY PutFacts DEF table
    <3> HIDE DEF table
    <3> QED
      BY <3>1, <3>2
  <2> QED
    BY <2>1, <2>2
<1>5. Types'
  BY <1>1, <1>4 DEF Types
<1>6. StoreNamed'
  BY <1>1 DEF StoreNamed
<1>7. Known' \subseteq Known \cup {db[i]}
  BY <1>1, <1>4 DEF Known, Types
<1>8. KnownIsOld'
  BY <1>1, <1>2, <1>7 DEF KnownIsOld
<1>9. AllKeyed'
  BY <1>1, <1>4 DEF AllKeyed, Types
<1>10. OneTask'
  BY <1>1, <1>4 DEF OneTask, Loading, Types, Tasks
<1>11. Overtakes'
  <2> SUFFICES ASSUME NEW k \in Keys
               PROVE  NotOlder(cache[k], building'["listener"][k]) /\ NotOlder(cache[k], pending.doc)
    BY <1>1 DEF Overtakes
  <2>1. cache[k] \in Known
    BY DEF Known
  <2>2. building'["listener"][k] \in {db[i], building["listener"][k]}
    BY <1>4 DEF Types, Tasks
  <2> QED
    BY <1>2, <2>1, <2>2 DEF Overtakes
<1>12. Kept'
  <2> SUFFICES ASSUME listener = "reloading", NEW k \in Keys,
                      cache[k] # NoDoc, db[cache[k].id] = cache[k],
                      cache[k].id \notin scan'["listener"]
               PROVE  building'["listener"][k] # NoDoc
    BY <1>1 DEF Kept
  <2>1. t = "listener"
    BY <1>1 DEF Loading, OneTask, Tasks
  <2>2. building'["listener"][k] = new[k]
    BY <1>4, <2>1 DEF Types, Tasks
  <2>3. CASE cache[k].id = i
    BY <1>2, <1>4, <2>2, <2>3 DEF AllKeyed, Keyed
  <2>4. CASE cache[k].id # i
    BY <1>1, <1>4, <2>1, <2>2, <2>4 DEF Kept, Types, Tasks
  <2> QED
    BY <2>3, <2>4
<1> QED
  BY <1>5, <1>6, <1>8, <1>9, <1>10, <1>11, <1>12

(* The end of a full load, that of startup() included. *)
LEMMA SwapStep ==
    ASSUME IInv, NEW t \in Tasks, Swap(t)
    PROVE  IInv'
<1> USE DEF IInv
<1>1. /\ UNCHANGED <<db, writes, queue, pending>> /\ Loading(t)
      /\ cache' = building[t] /\ building' = [building EXCEPT ![t] = EmptyTable]
      /\ scan' = [scan EXCEPT ![t] = {}]
      /\ startup' \in {startup, "done"} /\ startup' # "loading"
      /\ listener' = IF t = "listener" THEN "listening" ELSE listener
  BY DEF Swap, editor, Loading, OneTask, Types, Tasks
<1>2. building'["listener"] = EmptyTable /\ listener' \notin {"applying", "reloading"}
      /\ pending = Nothing
  BY <1>1 DEF OneTask, Loading, Types, Tasks
<1>3. Types'
  BY <1>1, EmptyIsTable DEF Types
<1>4. Known' \subseteq Known \cup {NoDoc}
  BY <1>1 DEF Known, Types, EmptyTable
<1>5. KnownIsOld'
  BY <1>1, <1>4 DEF KnownIsOld, NoNewer
<1>6. AllKeyed'
  BY <1>1, EmptyIsTable DEF AllKeyed, Types
<1>7. OneTask'
  BY <1>1, <1>2 DEF OneTask
<1>8. Overtakes' /\ Kept' /\ StoreNamed'
  BY <1>1, <1>2 DEF Overtakes, NotOlder, Kept, EmptyTable, Nothing, StoreNamed
<1> QED
  BY <1>3, <1>5, <1>6, <1>7, <1>8

LEMMA ReceiveStep == IInv /\ Receive => IInv'
<1> SUFFICES ASSUME IInv, Receive PROVE IInv'
  OBVIOUS
<1> USE DEF IInv
<1>1. /\ UNCHANGED <<db, writes, cache, startup, building>>
      /\ listener = "listening" /\ queue # <<>> /\ queue' = Tail(queue)
      /\ building["listener"] = EmptyTable
  BY DEF Receive, editor, OneTask
<1>2. Head(queue) \in Events /\ queue' \in Seq(Events)
  BY <1>1 DEF Types
<1>3. StoreNamed' /\ AllKeyed'
  BY <1>1 DEF StoreNamed, AllKeyed
<1>4. CASE UNCHANGED <<listener, scan, pending>>
  BY <1>1, <1>2, <1>3, <1>4
     DEF Types, KnownIsOld, Known, OneTask, Overtakes, Kept
<1>5. ASSUME NEW e \in Events, listener' = "applying", UNCHANGED scan,
             pending' = [kind |-> e.kind, doc |-> Found(e)]
      PROVE  IInv'
  <2>1. e.kind \in {"upsert", "delete"} /\ e.id \in Ids
    BY DEF Events
  <2>2. pending'.doc \in {NoDoc, db[e.id]} /\ pending'.kind = e.kind
    BY <1>5 DEF Found
  <2>3. Types'
    BY <1>1, <1>2, <1>5, <2>1 DEF Types, Found
  <2>4. Known' \subseteq Known \cup {NoDoc, db[e.id]}
    BY <1>1, <2>2 DEF Known
  <2>5. KnownIsOld'
    BY <1>1, <2>1, <2>4, ReadIsNew DEF KnownIsOld, NoNewer
  <2>6. OneTask'
    BY <1>1, <1>5, <2>1, <2>2 DEF OneTask
  <2>7. ASSUME NEW k \in Keys
        PROVE  NotOlder(cache[k], building["listener"][k]) /\ NotOlder(cache[k], pending'.doc)
    <3>1. cache[k] \in Known
      BY DEF Known
    <3>2. NotOlder(cache[k], db[e.id]) /\ NotOlder(cache[k], NoDoc)
      BY <2>1, <3>1, ReadIsNew DEF NotOlder
    <3> QED
      BY <2>2, <3>2 DEF Overtakes
  <2>8. Overtakes' /\ Kept'
    BY <1>1, <1>5, <2>7 DEF Overtakes, Kept
  <2> QED
    BY <1>3, <2>3, <2>5, <2>6, <2>8
<1>6. CASE listener' = "reloading" /\ scan' = [scan EXCEPT !["listener"] = Ids]
           /\ UNCHANGED pending
  <2>1. Types'
    BY <1>1, <1>2, <1>6 DEF Types
  <2>2. KnownIsOld' /\ OneTask' /\ Overtakes'
    BY <1>1, <1>6 DEF KnownIsOld, Known, OneTask, Overtakes
  <2>3. Kept'
    <3>1. \A k \in Keys : cache[k] # NoDoc => cache[k].id \in Ids
      BY DEF Types, Tables, Docs
    <3>2. scan'["listener"] = Ids
      BY <1>6 DEF Types, Tasks
    <3> QED
      BY <1>1, <3>1, <3>2 DEF Kept
  <2> QED
    BY <1>3, <2>1, <2>2, <2>3
<1> QED
  BY <1>2, <1>4, <1>5, <1>6 DEF Receive

LEMMA ApplyStep == IInv /\ Apply => IInv'
<1> SUFFICES ASSUME IInv, Apply PROVE IInv'
  OBVIOUS
<1> USE DEF IInv
<1>1. /\ UNCHANGED <<db, writes, queue, startup, scan, building>>
      /\ listener = "applying" /\ listener' = "listening" /\ pending' = Nothing
      /\ building["listener"] = EmptyTable /\ startup # "loading"
  BY DEF Apply, editor, OneTask
<1>2. /\ cache' \in Tables /\ Keyed(cache')
      /\ \A k \in Keys : cache'[k] \in {NoDoc, cache[k], pending.doc}
  <2>1. CASE pending.doc = NoDoc
    BY <2>1 DEF Apply, Applied, Types, AllKeyed
  <2>2. CASE pending.doc # NoDoc /\ pending.kind = "upsert"
    <3>1. cache' = Put(cache, pending.doc) /\ pending.doc \in Docs
      BY <2>2 DEF Apply, Applied, Types
    <3> QED
      BY <3>1, PutFacts DEF Types, AllKeyed
  <2>3. CASE pending.doc # NoDoc /\ pending.kind # "upsert"
    <3>1. cache' = Without(cache, DeletedKeys(pending.doc))
      BY <2>3 DEF Apply, Applied
    <3> QED
      BY <3>1 DEF Without, Types, Tables, AllKeyed, Keyed
  <2> QED
    BY <2>1, <2>2, <2>3
<1>3. Types'
  BY <1>1, <1>2 DEF Types, Nothing
<1>4. Known' \subseteq Known \cup {NoDoc}
  BY <1>1, <1>2 DEF Known, Nothing
<1>5. KnownIsOld' /\ StoreNamed' /\ AllKeyed'
  BY <1>1, <1>2, <1>4 DEF KnownIsOld, NoNewer, StoreNamed, AllKeyed
<1>6. OneTask' /\ Overtakes' /\ Kept'
  BY <1>1 DEF OneTask, Overtakes, NotOlder, Kept, EmptyTable, Nothing
<1> QED
  BY <1>3, <1>5, <1>6

LEMMA FaultStep == IInv /\ (StartupFails \/ ListenerDies \/ Subscribe) => IInv'
<1> SUFFICES ASSUME IInv, StartupFails \/ ListenerDies \/ Subscribe PROVE IInv'
  OBVIOUS
<1> USE DEF IInv
<1>1. UNCHANGED <<db, writes, cache>> /\ listener' # "reloading"
  BY DEF StartupFails, ListenerDies, Subscribe, editor, OneTask
<1>2. \A t \in Tasks : building'[t] \in {building[t], EmptyTable}
  BY DEF StartupFails, ListenerDies, Subscribe, Types
<1>3. pending' \in {pending, Nothing}
  BY DEF StartupFails, ListenerDies, Subscribe
<1>4. OneTask'
  BY DEF StartupFails, ListenerDies, Subscribe, MaySubscribe, Subscribed, OneTask, Types, Tasks
<1>5. Types'
  <2> USE EmptyIsTable DEF Types, editor
  <2>1. CASE StartupFails
    BY <2>1 DEF StartupFails
  <2>2. CASE ListenerDies
    <3>1. queue' \in Seq(Events)
      BY <2>2 DEF ListenerDies
    <3>2. /\ scan' \in [Tasks -> SUBSET Ids] /\ building' \in [Tasks -> Tables]
          /\ pending' \in [kind : {"upsert", "delete", "nothing"}, doc : Docs \cup {NoDoc}]
      BY <2>2 DEF ListenerDies, Nothing
    <3> QED
      BY <2>2, <3>1, <3>2 DEF ListenerDies
  <2>3. CASE Subscribe
    BY <2>3 DEF Subscribe
  <2> QED
    BY <2>1, <2>2, <2>3
<1>6. Known' \subseteq Known \cup {NoDoc}
  BY <1>1, <1>2, <1>3 DEF Known, EmptyTable, Nothing
<1>7. KnownIsOld' /\ StoreNamed' /\ Kept'
  BY <1>1, <1>6 DEF KnownIsOld, NoNewer, StoreNamed, Kept
<1>8. AllKeyed'
  BY <1>1, <1>2, EmptyIsTable DEF AllKeyed
<1>9. Overtakes'
  BY <1>1, <1>2, <1>3 DEF Overtakes, NotOlder, EmptyTable, Nothing, Tasks
<1> QED
  BY <1>4, <1>5, <1>7, <1>8, <1>9

LEMMA Inductive == IInv /\ [Next]_vars => IInv'
<1>1. ASSUME IInv, Load("startup") \/ Load("listener") PROVE IInv'
  BY <1>1, ReadNextStep, SwapStep DEF Load, Tasks
<1>2. ASSUME IInv, UNCHANGED vars PROVE IInv'
  BY <1>2 DEF vars, IInv, Types, StoreNamed, KnownIsOld, Known, AllKeyed, OneTask, Overtakes, Kept
<1> QED
  BY <1>1, <1>2, EditMovesOn, MovesOnStep, ReceiveStep, ApplyStep, FaultStep DEF Next, Listen

-----------------------------------------------------------------------------

NoRegression ==
    \A k \in Keys :
        (cache[k] # NoDoc /\ cache'[k] # NoDoc /\ cache'[k].id = cache[k].id)
            => cache'[k].ver >= cache[k].ver

RoutesStay ==
    \A k \in Keys :
        (cache[k] # NoDoc /\ db[cache[k].id] = cache[k] /\ cache'[k] = NoDoc)
            => pending.kind = "delete"

(* Three steps change the table: the two swaps and an event applied. *)
LEMMA TableSteps ==
    ASSUME IInv, [Next]_vars
    PROVE  \/ UNCHANGED cache
           \/ cache = EmptyTable
           \/ listener = "reloading" /\ scan["listener"] = {} /\ cache' = building["listener"]
           \/ Apply
<1>1. CASE Edit \/ Publish
  BY <1>1, EditMovesOn DEF MovesOn
<1>2. ASSUME NEW t \in Tasks, Load(t)
      PROVE  \/ UNCHANGED cache
             \/ cache = EmptyTable
             \/ /\ listener = "reloading" /\ scan["listener"] = {}
                /\ cache' = building["listener"]
  BY <1>2 DEF Load, ReadNext, Swap, ScanDone, Loading, IInv, OneTask, Tasks
<1> QED
  BY <1>1, <1>2 DEF Next, Listen, Receive, Subscribe, StartupFails, ListenerDies, vars, Tasks

LEMMA AppliedFacts ==
    ASSUME IInv, Apply
    PROVE  \A k \in Keys :
              /\ cache'[k] \in {NoDoc, cache[k], pending.doc}
              /\ cache[k] # NoDoc /\ cache'[k] = NoDoc => pending.kind = "delete"
<1>1. pending.kind \in {"upsert", "delete"} /\ cache \in Tables /\ Keyed(cache)
      /\ (pending.doc # NoDoc => pending.doc \in Docs)
      /\ cache' = Applied(pending.kind, pending.doc)
  BY DEF IInv, Types, OneTask, AllKeyed, Apply
<1>2. CASE pending.doc = NoDoc
  BY <1>1, <1>2 DEF Applied
<1>3. CASE pending.doc # NoDoc /\ pending.kind = "upsert"
  <2>1. cache' = Put(cache, pending.doc)
    BY <1>1, <1>3 DEF Applied
  <2> QED
    BY <1>1, <1>3, <2>1 DEF Put
<1>4. CASE pending.doc # NoDoc /\ pending.kind = "delete"
  <2>1. cache' = Without(cache, DeletedKeys(pending.doc))
    BY <1>1, <1>4 DEF Applied
  <2> QED
    BY <1>4, <2>1 DEF Without
<1> QED
  BY <1>1, <1>2, <1>3, <1>4

LEMMA StepIsSafe == IInv /\ [Next]_vars => NoRegression /\ RoutesStay
<1> SUFFICES ASSUME IInv, [Next]_vars, NEW k \in Keys, cache[k] # NoDoc
             PROVE  /\ cache'[k] # NoDoc /\ cache'[k].id = cache[k].id
                           => cache'[k].ver >= cache[k].ver
                    /\ db[cache[k].id] = cache[k] /\ cache'[k] = NoDoc
                           => pending.kind = "delete"
  BY DEF NoRegression, RoutesStay
<1>1. cache[k].ver \in Nat /\ cache[k].id \in Ids
  BY DEF IInv, Types, Tables, Docs
<1>2. CASE UNCHANGED cache
  BY <1>1, <1>2
<1>3. CASE cache = EmptyTable
  BY <1>3 DEF EmptyTable
<1>4. CASE listener = "reloading" /\ scan["listener"] = {} /\ cache' = building["listener"]
  BY <1>4 DEF IInv, Overtakes, NotOlder, Kept
<1>5. CASE Apply
  <2>1. /\ cache'[k] \in {NoDoc, cache[k], pending.doc}
        /\ cache'[k] = NoDoc => pending.kind = "delete"
    BY <1>5, AppliedFacts
  <2>2. NotOlder(cache[k], pending.doc)
    BY DEF IInv, Overtakes
  <2> QED
    BY <1>1, <2>1, <2>2 DEF NotOlder
<1> QED
  BY <1>2, <1>3, <1>4, <1>5, TableSteps

(* Whatever the editor does and however loads, events, edits and failures  *)
(* of the tasks overlap, a version served at a key is never replaced there *)
(* by an older version of the same document.                               *)
THEOREM VersionsOnlyRise == Spec => NoVersionRegression
<1>1. Init => IInv
  BY Initially
<1>2. IInv /\ [Next]_vars => IInv'
  BY Inductive
<1>3. IInv /\ [Next]_vars => [NoRegression]_vars
  BY StepIsSafe
<1>4. Spec => [][NoRegression]_vars
  BY <1>1, <1>2, <1>3, PTL DEF Spec
<1> QED
  BY <1>4 DEF NoVersionRegression, NoRegression

(* Under the same conditions a route that is stored as it is served stops  *)
(* being served only by a delete event: no full load drops it for a while. *)
THEOREM StoredRoutesStay == Spec => UnchangedRoutesStay
<1>1. Init => IInv
  BY Initially
<1>2. IInv /\ [Next]_vars => IInv'
  BY Inductive
<1>3. IInv /\ [Next]_vars => [RoutesStay]_vars
  BY StepIsSafe
<1>4. Spec => [][RoutesStay]_vars
  BY <1>1, <1>2, <1>3, PTL DEF Spec
<1> QED
  BY <1>4 DEF UnchangedRoutesStay, RoutesStay
-----------------------------------------------------------------------------
(* What an announced document is owed: at a key no edit has taken from a   *)
(* document, the table has it or is about to.                              *)

(* The documents that are stored at a key. *)
Holders(k) == {i \in Ids : db[i] # NoDoc /\ k \in KeysOf(db[i])}

(* An event that makes the listener read the document i. *)
Useful(e, i) ==
    /\ e.kind = "upsert" /\ e.id = i /\ ShouldProcess(e)
    /\ e.tenant => i \in Tenanted

(* After the n-th message the listener will read i, or it is not expected  *)
(* to: i has still to be announced, or the announcement is lost.           *)
LaterThan(i, n) ==
    owed[i] = "upsert" \/ i \in lost \/ \E m \in DOMAIN queue : m > n /\ Useful(queue[m], i)

Later(i) == LaterThan(i, 0)

(* The table gets i at k. *)
Due(k, i) ==
    \/ Later(i)
    \/ /\ pending.kind = "upsert" /\ pending.doc # NoDoc
       /\ pending.doc.id = i /\ k \in KeysOf(pending.doc)

(* Not while a load is going to replace the table, nor without a listener. *)
Settled == startup = "done" /\ listener \notin {"reloading", "dead"}

TableServes(k) ==
    Settled =>
        IF cache[k] = NoDoc THEN Holders(k) = {} \/ \E i \in Holders(k) : Due(k, i)
        ELSE /\ cache[k].id \in Holders(k)
             /\ cache[k] = db[cache[k].id] \/ Due(k, cache[k].id)

LoadServes(k) ==
    \A t \in Tasks : Loading(t) =>
        IF building[t][k] = NoDoc THEN \A i \in Holders(k) : i \in scan[t] \/ Later(i)
        ELSE /\ building[t][k].id \in Holders(k)
             /\ building[t][k] = db[building[t][k].id] \/ Later(building[t][k].id)

PendingServes(k) ==
    pending.doc # NoDoc /\ k \in KeysOf(pending.doc) =>
        /\ pending.doc.id \in Holders(k)
        /\ \/ Later(pending.doc.id)
           \/ pending.kind = "upsert" /\ pending.doc = db[pending.doc.id]

(* A removal that finds its document stored again is followed by an upsert. *)
QueueServes(k) ==
    \A n \in DOMAIN queue, i \in Holders(k) :
        queue[n].kind = "delete" /\ queue[n].id = i => LaterThan(i, n)

Serves(k) == TableServes(k) /\ LoadServes(k) /\ PendingServes(k) /\ QueueServes(k)

Owing ==
    /\ owed \in [Ids -> {"nothing", "upsert", "delete", "remove"}]
    /\ \A i \in Ids : owed[i] = "delete" => db[i] = NoDoc

Delivery == Owing /\ \A k \in Keys \ left : Serves(k)

LEMMA DeliveryInitially == Init => Delivery
<1> SUFFICES ASSUME Init PROVE Delivery
  OBVIOUS
<1>1. Owing
  BY DEF Init, Owing
<1>2. ASSUME NEW k \in Keys PROVE Serves(k)
  <2>1. TableServes(k) /\ PendingServes(k) /\ QueueServes(k)
    BY DEF Init, TableServes, Settled, PendingServes, Nothing, QueueServes
  <2>2. LoadServes(k)
    BY DEF Init, LoadServes, Loading, Tasks, EmptyTable, Holders
  <2> QED
    BY <2>1, <2>2 DEF Serves
<1> QED
  BY <1>1, <1>2 DEF Delivery

(* The editor's steps take no key from a document but those of left, and   *)
(* owe what they store.                                                    *)
Owes(k) ==
    /\ Holders(k) \subseteq Holders(k)'
    /\ \A i \in Ids : i \in Holders(k)' =>
          Later(i)' \/ (i \in Holders(k) /\ db'[i] = db[i])
    /\ \A i \in Holders(k) : Later(i) => Later(i)'
    /\ QueueServes(k)'

LEMMA EditorKeeps ==
    ASSUME Delivery, UNCHANGED gateway, Owing', left \subseteq left',
           \A k \in Keys \ left' : Owes(k)
    PROVE  Delivery'
<1> SUFFICES ASSUME NEW k \in Keys \ left' PROVE Serves(k)'
  BY DEF Delivery
<1>1. Serves(k) /\ Owes(k)
  BY DEF Delivery
<1>2. Holders(k) \subseteq Ids /\ Holders(k)' \subseteq Ids
  BY DEF Holders
<1>3. TableServes(k)'
  BY <1>1, <1>2 DEF Serves, Owes, TableServes, Due, Settled, gateway
<1>4. LoadServes(k)'
  BY <1>1, <1>2 DEF Serves, Owes, LoadServes, Loading, gateway
<1>5. PendingServes(k)'
  BY <1>1, <1>2 DEF Serves, Owes, PendingServes, gateway
<1> QED
  BY <1>1, <1>3, <1>4, <1>5 DEF Serves, Owes

(* A step that adds to the queue, if at all, and leaves i's account alone  *)
(* or is about to announce it.                                             *)
Extends ==
    /\ DOMAIN queue \subseteq DOMAIN queue'
    /\ \A n \in DOMAIN queue : queue'[n] = queue[n]

LEMMA LaterLasts ==
    ASSUME Extends, NEW i \in Ids, NEW n, LaterThan(i, n),
           owed[i] = "upsert" => owed'[i] = "upsert", i \in lost => i \in lost'
    PROVE  LaterThan(i, n)'
BY DEF Extends, LaterThan

LEMMA StoreKeeps ==
    ASSUME IInv, Delivery, NEW i \in Ids, NEW path \in Paths, NEW methods \in MethodSets,
           Store(i, path, methods)
    PROVE  Delivery'
<1> DEFINE d == [id |-> i, path |-> path, methods |-> methods, ver |-> writes + 1]
<1>1. /\ db' = [db EXCEPT ![i] = d] /\ left' = left \cup (KeysAt(i) \ KeysOf(d))
      /\ owed' = [owed EXCEPT ![i] = "upsert"]
      /\ UNCHANGED gateway /\ UNCHANGED queue /\ UNCHANGED lost
  BY DEF Store
<1>2. d # NoDoc
  BY DEF NoDoc
<1> HIDE DEF d
<1>3. db'[i] = d /\ \A j \in Ids : j # i => db'[j] = db[j] /\ owed'[j] = owed[j]
  BY <1>1 DEF IInv, Types, Delivery, Owing
<1>4. owed'[i] = "upsert" /\ Owing'
  BY <1>1, <1>3 DEF Delivery, Owing
<1>5. Extends
  BY <1>1 DEF Extends
<1>6. ASSUME NEW j \in Ids, NEW n, LaterThan(j, n) PROVE LaterThan(j, n)'
  BY <1>1, <1>3, <1>4, <1>5, <1>6, LaterLasts
<1>7. Later(i)' /\ \A n : LaterThan(i, n)'
  BY <1>4 DEF Later, LaterThan
<1>8. ASSUME NEW k \in Keys \ left' PROVE Owes(k)
  <2>1. k \in Keys \ left /\ Serves(k)
    BY <1>1 DEF Delivery
  <2>2. i \in Holders(k) => k \in KeysOf(d)
    BY <1>1 DEF Holders, KeysAt
  <2>3. Holders(k) \subseteq Holders(k)'
    BY <1>2, <1>3, <2>2 DEF Holders
  <2>4. \A j \in Ids : j \in Holders(k)' => Later(j)' \/ (j \in Holders(k) /\ db'[j] = db[j])
    BY <1>3, <1>7 DEF Holders
  <2>5. \A j \in Holders(k) : Later(j) => Later(j)'
    BY <1>6 DEF Later, Holders
  <2>6. ASSUME NEW n \in DOMAIN queue, NEW j \in Holders(k)',
               queue[n].kind = "delete", queue[n].id = j
        PROVE  LaterThan(j, n)'
    <3>1. j \in Ids
      BY DEF Holders
    <3>2. CASE j # i
      <4>1. j \in Holders(k)
        BY <1>3, <3>1, <3>2 DEF Holders
      <4>2. LaterThan(j, n)
        BY <2>1, <2>6, <4>1 DEF Serves, QueueServes
      <4> QED
        BY <1>6, <3>1, <4>2
    <3> QED
      BY <1>7, <3>2
  <2>7. QueueServes(k)'
    BY <1>1, <2>6 DEF QueueServes
  <2> QED
    BY <2>3, <2>4, <2>5, <2>7 DEF Owes
<1> QED
  BY <1>1, <1>4, <1>8, EditorKeeps

LEMMA RemoveKeeps ==
    ASSUME IInv, Delivery, NEW i \in Ids, Remove(i)
    PROVE  Delivery'
<1>1. /\ db' = [db EXCEPT ![i] = NoDoc] /\ left' = left \cup KeysAt(i) /\ db[i] # NoDoc
      /\ UNCHANGED gateway /\ UNCHANGED queue /\ UNCHANGED lost
      /\ \E o \in {"delete", "nothing"} : owed' = [owed EXCEPT ![i] = o]
  BY DEF Remove
<1>2. db'[i] = NoDoc /\ \A j \in Ids : j # i => db'[j] = db[j] /\ owed'[j] = owed[j]
  BY <1>1 DEF IInv, Types, Delivery, Owing
<1>3. Owing'
  BY <1>1, <1>2 DEF Delivery, Owing
<1>4. Extends
  BY <1>1 DEF Extends
<1>5. ASSUME NEW j \in Ids, j # i, NEW n, LaterThan(j, n) PROVE LaterThan(j, n)'
  BY <1>1, <1>2, <1>4, <1>5, LaterLasts
<1>6. ASSUME NEW k \in Keys \ left' PROVE Owes(k)
  <2>1. k \in Keys \ left /\ Serves(k) /\ i \notin Holders(k)
    BY <1>1 DEF Delivery, Holders, KeysAt
  <2>2. Holders(k)' = Holders(k) /\ Holders(k) \subseteq Ids \ {i}
    BY <1>2, <2>1 DEF Holders
  <2>3. \A j \in Ids : j \in Holders(k)' => Later(j)' \/ (j \in Holders(k) /\ db'[j] = db[j])
    BY <1>2, <2>2
  <2>4. \A j \in Holders(k) : Later(j) => Later(j)'
    BY <1>5, <2>2 DEF Later
  <2>5. QueueServes(k)'
    BY <1>1, <1>5, <2>1, <2>2 DEF Serves, QueueServes
  <2> QED
    BY <2>2, <2>3, <2>4, <2>5 DEF Owes
<1> QED
  BY <1>1, <1>3, <1>6, EditorKeeps

(* OurEnvs names the gateway's environment by its aliases, or not at all.  *)
Aliases == {{"prod", "prd", "production"},
            {"hml", "homolog", "homologacao", "stg", "staging"}}

OursIsMeant == \A env \in OurEnvs \ {""} : \E C \in Aliases : AppEnv \in C /\ env \in C

LEMMA MeantIsHeard ==
    ASSUME OursIsMeant, NEW i \in Ids, NEW tenant \in EventTenants, NEW env \in EventEnvs,
           Reaches(i, tenant, env)
    PROVE  Useful([kind |-> "upsert", id |-> i, tenant |-> tenant, env |-> env], i)
<1> DEFINE e == [kind |-> "upsert", id |-> i, tenant |-> tenant, env |-> env]
<1>1. ShouldProcess(e)
  BY DEF Reaches, OursIsMeant, Aliases, ShouldProcess, Normalized
<1> QED
  BY <1>1 DEF Reaches, Useful

LEMMA Sent ==
    ASSUME IInv, NEW kind \in {"upsert", "delete"}, NEW i \in Ids, NEW tenant \in EventTenants,
           NEW env \in EventEnvs, Send(kind, i, tenant, env)
    PROVE  /\ UNCHANGED <<db, gateway>> /\ Extends /\ queue' \in Seq(Events)
           /\ \A n \in DOMAIN queue' : n \in DOMAIN queue
                 \/ queue'[n] = [kind |-> kind, id |-> i, tenant |-> tenant, env |-> env]
           /\ Subscribed =>
                 \E n \in DOMAIN queue' :
                    /\ \A m \in DOMAIN queue : m < n
                    /\ queue'[n] = [kind |-> kind, id |-> i, tenant |-> tenant, env |-> env]
<1> DEFINE e == [kind |-> kind, id |-> i, tenant |-> tenant, env |-> env]
           q == queue'
           N == Len(queue)
<1>1. UNCHANGED <<db, gateway>>
  BY DEF Send
<1>2. e \in Events
  BY ConfigAssumption DEF Events
<1>3. q = IF Subscribed THEN Append(queue, e) ELSE queue
  BY DEF Send
<1>4. queue \in Seq(Events)
  BY DEF IInv, Types
<1> HIDE DEF e, q
<1>5. CASE ~ Subscribed
  BY <1>1, <1>3, <1>4, <1>5 DEF Extends, q, e
<1>6. CASE Subscribed
  <2>1. /\ DOMAIN queue = 1 .. N /\ N \in Nat /\ DOMAIN q = 1 .. N + 1
        /\ q[N + 1] = e /\ \A n \in 1 .. N : q[n] = queue[n]
        /\ q \in Seq(Events)
    BY <1>2, <1>3, <1>4, <1>6
  <2> HIDE DEF N
  <2>2. /\ \A n \in DOMAIN q : n \in DOMAIN queue \/ n = N + 1
        /\ \A m \in DOMAIN queue : m < N + 1 /\ m \in DOMAIN q
        /\ N + 1 \in DOMAIN q
    BY <2>1
  <2> QED
    BY <1>1, <2>1, <2>2 DEF Extends, q, e
<1> QED
  BY <1>5, <1>6

LEMMA AnnounceKeeps ==
    ASSUME OursIsMeant, IInv, Delivery, NEW i \in Ids, NEW tenant \in EventTenants,
           NEW env \in EventEnvs, Announce(i, tenant, env) \/ AnnounceFirst(i, tenant, env)
    PROVE  Delivery'
<1> DEFINE kind == IF Announce(i, tenant, env) THEN owed[i] ELSE "delete"
           e == [kind |-> kind, id |-> i, tenant |-> tenant, env |-> env]
<1>1. kind \in {"upsert", "delete"} /\ Send(kind, i, tenant, env)
  BY DEF Announce, AnnounceFirst
<1>2. /\ left \subseteq left' /\ (kind = "delete" => KeysAt(i) \subseteq left')
      /\ \E o \in {"nothing", "remove"} : owed' = [owed EXCEPT ![i] = o]
      /\ kind = "upsert" =>
            lost' = IF Reaches(i, tenant, env) THEN lost \ {i} ELSE lost \cup {i}
      /\ kind = "delete" => lost' = lost
  BY DEF Announce, AnnounceFirst, Delivery, Owing, KeysAt
<1> HIDE DEF kind, e
<1>3. /\ UNCHANGED <<db, gateway>> /\ Extends /\ queue' \in Seq(Events)
      /\ \A n \in DOMAIN queue' : n \in DOMAIN queue \/ queue'[n] = e
      /\ Subscribed =>
            \E n \in DOMAIN queue' : (\A m \in DOMAIN queue : m < n) /\ queue'[n] = e
  BY <1>1, Sent DEF e
<1>4. \A j \in Ids : j # i => owed'[j] = owed[j] /\ (j \in lost <=> j \in lost')
  BY <1>1, <1>2 DEF Delivery, Owing
<1>5. Owing'
  BY <1>2, <1>3 DEF Delivery, Owing
<1>6. ASSUME NEW j \in Ids, j # i, NEW n, LaterThan(j, n) PROVE LaterThan(j, n)'
  BY <1>3, <1>4, <1>6, LaterLasts
<1>7. ASSUME kind = "upsert", NEW n \in DOMAIN queue \cup {0} PROVE LaterThan(i, n)'
  <2>1. CASE ~ Reaches(i, tenant, env)
    BY <1>2, <1>7, <2>1 DEF LaterThan
  <2>2. CASE Reaches(i, tenant, env)
    <3>1. Useful(e, i)
      BY <1>7, <2>2, MeantIsHeard DEF e
    <3>2. PICK m \in DOMAIN queue' : (\A l \in DOMAIN queue : l < m) /\ queue'[m] = e
      BY <1>3, <2>2 DEF Reaches
    <3>3. m > n
      BY <1>3, <3>2
    <3> QED
      BY <3>1, <3>2, <3>3 DEF LaterThan
  <2> QED
    BY <2>1, <2>2
<1>8. ASSUME NEW k \in Keys \ left' PROVE Owes(k)
  <2>1. k \in Keys \ left /\ Serves(k) /\ (kind = "delete" => i \notin Holders(k))
    BY <1>2 DEF Delivery, Holders, KeysAt
  <2>2. Holders(k)' = Holders(k) /\ Holders(k) \subseteq Ids
    BY <1>3 DEF Holders
  <2>3. \A j \in Holders(k) : Later(j) => Later(j)'
    BY <1>1, <1>6, <1>7, <2>1, <2>2 DEF Later
  <2>4. ASSUME NEW n \in DOMAIN queue', NEW j \in Holders(k),
               queue'[n].kind = "delete", queue'[n].id = j
        PROVE  LaterThan(j, n)'
    <3>1. n \in DOMAIN queue
      BY <1>1, <1>3, <2>1, <2>4 DEF e
    <3>2. LaterThan(j, n)
      BY <1>3, <2>1, <2>4, <3>1 DEF Serves, QueueServes, Extends
    <3> QED
      BY <1>1, <1>6, <1>7, <2>1, <2>2, <3>1, <3>2
  <2>5. QueueServes(k)'
    BY <2>2, <2>4 DEF QueueServes
  <2> QED
    BY <1>3, <2>2, <2>3, <2>5 DEF Owes
<1> QED
  BY <1>2, <1>3, <1>5, <1>8, EditorKeeps

-----------------------------------------------------------------------------
(* The gateway's steps leave the holders alone. *)

(* Every step but taking a message leaves what is to come. *)
Awaited == UNCHANGED <<db, owed, left, lost, queue>>

LEMMA AwaitedLasts ==
    ASSUME Delivery, Awaited
    PROVE  /\ Owing'
           /\ \A k : Holders(k)' = Holders(k) /\ (QueueServes(k) => QueueServes(k)')
           /\ \A i : Later(i)' <=> Later(i)
<1>1. Owing'
  BY DEF Awaited, Delivery, Owing
<1>2. ASSUME NEW i, NEW n PROVE LaterThan(i, n)' <=> LaterThan(i, n)
  BY DEF Awaited, LaterThan
<1>3. ASSUME NEW k PROVE Holders(k)' = Holders(k)
  BY DEF Awaited, Holders
<1>4. ASSUME NEW k, QueueServes(k) PROVE QueueServes(k)'
  BY <1>2, <1>3, <1>4 DEF Awaited, QueueServes
<1> QED
  BY <1>1, <1>2, <1>3, <1>4 DEF Later

LEMMA ReadNextKeeps ==
    ASSUME IInv, Delivery, NEW t \in Tasks, NEW i \in Ids, ReadNext(t, i)
    PROVE  Delivery'
<1>1. /\ Awaited /\ UNCHANGED <<cache, startup, listener, pending>>
      /\ Loading(t) /\ scan' = [scan EXCEPT ![t] = scan[t] \ {i}]
      /\ building' = IF db[i] = NoDoc THEN building
                     ELSE [building EXCEPT ![t] = Put(building[t], db[i])]
  BY DEF ReadNext, editor, history, Awaited
<1>2. ASSUME NEW k \in Keys \ left PROVE Serves(k)'
  <2>1. Serves(k) /\ QueueServes(k)' /\ Holders(k)' = Holders(k) /\ Holders(k) \subseteq Ids
        /\ \A j : Later(j)' <=> Later(j)
    BY <1>1, AwaitedLasts DEF Delivery, Serves, Holders
  <2>2. TableServes(k)' /\ PendingServes(k)'
    BY <1>1, <2>1 DEF Serves, TableServes, PendingServes, Due, Settled, Awaited
  <2>3. ASSUME NEW u \in Tasks, Loading(u)'
        PROVE  IF building'[u][k] = NoDoc
               THEN \A j \in Holders(k) : j \in scan'[u] \/ Later(j)
               ELSE /\ building'[u][k].id \in Holders(k)
                    /\ building'[u][k] = db[building'[u][k].id] \/ Later(building'[u][k].id)
    <3>1. Loading(u)
      BY <1>1, <2>3 DEF Loading
    <3>2. CASE u # t
      <4>1. building'[u] = building[u] /\ scan'[u] = scan[u]
        BY <1>1, <3>2 DEF IInv, Types
      <4> QED
        BY <2>1, <3>1, <4>1 DEF Serves, LoadServes
    <3>3. CASE u = t /\ i \in Holders(k)
      <4>1. db[i] # NoDoc /\ k \in KeysOf(db[i]) /\ db[i].id = i
        BY <3>3 DEF Holders, IInv, StoreNamed
      <4>2. building'[t][k] = db[i]
        BY <1>1, <4>1 DEF Put, IInv, Types
      <4> QED
        BY <3>3, <4>1, <4>2
    <3>4. CASE u = t /\ i \notin Holders(k)
      <4>1. building'[t][k] = building[t][k]
        BY <1>1, <3>4 DEF Put, Holders, IInv, Types, Tables
      <4>2. \A j \in Holders(k) : j \in scan[t] => j \in scan'[t]
        BY <1>1, <3>4 DEF IInv, Types
      <4> QED
        BY <2>1, <3>1, <3>4, <4>1, <4>2 DEF Serves, LoadServes
    <3> QED
      BY <3>2, <3>3, <3>4
  <2>4. LoadServes(k)'
    BY <1>1, <2>1, <2>3 DEF LoadServes, Awaited
  <2> QED
    BY <2>1, <2>2, <2>4 DEF Serves
<1> QED
  BY <1>1, <1>2, AwaitedLasts DEF Delivery, Awaited

LEMMA SwapKeeps ==
    ASSUME IInv, Delivery, NEW t \in Tasks, Swap(t)
    PROVE  Delivery'
<1>1. /\ Awaited /\ UNCHANGED pending /\ Loading(t) /\ scan[t] = {}
      /\ cache' = building[t]
      /\ startup' = (IF t = "startup" THEN "done" ELSE startup)
      /\ listener' = (IF t = "listener" THEN "listening" ELSE listener)
  BY DEF Swap, ScanDone, editor, history, Awaited
<1>2. \A u \in Tasks : ~ Loading(u)'
  BY <1>1 DEF Loading, Tasks, IInv, OneTask
<1>3. ASSUME NEW k \in Keys \ left PROVE Serves(k)'
  <2>1. Serves(k) /\ QueueServes(k)' /\ Holders(k)' = Holders(k)
        /\ \A j : Later(j)' <=> Later(j)
    BY <1>1, AwaitedLasts DEF Delivery, Serves
  <2>2. IF cache'[k] = NoDoc THEN \A j \in Holders(k) : Later(j)
        ELSE /\ cache'[k].id \in Holders(k)
             /\ cache'[k] = db[cache'[k].id] \/ Later(cache'[k].id)
    BY <1>1, <2>1 DEF Serves, LoadServes
  <2>3. TableServes(k)'
    BY <1>1, <2>1, <2>2 DEF TableServes, Due, Awaited
  <2>4. PendingServes(k)' /\ LoadServes(k)'
    BY <1>1, <1>2, <2>1 DEF Serves, PendingServes, LoadServes, Awaited
  <2> QED
    BY <2>1, <2>3, <2>4 DEF Serves
<1> QED
  BY <1>1, <1>3, AwaitedLasts DEF Delivery, Awaited

LEMMA StartKeeps ==
    ASSUME IInv, Delivery, StartupFails \/ Subscribe
    PROVE  Delivery'
<1>1. Awaited /\ UNCHANGED <<cache, pending>> /\ startup \in {"loading", "done"} /\ listener = "off"
  BY DEF StartupFails, Subscribe, MaySubscribe, editor, history, Awaited, IInv, OneTask
<1>2. \A u \in Tasks : ~ Loading(u)'
  BY <1>1 DEF StartupFails, Subscribe, MaySubscribe, Loading, Tasks
<1>3. Settled' => Settled
  BY <1>1 DEF StartupFails, Subscribe, MaySubscribe, Settled
<1>4. ASSUME NEW k \in Keys \ left PROVE Serves(k)'
  <2>1. Serves(k) /\ QueueServes(k)' /\ Holders(k)' = Holders(k)
        /\ \A j : Later(j)' <=> Later(j)
    BY <1>1, AwaitedLasts DEF Delivery, Serves
  <2>2. TableServes(k)'
    BY <1>1, <1>3, <2>1 DEF Serves, TableServes, Due, Awaited
  <2>3. PendingServes(k)' /\ LoadServes(k)'
    BY <1>1, <1>2, <2>1 DEF Serves, PendingServes, LoadServes, Awaited
  <2> QED
    BY <2>1, <2>2, <2>3 DEF Serves
<1> QED
  BY <1>1, <1>4, AwaitedLasts DEF Delivery, Awaited

LEMMA DeathKeeps ==
    ASSUME IInv, Delivery, ListenerDies
    PROVE  Delivery'
<1>1. /\ UNCHANGED <<db, owed, left, lost>> /\ queue' = <<>> /\ pending' = Nothing
      /\ listener' = "dead" /\ startup' # "loading"
  BY DEF ListenerDies, Subscribed, editor, history, IInv, OneTask
<1>2. ASSUME NEW k \in Keys \ left PROVE Serves(k)'
  BY <1>1 DEF Serves, TableServes, Settled, LoadServes, Loading, Tasks, PendingServes,
              Nothing, QueueServes
<1> QED
  BY <1>1, <1>2 DEF Delivery, Owing

(* The table after an event. *)
LEMMA ApplyKeeps ==
    ASSUME IInv, Delivery, Apply
    PROVE  Delivery'
<1> DEFINE d == pending.doc
<1>1. /\ Awaited /\ UNCHANGED <<startup, building>> /\ pending' = Nothing
      /\ listener = "applying" /\ listener' = "listening" /\ startup # "loading"
      /\ cache' = Applied(pending.kind, d) /\ pending.kind \in {"upsert", "delete"}
      /\ cache \in Tables /\ (d # NoDoc => d \in Docs)
  BY DEF Apply, editor, history, Awaited, IInv, OneTask, Types
<1>2. \A u \in Tasks : ~ Loading(u)'
  BY <1>1 DEF Loading, Tasks
<1>3. ASSUME NEW k \in Keys \ left PROVE Serves(k)'
  <2>1. Serves(k) /\ QueueServes(k)' /\ Holders(k)' = Holders(k)
        /\ \A j : Later(j)' <=> Later(j)
    BY <1>1, AwaitedLasts DEF Delivery, Serves
  <2>2. PendingServes(k)' /\ LoadServes(k)'
    BY <1>1, <1>2 DEF PendingServes, LoadServes, Nothing
  <2> SUFFICES TableServes(k)'
    BY <2>1, <2>2 DEF Serves
  <2>3. /\ d = NoDoc \/ k \notin KeysOf(d) => cache'[k] = cache[k]
        /\ d # NoDoc /\ k \in KeysOf(d) => cache'[k] \in {d, NoDoc, cache[k]}
        /\ d # NoDoc /\ k \in KeysOf(d) /\ pending.kind = "upsert" => cache'[k] = d
    BY <1>1 DEF Applied, Put, Without, DeletedKeys, KeysOf, MethodsOf, Tables
  <2>4. CASE d = NoDoc \/ k \notin KeysOf(d)
    BY <1>1, <2>1, <2>3, <2>4 DEF Serves, TableServes, Due, Settled, Nothing, Awaited
  <2>5. CASE d # NoDoc /\ k \in KeysOf(d)
    <3>1. /\ d.id \in Holders(k)
          /\ Later(d.id) \/ (pending.kind = "upsert" /\ d = db[d.id])
      BY <2>1, <2>5 DEF Serves, PendingServes
    <3>2. CASE pending.kind = "upsert"
      BY <1>1, <2>1, <2>3, <2>5, <3>1, <3>2 DEF TableServes, Due, Awaited
    <3>3. CASE pending.kind = "delete"
      <4>1. cache'[k] = NoDoc \/ cache'[k] = cache[k]
        <5>1. cache' = Without(cache, DeletedKeys(d))
          BY <1>1, <2>5, <3>3 DEF Applied
        <5> QED
          BY <5>1 DEF Without
      <4>2. CASE cache'[k] = NoDoc
        BY <2>1, <3>1, <3>3, <4>2 DEF TableServes, Due
      <4>3. CASE cache'[k] = cache[k] /\ cache[k] # NoDoc
        BY <1>1, <2>1, <3>3, <4>3 DEF Serves, TableServes, Due, Settled, Awaited
      <4> QED
        BY <4>1, <4>2, <4>3
    <3> QED
      BY <1>1, <3>2, <3>3
  <2> QED
    BY <2>4, <2>5
<1> QED
  BY <1>1, <1>3, AwaitedLasts DEF Delivery, Awaited

(* Taking a message brings the others nearer. *)
LEMMA Taken ==
    ASSUME IInv, Receive
    PROVE  /\ Head(queue) \in Events /\ 1 \in DOMAIN queue /\ queue[1] = Head(queue)
           /\ \A n \in DOMAIN queue' : n + 1 \in DOMAIN queue /\ queue'[n] = queue[n + 1] /\ n \in Nat
           /\ \A i, n : n \in Nat /\ LaterThan(i, n + 1) => LaterThan(i, n)'
           /\ \A i : Later(i) => Later(i)' \/ Useful(Head(queue), i)
<1> DEFINE N == Len(queue)
           q == queue'
           h == Head(queue)
<1>1. queue \in Seq(Events) /\ queue # <<>> /\ queue' = Tail(queue)
      /\ UNCHANGED <<owed, lost>>
  BY DEF Receive, IInv, Types, editor, history
<1>2. /\ N \in Nat \ {0} /\ DOMAIN queue = 1 .. N /\ DOMAIN q = 1 .. N - 1
      /\ h \in Events /\ queue[1] = h /\ \A n \in 1 .. N - 1 : q[n] = queue[n + 1]
  BY <1>1
<1>3. /\ \A n \in DOMAIN q : n + 1 \in DOMAIN queue /\ q[n] = queue[n + 1] /\ n \in Nat
      /\ \A m \in DOMAIN queue : m = 1 \/ (m - 1 \in DOMAIN q /\ q[m - 1] = queue[m])
      /\ 1 \in DOMAIN queue /\ DOMAIN queue \subseteq Int
  <2> HIDE DEF N, q, h
  <2> QED
    BY <1>2
<1> HIDE DEF N, q, h
<1>4. ASSUME NEW i, NEW n \in Nat, LaterThan(i, n + 1) PROVE LaterThan(i, n)'
  <2>1. CASE owed[i] = "upsert" \/ i \in lost
    BY <1>1, <2>1 DEF LaterThan
  <2>2. CASE \E m \in DOMAIN queue : m > n + 1 /\ Useful(queue[m], i)
    <3>1. PICK m \in DOMAIN queue : m > n + 1 /\ Useful(queue[m], i)
      BY <2>2
    <3>2. m - 1 > n /\ m # 1
      BY <1>3, <3>1
    <3> QED
      BY <1>3, <3>1, <3>2 DEF LaterThan, q
  <2> QED
    BY <1>4, <2>1, <2>2 DEF LaterThan
<1>5. ASSUME NEW i, Later(i) PROVE Later(i)' \/ Useful(h, i)
  <2>1. CASE owed[i] = "upsert" \/ i \in lost
    BY <1>1, <2>1 DEF Later, LaterThan
  <2>2. CASE \E m \in DOMAIN queue : m > 0 /\ Useful(queue[m], i)
    <3>1. PICK m \in DOMAIN queue : m > 0 /\ Useful(queue[m], i)
      BY <2>2
    <3>2. CASE m = 1
      BY <1>2, <3>1, <3>2
    <3>3. CASE m # 1
      <4>1. m - 1 > 0 /\ m - 1 \in DOMAIN q /\ q[m - 1] = queue[m]
        BY <1>3, <3>1, <3>3
      <4> QED
        BY <3>1, <4>1 DEF Later, LaterThan, q
    <3> QED
      BY <3>2, <3>3
  <2> QED
    BY <1>5, <2>1, <2>2 DEF Later, LaterThan
<1> QED
  BY <1>2, <1>3, <1>4, <1>5 DEF q, h

LEMMA ReceiveKeeps ==
    ASSUME IInv, Delivery, Receive
    PROVE  Delivery'
<1>1. /\ UNCHANGED <<db, owed, left, lost, cache, startup, building>>
      /\ listener = "listening" /\ pending = Nothing /\ startup # "loading"
      /\ building["listener"] = EmptyTable
  BY DEF Receive, editor, history, IInv, OneTask
<1>2. PICK e \in Events :
        /\ e = Head(queue) /\ 1 \in DOMAIN queue /\ queue[1] = e
        /\ \A n \in DOMAIN queue' : n + 1 \in DOMAIN queue /\ queue'[n] = queue[n + 1] /\ n \in Nat
        /\ \A i, n : n \in Nat /\ LaterThan(i, n + 1) => LaterThan(i, n)'
        /\ \A i : Later(i) => Later(i)' \/ Useful(e, i)
  BY Taken
<1>3. \/ ~ ShouldProcess(e) /\ UNCHANGED <<listener, scan, pending>>
      \/ /\ ShouldProcess(e) /\ (e.kind = "delete" \/ e.tenant)
         /\ listener' = "applying" /\ pending' = [kind |-> e.kind, doc |-> Found(e)]
      \/ /\ ShouldProcess(e) /\ e.kind = "upsert"
         /\ listener' = "reloading" /\ scan' = [scan EXCEPT !["listener"] = Ids]
         /\ UNCHANGED pending
  BY <1>2 DEF Receive
<1>4. ASSUME NEW k \in Keys \ left PROVE Serves(k)'
  <2>1. Serves(k) /\ Holders(k)' = Holders(k) /\ Holders(k) \subseteq Ids
    BY <1>1 DEF Delivery, Holders
  <2>2. QueueServes(k)'
    BY <1>2, <2>1 DEF Serves, QueueServes
  <2>3. /\ cache[k] = NoDoc => Holders(k) = {} \/ \E i \in Holders(k) : Later(i)
        /\ cache[k] # NoDoc => /\ cache[k].id \in Holders(k)
                               /\ cache[k] = db[cache[k].id] \/ Later(cache[k].id)
        \/ ~ Settled
    BY <1>1, <2>1 DEF Serves, TableServes, Due, Nothing
  <2>4. CASE ~ ShouldProcess(e) /\ UNCHANGED <<listener, scan, pending>>
    <3>1. \A i : Later(i) => Later(i)'
      BY <1>2, <2>4 DEF Useful
    <3>2. TableServes(k)' /\ PendingServes(k)' /\ LoadServes(k)'
      BY <1>1, <2>1, <2>3, <2>4, <3>1
         DEF TableServes, Due, Settled, PendingServes, Nothing, LoadServes, Loading, Tasks
    <3> QED
      BY <2>2, <3>2 DEF Serves
  <2>5. CASE listener' = "applying" /\ pending' = [kind |-> e.kind, doc |-> Found(e)]
             /\ (e.kind = "delete" \/ e.tenant)
    <3>1. e.id \in Ids /\ e.kind \in {"upsert", "delete"} /\ e.tenant \in BOOLEAN
      BY <1>2 DEF Events
    <3>2. \A i \in Holders(k) : Later(i) => Due(k, i)'
      <4> SUFFICES ASSUME NEW i \in Holders(k), Useful(e, i) PROVE Due(k, i)'
        BY <1>2 DEF Due
      <4>1. Found(e) = db[i] /\ e.kind = "upsert"
        BY <2>5, <3>1 DEF Useful, Found
      <4>2. db[i] # NoDoc /\ k \in KeysOf(db[i]) /\ db[i].id = i
        BY <2>1 DEF Holders, IInv, StoreNamed
      <4> QED
        BY <2>5, <4>1, <4>2 DEF Due
    <3>3. TableServes(k)'
      BY <1>1, <2>1, <2>3, <2>5, <3>2 DEF TableServes, Settled
    <3>4. PendingServes(k)'
      <4>0. PICK d : d = Found(e)
        OBVIOUS
      <4> SUFFICES ASSUME d # NoDoc, k \in KeysOf(d)
                   PROVE  /\ d.id \in Holders(k)
                          /\ Later(d.id)' \/ (e.kind = "upsert" /\ d = db[d.id])
        BY <1>1, <2>1, <2>5, <4>0 DEF PendingServes
      <4>1. d = db[e.id] /\ d.id = e.id
        BY <3>1, <4>0 DEF Found, IInv, StoreNamed
      <4>2. e.id \in Holders(k)
        BY <3>1, <4>1 DEF Holders
      <4>3. e.kind = "delete" => LaterThan(e.id, 1)
        BY <1>2, <2>1, <4>2 DEF Serves, QueueServes
      <4>4. e.kind = "delete" => Later(e.id)'
        BY <1>2, <4>3 DEF Later
      <4> QED
        BY <3>1, <4>1, <4>2, <4>4
    <3>5. LoadServes(k)'
      BY <1>1, <2>5 DEF LoadServes, Loading, Tasks
    <3> QED
      BY <2>2, <3>3, <3>4, <3>5 DEF Serves
  <2>6. CASE listener' = "reloading" /\ scan' = [scan EXCEPT !["listener"] = Ids]
             /\ UNCHANGED pending
    <3>1. TableServes(k)' /\ PendingServes(k)'
      BY <1>1, <2>6 DEF TableServes, Settled, PendingServes, Nothing
    <3>2. scan'["listener"] = Ids /\ building'["listener"][k] = NoDoc
      BY <1>1, <2>6 DEF IInv, Types, Tasks, EmptyTable
    <3>3. LoadServes(k)'
      BY <1>1, <2>1, <3>2 DEF LoadServes, Loading, Tasks
    <3> QED
      BY <2>2, <3>1, <3>3 DEF Serves
  <2> QED
    BY <1>3, <2>4, <2>5, <2>6
<1> QED
  BY <1>1, <1>4 DEF Delivery, Owing

LEMMA DeliveryStep == OursIsMeant /\ IInv /\ Delivery /\ [Next]_vars => Delivery'
<1> SUFFICES ASSUME OursIsMeant, IInv, Delivery, [Next]_vars PROVE Delivery'
  OBVIOUS
<1>1. CASE UNCHANGED vars
  <2>1. Awaited /\ UNCHANGED <<cache, startup, listener, scan, building, pending>>
    BY <1>1 DEF vars, Awaited
  <2>2. ASSUME NEW k \in Keys \ left PROVE Serves(k)'
    <3>1. Serves(k) /\ QueueServes(k)' /\ Holders(k)' = Holders(k)
          /\ \A j : Later(j)' <=> Later(j)
      BY <2>1, AwaitedLasts DEF Delivery, Serves
    <3> QED
      BY <2>1, <3>1 DEF Serves, TableServes, LoadServes, PendingServes, Due, Settled,
                        Loading, Awaited
  <2> QED
    BY <2>1, <2>2, AwaitedLasts DEF Delivery, Awaited
<1>2. CASE Edit \/ Publish
  BY <1>2, StoreKeeps, RemoveKeeps, AnnounceKeeps DEF Edit, Publish
<1>3. ASSUME NEW t \in Tasks, Load(t) PROVE Delivery'
  BY <1>3, ReadNextKeeps, SwapKeeps DEF Load
<1> QED
  BY <1>1, <1>2, <1>3, StartKeeps, ReceiveKeeps, ApplyKeeps, DeathKeeps DEF Next, Listen, Tasks

LEMMA DeliveredIsServed == IInv /\ Delivery => AnnouncedRoutesServed
<1> SUFFICES ASSUME IInv, Delivery, Quiet, NEW k \in OwedKeys PROVE InSyncAt(k)
  BY DEF AnnouncedRoutesServed
<1>1. k \in Keys \ left /\ TableServes(k) /\ \A d \in Owners(k) : d.id \notin lost
  BY DEF OwedKeys, Delivery, Serves
<1>2. \A i \in Holders(k) : db[i] \in Owners(k) /\ db[i].id = i
  BY DEF Holders, Owners, IInv, StoreNamed
<1>3. \A d \in Owners(k) : \E i \in Holders(k) : d = db[i]
  BY DEF Holders, Owners
<1>4. \A i \in Holders(k) : ~ Due(k, i)
  BY <1>1, <1>2 DEF Quiet, Due, Later, LaterThan, Holders, IInv, OneTask, Nothing
<1>5. IF cache[k] = NoDoc THEN Holders(k) = {}
      ELSE cache[k].id \in Holders(k) /\ cache[k] = db[cache[k].id]
  BY <1>1, <1>4 DEF TableServes, Settled, Quiet
<1> QED
  BY <1>2, <1>3, <1>5 DEF InSyncAt

(* Under any habits of the editor, overlapping loads, events, removals and *)
(* failures, whenever every edit has been announced and the listener is    *)
(* idle, the table holds at every key what the collection holds, but for   *)
(* keys that an edit took from a document and announcements that were lost *)
(* (config_store.py:186 to :212 and :341 to :371).  It is assumed that     *)
(* events name the gateway's environment as the code knows it.             *)
THEOREM AnnouncedIsServed == ASSUME OursIsMeant PROVE Spec => []AnnouncedRoutesServed
<1>1. Init => IInv /\ Delivery
  BY Initially, DeliveryInitially
<1>2. IInv /\ Delivery /\ [Next]_vars => (IInv /\ Delivery)'
  BY Inductive, DeliveryStep
<1>3. IInv /\ Delivery => AnnouncedRoutesServed
  BY DeliveredIsServed
<1> QED
  BY <1>1, <1>2, <1>3, PTL DEF Spec
=============================================================================
