----------------------------- MODULE PluginAdmin -----------------------------
(***************************************************************************)
(* How plugins get from the `plugins` collection into the running engine:  *)
(* POST /admin/plugins saves a document (save_plugin), and a reload, at    *)
(* start-up or by POST /admin/plugins/reload, lists all documents, builds  *)
(* the plugins and overwrites the engine's registry type by type           *)
(* (load_plugins_from_db_to_engine, src/app/main.py).                      *)
(*                                                                         *)
(* Every call to MongoDB is awaited, and handlers of other requests run    *)
(* meanwhile: no lock and no unique index keeps saves from each other, nor *)
(* reloads.  The code of a plugin is the number of the write that stored   *)
(* it, so that later code has a higher number.                             *)
(***************************************************************************)
EXTENDS Naturals, FiniteSets, SequencesExt

CONSTANTS Types,         \* plugin types
          ForwardTypes,  \* those stored beforehand with phase "forward"; a
                         \* document made by a POST has no phase
          Savers,        \* POST /admin/plugins, one handler per request
          Reloaders      \* the reload at start-up and POST .../reload

ASSUME PluginAdminAssumption ==
    /\ IsFiniteSet(Types) /\ IsFiniteSet(Savers)
    /\ Savers \cap Reloaders = {}
    /\ ForwardTypes \subseteq Types

Handlers == Savers \cup Reloaders

VARIABLES docs,      \* the collection, in natural order
          registry,  \* PluginEngine.plugins: type -> code
          step,      \* where each handler is
          found,     \* save_plugin's `existing`: a place in docs, or Missing
          doc,       \* the document a saver writes
          list,      \* what a reload's query returned, until it is over
          raced,     \* history: types of which two pending saves found none
          owed,      \* history: what was saved when a reload's query ran
          before,    \* history: the reloads that had listed by then
          late,      \* history: those overtaken by one that listed later
          saved,     \* history: type -> code of its last acknowledged save
          loaded     \* history: type -> newest code finished reloads owe it

vars == <<docs, registry, step, found, doc, list, raced, owed, before, late, saved, loaded>>

BuiltIn == 0   \* the code registered when main.py was imported, or none
Seeded == 1    \* the code of the documents there beforehand
Missing == 0
Codes == BuiltIn .. Seeded + Cardinality(Savers)

(* good: whether building the plugin succeeds.  Only phase "forward" runs  *)
(* the code to build it, the others build a proxy whatever the code is.    *)
Docs == [type : Types, code : Codes, enabled : BOOLEAN, good : BOOLEAN]

Stored(t) == [type |-> t, code |-> Seeded, enabled |-> TRUE, good |-> TRUE]

Init ==
    /\ docs = SetToSeq({Stored(t) : t \in ForwardTypes})
    /\ registry = [t \in Types |-> BuiltIn]
    /\ step = [h \in Handlers |-> "start"]
    /\ found = [h \in Savers |-> Missing]
    /\ doc = [h \in Savers |-> CHOOSE d \in Docs : TRUE]
    /\ list = [h \in Reloaders |-> <<>>]
    /\ raced = {}
    /\ owed = [h \in Reloaders |-> [t \in Types |-> BuiltIn]]
    /\ before = [h \in Reloaders |-> {}]
    /\ late = {}
    /\ saved = [t \in Types |-> BuiltIn]
    /\ loaded = [t \in Types |-> BuiltIn]

-----------------------------------------------------------------------------
(* Plausible defects of the operators below, used by no action. *)

InsertsAlways(place) == TRUE              \* insert_one without looking

KeepsRegistered(entries, t) ==            \* setdefault for update
    LET built == {n \in DOMAIN entries : entries[n].type = t /\ entries[n].enabled /\ entries[n].good}
    IN  IF built = {} \/ registry[t] # BuiltIn THEN registry[t] ELSE entries[Max(built)].code

-----------------------------------------------------------------------------

Go(h, where) == step' = [step EXCEPT ![h] = where]

(* find_one({"type": t}): the first such document. *)
Place(t) ==
    LET places == {n \in DOMAIN docs : docs[n].type = t}
    IN  IF places = {} THEN Missing ELSE CHOOSE n \in places : \A m \in places : n <= m

Inserts(place) == place = Missing

(* The number of the next write. *)
NextCode == 1 + Seeded + Cardinality({h \in Savers : step[h] = "done"})

(* Saver g has found no document of type t, and will insert one. *)
FoundNone(g, t) == step[g] = "write" /\ doc[g].type = t /\ found[g] = Missing

(* A valid POST looks for a document of its type (one without name, type   *)
(* or code, or that is not JSON, is answered 400 before).                  *)
Find(h, t, enabled, good) ==
    /\ step[h] = "start"
    /\ good \/ t \in ForwardTypes
    /\ doc' = [doc EXCEPT ![h] = [type |-> t, code |-> BuiltIn, enabled |-> enabled, good |-> good]]
    /\ found' = [found EXCEPT ![h] = Place(t)]
    /\ Go(h, "write")
    /\ raced' = raced \cup {u \in {t} : Place(t) = Missing /\ \E g \in Savers : FoundNone(g, t)}
    /\ UNCHANGED <<docs, registry, list, owed, before, late, saved, loaded>>

Loads(d) == d.enabled /\ d.good

(* It updates that document or inserts one; MongoDB may have written it    *)
(* even when the call raises and the answer is 500.                        *)
Write(h) ==
    LET new == [doc[h] EXCEPT !.code = NextCode]
    IN  /\ step[h] = "write"
        /\ docs' = IF Inserts(found[h]) THEN Append(docs, new)
                   ELSE [docs EXCEPT ![found[h]] = new]
        /\ Go(h, "done")
        /\ \E answered \in BOOLEAN :
             saved' = [saved EXCEPT ![new.type] =
                         IF ~Loads(new) THEN BuiltIn ELSE IF answered THEN new.code ELSE @]
        /\ UNCHANGED <<registry, found, doc, list, raced, owed, before, late, loaded>>

(* MongoDB refuses the query or the write: 500. *)
SaveRaises(h) ==
    /\ h \in Savers /\ step[h] \in {"start", "write"}
    /\ Go(h, "done")
    /\ UNCHANGED <<docs, registry, found, doc, list, raced, owed, before, late, saved, loaded>>

(* A reload's query is answered by MongoDB ... *)
List(h) ==
    /\ step[h] = "start"
    /\ list' = [list EXCEPT ![h] = docs]
    /\ owed' = [owed EXCEPT ![h] = saved]
    /\ before' = [before EXCEPT ![h] = {g \in Reloaders : step[g] = "build"}]
    /\ Go(h, "build")
    /\ UNCHANGED <<docs, registry, found, doc, raced, late, saved, loaded>>

(* build_plugin_instances and update for one type: a document that is      *)
(* disabled or cannot be built is skipped, of several the last one stays,  *)
(* and without any the registry keeps what it has.                         *)
Registered(entries, t) ==
    LET built == {n \in DOMAIN entries : entries[n].type = t /\ Loads(entries[n])}
    IN  IF built = {} THEN registry[t] ELSE entries[Max(built)].code

(* ... and when the answer is read, all is built and registered at once.   *)
(* One that is overtaken takes back what it has not listed.                *)
Register(h) ==
    /\ step[h] = "build"
    /\ registry' = [t \in Types |-> Registered(list[h], t)]
    /\ late' = late \cup {g \in before[h] : step[g] = "build"}
    /\ loaded' = IF h \in late THEN owed[h]
                 ELSE [t \in Types |-> IF owed[h][t] > loaded[t] THEN owed[h][t] ELSE loaded[t]]
    /\ list' = [list EXCEPT ![h] = <<>>]
    /\ Go(h, "done")
    /\ UNCHANGED <<docs, found, doc, raced, owed, before, saved>>

(* The query fails: that is logged, and the reload is answered as done.    *)
ListRaises(h) ==
    /\ h \in Reloaders /\ step[h] \in {"start", "build"}
    /\ list' = [list EXCEPT ![h] = <<>>]
    /\ Go(h, "done")
    /\ UNCHANGED <<docs, registry, found, doc, raced, owed, before, late, saved, loaded>>

Save(h) ==
    \/ \E t \in Types, enabled, good \in BOOLEAN : Find(h, t, enabled, good)
    \/ Write(h)
    \/ SaveRaises(h)

Reload(h) == List(h) \/ Register(h) \/ ListRaises(h)

Next == (\E h \in Savers : Save(h)) \/ (\E h \in Reloaders : Reload(h))

Spec == Init /\ [][Next]_vars

-----------------------------------------------------------------------------

TypeOK ==
    /\ docs \in Seq(Docs)
    /\ registry \in [Types -> Codes] /\ saved \in [Types -> Codes] /\ loaded \in [Types -> Codes]
    /\ step \in [Handlers -> {"start", "write", "build", "done"}]
    /\ found \in [Savers -> Nat]
    /\ \A h \in Savers : found[h] # Missing => docs[found[h]].type = doc[h].type
    /\ doc \in [Savers -> Docs]
    /\ list \in [Reloaders -> Seq(Docs)]
    /\ owed \in [Reloaders -> [Types -> Codes]]
    /\ raced \subseteq Types /\ late \subseteq Reloaders
    /\ before \in [Reloaders -> SUBSET Reloaders]

(* Type t has two documents: an update reaches the first, a reload serves  *)
(* the last.                                                               *)
Doubled(t) == \E m, n \in DOMAIN docs : m # n /\ docs[m].type = t /\ docs[n].type = t

(* A type is stored twice, against save_plugin's "insert or update", only  *)
(* when two saves of it were pending that had both found none; however     *)
(* saves and reloads overlap otherwise, fail, or are done though they      *)
(* raised, it is stored once.                                              *)
OneDocPerType == \A t \in Types : Doubled(t) => t \in raced

(* What a finished reload owes, the code whose save was acknowledged       *)
(* before its query ran, stays registered until newer code replaces it,    *)
(* though saves and other reloads go on between that query and the         *)
(* registration.  Two things may bring older code back: a reload that      *)
(* registers after one that listed later, and a second document of a type, *)
(* which hides the one that is updated.                                    *)
SavedIsServed == \A t \in Types : ~Doubled(t) => registry[t] >= loaded[t]
=============================================================================
