-------------------------- MODULE PluginAdminProofs --------------------------
(***************************************************************************)
(* For any types, saves and reloads, overlapping as they like.  A type is  *)
(* stored twice only when two pending saves of it had both found none:     *)
(* otherwise a save that has found none is alone with that and is right    *)
(* until it writes (InsertsOnce).  What a reload owes stays registered:    *)
(* of a type stored once, its list is nowhere newer than the collection,   *)
(* nor than the list of one that listed later, nor older than the registry *)
(* unless it is overtaken (Kept), and has what was saved when it was read  *)
(* (ListServes).                                                           *)
(*                                                                         *)
(* The second part is about the worker in which what was registered runs.  *)
(* For any number of calls: while a plugin does not write to the worker's  *)
(* stdout itself, replies are never confused, and the proxy and the worker *)
(* implement HookContract.  The invariant says that the pipes hold nothing *)
(* but the one exchange the holder of the lock waits for; without it a     *)
(* line could not be told to be the holder's.                              *)
(***************************************************************************)
EXTENDS PluginAdmin, PluginWorker, FiniteSetTheorems, SequenceTheorems,
        WellFoundedInduction, TLAPS

(* Documents, whatever the number of the write. *)
AnyDocs == [type : Types, code : Nat, enabled : BOOLEAN, good : BOOLEAN]

Shapes ==
    /\ docs \in Seq(AnyDocs)
    /\ step \in [Handlers -> {"start", "write", "build", "done"}]
    /\ found \in [Savers -> Nat]
    /\ doc = [h \in Savers |-> doc[h]]

Writing(h) == step[h] = "write"

(* At most one document of ds is of type t. *)
Single(ds, t) == \A m, n \in DOMAIN ds : ds[m].type = t /\ ds[n].type = t => m = n

Lacks(ds, t) == \A n \in DOMAIN ds : ds[n].type # t

(* A place that was found keeps a document of the type. *)
FoundStands ==
    \A h \in Savers : Writing(h) =>
       /\ doc[h] \in AnyDocs
       /\ found[h] # Missing => found[h] \in DOMAIN docs /\ docs[found[h]].type = doc[h].type

(* Who is about to insert t is alone with that, and it is not there yet. *)
InsertsOnce(t) ==
    /\ Single(docs, t)
    /\ \A g, h \in Savers : FoundNone(g, t) /\ FoundNone(h, t) => g = h
    /\ \A h \in Savers : FoundNone(h, t) => Lacks(docs, t)

IInv == Shapes /\ FoundStands /\ \A t \in Types \ raced : InsertsOnce(t)

-----------------------------------------------------------------------------

(* The documents stored beforehand are a sequence without repetition. *)
LEMMA StoredOnce ==
    LET stored == {Stored(t) : t \in ForwardTypes} IN
    SetToSeq(stored) \in Seq(stored) /\ IsInjective(SetToSeq(stored))
<1> DEFINE stored == {Stored(t) : t \in ForwardTypes}
<1>1. IsFiniteSet(ForwardTypes)
  BY PluginAdminAssumption, FS_Subset
<1>2. IsFiniteSet(stored)
  <2> DEFINE f == [t \in ForwardTypes |-> Stored(t)]
  <2>1. f \in Surjection(ForwardTypes, stored)
    BY DEF Surjection
  <2> QED
    BY <1>1, <2>1, FS_Surjection
<1> HIDE DEF stored
<1>3. Cardinality(stored) \in Nat /\ ExistsBijection(1 .. Cardinality(stored), stored)
  BY <1>2, FS_CardinalityType
<1>4. \E f \in [1 .. Cardinality(stored) -> stored] : IsInjective(f)
  BY <1>3 DEF ExistsBijection, Bijection, Injection
<1>5. /\ SetToSeq(stored) \in [1 .. Cardinality(stored) -> stored]
      /\ IsInjective(SetToSeq(stored))
  BY <1>4 DEF SetToSeq
<1>6. SetToSeq(stored) \in Seq(stored)
  BY <1>3, <1>5
<1> QED
  BY <1>5, <1>6 DEF stored

LEMMA Initially == Init => IInv
<1> SUFFICES ASSUME Init PROVE IInv
  OBVIOUS
<1> DEFINE stored == {Stored(t) : t \in ForwardTypes}
<1>1. docs \in Seq(stored) /\ IsInjective(docs)
  BY StoredOnce DEF Init
<1>2. stored \subseteq AnyDocs
  <2> SUFFICES ASSUME NEW t \in ForwardTypes PROVE Stored(t) \in AnyDocs
    OBVIOUS
  <2>1. t \in Types /\ Seeded \in Nat
    BY PluginAdminAssumption DEF Seeded
  <2> QED
    BY <2>1, Zenon DEF Stored, AnyDocs
<1>3. ASSUME NEW m \in DOMAIN docs, NEW n \in DOMAIN docs, docs[m].type = docs[n].type
      PROVE  m = n
  <2>1. docs[m] \in stored /\ docs[n] \in stored
    BY <1>1
  <2>2. PICK t \in ForwardTypes, u \in ForwardTypes : docs[m] = Stored(t) /\ docs[n] = Stored(u)
    BY <2>1
  <2>3. t = u
    BY <1>3, <2>2 DEF Stored
  <2> QED
    BY <1>1, <2>2, <2>3 DEF IsInjective
<1>4. Shapes
  <2>1. docs \in Seq(AnyDocs)
    BY <1>1, <1>2
  <2> QED
    BY <2>1 DEF Init, Shapes, Missing
<1>5. \A h \in Savers : step[h] # "write"
  BY DEF Init, Handlers
<1>6. FoundStands
  BY <1>5 DEF FoundStands, Writing
<1>7. ASSUME NEW t PROVE InsertsOnce(t)
  BY <1>3, <1>5 DEF InsertsOnce, Single, FoundNone
<1> QED
  BY <1>4, <1>6, <1>7 DEF IInv

LEMMA NextCodeType == NextCode \in Nat
<1>1. Cardinality({h \in Savers : step[h] = "done"}) \in Nat
  BY PluginAdminAssumption, FS_Subset, FS_CardinalityType
<1> QED
  BY <1>1 DEF NextCode, Seeded

(* Of some natural numbers one is the least. *)
LEMMA Least ==
    ASSUME NEW B \in SUBSET Nat, B # {}
    PROVE  \E m \in B : \A k \in B : m <= k
<1>1. PICK b \in B : TRUE
  OBVIOUS
<1> DEFINE S == 0 .. b
           T == {U \in SUBSET S : \E k \in B : U = 0 .. k}
<1>2. IsFiniteSet(S) /\ S \in T
  BY FS_Interval
<1>3. PICK X \in T : \A Y \in T : ~ (<<Y, X>> \in StrictSubsetOrdering(S))
  <2>1. IsWellFoundedOn(StrictSubsetOrdering(S), SUBSET S)
    BY <1>2, FS_StrictSubsetOrderingWellFounded, FS_FiniteSubsetsOfFinite
  <2>2. T \subseteq SUBSET S /\ T # {}
    BY <1>2
  <2> HIDE DEF T, S
  <2> QED
    BY <2>1, <2>2, WFMin
<1>4. PICK m \in B : X = 0 .. m
  OBVIOUS
<1>5. ASSUME NEW k \in B, k < m PROVE FALSE
  <2>1. 0 .. k \in T /\ 0 .. k \subseteq X /\ 0 .. k # X
    <3>1. m \in X /\ m \notin 0 .. k
      BY <1>4, <1>5
    <3>2. 0 .. k \subseteq X /\ X \subseteq S
      BY <1>4, <1>5
    <3> QED
      BY <3>1, <3>2
  <2>2. <<0 .. k, X>> \in StrictSubsetOrdering(S)
    BY <2>1 DEF StrictSubsetOrdering
  <2> HIDE DEF T, S
  <2> QED
    BY <1>3, <2>1, <2>2
<1> QED
  BY <1>5

LEMMA MaxIn ==
    ASSUME NEW n \in Nat, NEW s \in SUBSET (1 .. n), s # {}
    PROVE  Max(s) \in s /\ \A y \in s : y <= Max(s)
<1> DEFINE B == {k \in 0 .. n : \A y \in s : y <= k}
<1>1. n \in B
  OBVIOUS
<1>2. PICK m \in B : \A k \in B : m <= k
  <2> B \in SUBSET Nat /\ B # {}
    BY <1>1
  <2> HIDE DEF B
  <2> QED
    BY Least
<1>3. m \in s
  <2> SUFFICES ASSUME m \notin s PROVE FALSE
    OBVIOUS
  <2>1. PICK x \in s : TRUE
    OBVIOUS
  <2>2. x <= m /\ x # m /\ x \in 1 .. n
    BY <1>2, <2>1
  <2>3. m - 1 \in 0 .. n /\ \A y \in s : y <= m - 1
    BY <1>2, <2>2
  <2> QED
    BY <1>2, <2>3
<1>4. \A y \in s : m >= y
  BY <1>2
<1>5. Max(s) \in s /\ \A y \in s : Max(s) >= y
  BY <1>3, <1>4 DEF Max
<1> QED
  BY <1>5

(* find_one sees the first document of the type, if there is one. *)
LEMMA PlaceStands ==
    ASSUME docs \in Seq(AnyDocs), NEW t \in Types
    PROVE  /\ Place(t) \in Nat
           /\ Place(t) = Missing => Lacks(docs, t)
           /\ Place(t) # Missing => Place(t) \in DOMAIN docs /\ docs[Place(t)].type = t
<1> DEFINE places == {n \in DOMAIN docs : docs[n].type = t}
<1>1. CASE places = {}
  BY <1>1 DEF Place, Lacks, Missing
<1>2. CASE places # {}
  <2>1. places \in SUBSET Nat /\ \A n \in places : n # 0 /\ n \in DOMAIN docs /\ docs[n].type = t
    OBVIOUS
  <2>2. Place(t) = CHOOSE n \in places : \A m \in places : n <= m
    BY <1>2 DEF Place
  <2> HIDE DEF places
  <2>3. \E n \in places : \A m \in places : n <= m
    BY <1>2, <2>1, Least
  <2>4. Place(t) \in places
    BY <2>2, <2>3
  <2> QED
    BY <2>1, <2>4 DEF Missing
<1> QED
  BY <1>1, <1>2

(* A write changes the document that was found, or adds one when none was: *)
(* no document changes its type or goes away.                              *)
LEMMA WriteChanges ==
    ASSUME NEW h \in Savers, Shapes, FoundStands, Write(h)
    PROVE  \E new \in AnyDocs :
             /\ new = [doc[h] EXCEPT !.code = NextCode]
             /\ new.type = doc[h].type /\ new.type \in Types /\ new.code = NextCode
             /\ docs' \in Seq(AnyDocs)
             /\ \A n \in DOMAIN docs :
                  /\ n \in DOMAIN docs' /\ docs'[n].type = docs[n].type
                  /\ docs[n].type # new.type => docs'[n] = docs[n]
             /\ \A n \in DOMAIN docs' : docs'[n] = new \/ (n \in DOMAIN docs /\ docs'[n] = docs[n])
             /\ \E p \in DOMAIN docs' : docs'[p] = new
             /\ \A n \in DOMAIN docs' : n \in DOMAIN docs \/ (n = Len(docs) + 1 /\ FoundNone(h, new.type))
<1> DEFINE new == [doc[h] EXCEPT !.code = NextCode]
<1>1. /\ step[h] = "write"
      /\ docs' = IF found[h] = Missing THEN Append(docs, new) ELSE [docs EXCEPT ![found[h]] = new]
  BY DEF Write, Inserts
<1>2. new \in AnyDocs /\ new.type = doc[h].type /\ new.type \in Types /\ new.code = NextCode
  BY <1>1, NextCodeType DEF FoundStands, Writing, AnyDocs
<1>3. docs \in Seq(AnyDocs)
  BY DEF Shapes
<1>4. new = [doc[h] EXCEPT !.code = NextCode]
  OBVIOUS
<1> HIDE DEF new
<1>5. CASE found[h] = Missing
  <2>1. docs' = Append(docs, new)
    BY <1>1, <1>5
  <2>2. FoundNone(h, new.type)
    BY <1>1, <1>2, <1>5 DEF FoundNone
  <2>3. docs' \in Seq(AnyDocs) /\ Len(docs) + 1 \in DOMAIN docs' /\ docs'[Len(docs) + 1] = new
    BY <1>2, <1>3, <2>1
  <2>4. \A n \in DOMAIN docs : n \in DOMAIN docs' /\ docs'[n] = docs[n]
    BY <1>3, <2>1
  <2>5. \A n \in DOMAIN docs' : n \in DOMAIN docs \/ n = Len(docs) + 1
    BY <1>3, <2>1
  <2> HIDE DEF new
  <2> QED
    <3>1. \A n \in DOMAIN docs' : docs'[n] = new \/ (n \in DOMAIN docs /\ docs'[n] = docs[n])
      BY <2>3, <2>4, <2>5
    <3>2. /\ \A n \in DOMAIN docs : n \in DOMAIN docs' /\ docs'[n].type = docs[n].type
          /\ \E p \in DOMAIN docs' : docs'[p] = new
      BY <2>3, <2>4
    <3> QED
      BY <1>2, <1>4, <2>2, <2>3, <2>4, <2>5, <3>1, <3>2, Zenon
<1>6. CASE found[h] # Missing
  <2>1. docs' = [docs EXCEPT ![found[h]] = new]
    BY <1>1, <1>6
  <2>2. found[h] \in DOMAIN docs /\ docs[found[h]].type = new.type
    BY <1>1, <1>2, <1>6 DEF FoundStands, Writing
  <2>3. docs' \in Seq(AnyDocs) /\ DOMAIN docs' = DOMAIN docs /\ docs'[found[h]] = new
    BY <1>2, <1>3, <2>1, <2>2
  <2>4. \A n \in DOMAIN docs : n # found[h] => docs'[n] = docs[n]
    BY <1>3, <2>1
  <2>5. \A n \in DOMAIN docs : /\ docs'[n].type = docs[n].type
                               /\ docs[n].type # new.type => docs'[n] = docs[n]
                               /\ docs'[n] = new \/ docs'[n] = docs[n]
    BY <2>2, <2>3, <2>4
  <2> QED
    BY <1>2, <1>4, <2>2, <2>3, <2>5, Zenon
<1> QED
  BY <1>5, <1>6

(* Only the places of handlers change, and no save is about to write that  *)
(* was not.                                                                *)
LEMMA SavesMove ==
    ASSUME IInv, NEW h \in Handlers, UNCHANGED <<docs, found, doc, raced>>,
           NEW where \in {"build", "done"}, step' = [step EXCEPT ![h] = where]
    PROVE  IInv'
<1>1. \A g \in Savers : step'[g] = "write" => step[g] = "write"
  BY DEF IInv, Shapes, Handlers
<1>2. Shapes'
  BY DEF IInv, Shapes, Handlers
<1>3. FoundStands'
  BY <1>1 DEF IInv, FoundStands, Writing
<1>4. ASSUME NEW t \in Types \ raced PROVE InsertsOnce(t)'
  <2>1. \A g \in Savers : FoundNone(g, t)' => FoundNone(g, t)
    BY <1>1 DEF FoundNone
  <2> QED
    BY <1>4, <2>1 DEF IInv, InsertsOnce
<1> QED
  BY <1>2, <1>3, <1>4 DEF IInv

LEMMA FindKeeps ==
    ASSUME IInv, NEW h \in Savers, NEW t \in Types, NEW enabled \in BOOLEAN, NEW good \in BOOLEAN,
           Find(h, t, enabled, good)
    PROVE  IInv'
<1> DEFINE d == [type |-> t, code |-> BuiltIn, enabled |-> enabled, good |-> good]
<1>1. /\ UNCHANGED docs /\ step[h] = "start" /\ step' = [step EXCEPT ![h] = "write"]
      /\ doc' = [doc EXCEPT ![h] = d] /\ found' = [found EXCEPT ![h] = Place(t)]
      /\ raced' = raced \cup {u \in {t} : Place(t) = Missing /\ \E g \in Savers : FoundNone(g, t)}
  BY DEF Find, Go
<1>2. d \in AnyDocs /\ d.type = t
  BY DEF AnyDocs, BuiltIn
<1> HIDE DEF d
<1>3. docs \in Seq(AnyDocs) /\ h \in Handlers
  BY DEF IInv, Shapes, Handlers
<1>4. /\ Place(t) \in Nat
      /\ Place(t) = Missing => Lacks(docs, t)
      /\ Place(t) # Missing => Place(t) \in DOMAIN docs /\ docs[Place(t)].type = t
  BY <1>3, PlaceStands
<1>5. Shapes'
  BY <1>1, <1>3, <1>4 DEF IInv, Shapes
<1>6. /\ doc'[h] = d /\ found'[h] = Place(t) /\ step'[h] = "write"
      /\ \A g \in Savers : g # h => doc'[g] = doc[g] /\ found'[g] = found[g] /\ step'[g] = step[g]
  BY <1>1, <1>3 DEF IInv, Shapes, Handlers
<1>7. FoundStands'
  BY <1>1, <1>2, <1>4, <1>6 DEF IInv, FoundStands, Writing
<1>8. ASSUME NEW u \in Types \ raced' PROVE InsertsOnce(u)'
  <2>1. InsertsOnce(u)
    BY <1>1, <1>8 DEF IInv
  <2>2. \A g \in Savers : g # h => (FoundNone(g, u)' <=> FoundNone(g, u))
    BY <1>6 DEF FoundNone
  <2>3. FoundNone(h, u)' => u = t /\ Place(t) = Missing
    BY <1>2, <1>6 DEF FoundNone
  <2>4. FoundNone(h, u)' => Lacks(docs, u) /\ ~ \E g \in Savers : FoundNone(g, u)
    BY <1>1, <1>4, <1>8, <2>3
  <2> QED
    BY <1>1, <2>1, <2>2, <2>4 DEF InsertsOnce, Lacks, Single
<1> QED
  BY <1>5, <1>7, <1>8 DEF IInv

LEMMA WriteKeeps ==
    ASSUME IInv, NEW h \in Savers, Write(h)
    PROVE  IInv'
<1>1. PICK new \in AnyDocs :
             /\ new.type = doc[h].type
             /\ docs' \in Seq(AnyDocs)
             /\ \A n \in DOMAIN docs : n \in DOMAIN docs' /\ docs'[n].type = docs[n].type
             /\ \A n \in DOMAIN docs' : docs'[n] = new \/ (n \in DOMAIN docs /\ docs'[n] = docs[n])
             /\ \A n \in DOMAIN docs' : n \in DOMAIN docs \/ (n = Len(docs) + 1 /\ FoundNone(h, new.type))
  BY WriteChanges DEF IInv
<1>2. /\ step[h] = "write" /\ step' = [step EXCEPT ![h] = "done"]
      /\ UNCHANGED <<doc, found, raced>>
  BY DEF Write, Go
<1>3. h \in Handlers
  BY DEF Handlers
<1>4. Shapes'
  BY <1>1, <1>2, <1>3 DEF IInv, Shapes
<1>5. step'[h] = "done" /\ \A g \in Savers : g # h => step'[g] = step[g]
  BY <1>2, <1>3 DEF IInv, Shapes, Handlers
<1>6. FoundStands'
  BY <1>1, <1>2, <1>5 DEF IInv, FoundStands, Writing
<1>7. ASSUME NEW t \in Types \ raced PROVE InsertsOnce(t)'
  <2>1. InsertsOnce(t)
    BY <1>7 DEF IInv
  <2>2. \A g \in Savers : FoundNone(g, t)' => FoundNone(g, t) /\ g # h
    BY <1>2, <1>5 DEF FoundNone
  <2>3. CASE FoundNone(h, t) /\ new.type = t
    <3>1. Lacks(docs, t) /\ \A g \in Savers : ~FoundNone(g, t)'
      BY <2>1, <2>2, <2>3 DEF InsertsOnce
    <3>2. ASSUME NEW n \in DOMAIN docs', docs'[n].type = t PROVE n = Len(docs) + 1
      BY <1>1, <3>1, <3>2 DEF Lacks
    <3>3. Single(docs', t)
      BY <3>2 DEF Single
    <3> QED
      BY <3>1, <3>3 DEF InsertsOnce
  <2>4. CASE ~(FoundNone(h, t) /\ new.type = t)
    <3>1. ASSUME NEW n \in DOMAIN docs', docs'[n].type = t PROVE n \in DOMAIN docs /\ docs[n].type = t
      <4>1. CASE n \in DOMAIN docs
        BY <1>1, <3>1, <4>1
      <4>2. CASE n \notin DOMAIN docs
        <5>1. docs'[n] = new /\ FoundNone(h, new.type)
          BY <1>1, <4>2
        <5> QED
          BY <2>4, <3>1, <5>1
      <4> QED
        BY <4>1, <4>2
    <3>2. Single(docs', t)
      BY <2>1, <3>1 DEF InsertsOnce, Single
    <3>3. Lacks(docs, t) => Lacks(docs', t)
      BY <3>1 DEF Lacks
    <3> QED
      BY <2>1, <2>2, <3>2, <3>3 DEF InsertsOnce
  <2> QED
    BY <2>3, <2>4
<1> QED
  BY <1>2, <1>4, <1>6, <1>7 DEF IInv

LEMMA Inductive == IInv /\ [Next]_vars => IInv'
<1> SUFFICES ASSUME IInv, [Next]_vars PROVE IInv'
  OBVIOUS
<1>1. ASSUME NEW h \in Savers, Save(h) PROVE IInv'
  <2>1. SaveRaises(h) => IInv'
    BY SavesMove DEF SaveRaises, Go, Handlers
  <2> QED
    BY <1>1, <2>1, FindKeeps, WriteKeeps, Zenon DEF Save
<1>2. ASSUME NEW h \in Reloaders, Reload(h) PROVE IInv'
  <2>1. h \in Handlers
    BY DEF Handlers
  <2>2. /\ UNCHANGED <<docs, found, doc, raced>>
        /\ \E where \in {"build", "done"} : step' = [step EXCEPT ![h] = where]
    BY <1>2 DEF Reload, List, Register, ListRaises, Go
  <2> QED
    BY <2>1, <2>2, SavesMove
<1>3. CASE UNCHANGED vars
  BY <1>3 DEF vars, IInv, Shapes, FoundStands, Writing, InsertsOnce, FoundNone, Single, Lacks
<1> QED
  BY <1>1, <1>2, <1>3 DEF Next

LEMMA StoredOnceUnless == ASSUME IInv PROVE OneDocPerType
<1> SUFFICES ASSUME NEW t \in Types, Doubled(t), t \notin raced PROVE FALSE
  BY DEF OneDocPerType
<1>1. Single(docs, t)
  BY DEF IInv, InsertsOnce
<1> QED
  BY <1>1 DEF Single, Doubled

(* However saves overlap each other and reloads, and whatever MongoDB      *)
(* refuses, a type is stored twice only when two pending saves of it had   *)
(* both found none.                                                        *)
THEOREM StoredOncePerType == Spec => []OneDocPerType
<1>1. Init => IInv
  BY Initially
<1>2. IInv /\ [Next]_vars => IInv'
  BY Inductive
<1>3. IInv => OneDocPerType
  BY StoredOnceUnless
<1> QED
  BY <1>1, <1>2, <1>3, PTL DEF Spec

-----------------------------------------------------------------------------

Building(h) == step[h] = "build"

Numbers ==
    /\ registry \in [Types -> Nat] /\ saved \in [Types -> Nat] /\ loaded \in [Types -> Nat]
    /\ list \in [Reloaders -> Seq(AnyDocs)]
    /\ owed \in [Reloaders -> [Types -> Nat]]
    /\ before \in [Reloaders -> SUBSET Reloaders]
    /\ \A t \in Types : registry[t] < NextCode

(* All of ds was written before the next write. *)
Below(ds, next) == \A n \in DOMAIN ds : ds[n].code < next

(* What ds has of type t is not older than code c. *)
NotOlder(ds, t, c) == \A n \in DOMAIN ds : ds[n].type = t => c <= ds[n].code

(* Building ds registers code c of type t, or newer code.  *)
Serves(ds, t, c) ==
    c # BuiltIn => \E n \in DOMAIN ds : ds[n].type = t /\ Loads(ds[n]) /\ c <= ds[n].code

NoNewer(old, ds, t) ==
    \A m \in DOMAIN old, n \in DOMAIN ds :
       old[m].type = t /\ ds[n].type = t => old[m].code <= ds[n].code

StoreServes == Below(docs, NextCode) /\ \A t \in Types : Serves(docs, t, saved[t])

ListServes(h) ==
    /\ Below(list[h], NextCode)
    /\ \A t \in Types : Serves(list[h], t, owed[h][t])

(* Of a type stored once, the registry keeps what it owes; a reload's list *)
(* is of its time, and only one that is overtaken would go back.           *)
Kept(t) ==
    /\ NotOlder(docs, t, registry[t])
    /\ registry[t] >= loaded[t]
    /\ \A h \in Reloaders : Building(h) =>
          /\ Single(list[h], t) /\ NoNewer(list[h], docs, t)
          /\ h \notin late => NotOlder(list[h], t, registry[t])
    /\ \A g, h \in Reloaders : Building(g) /\ Building(h) /\ g # h =>
          h \in before[g] \/ NoNewer(list[g], list[h], t)

Serving ==
    /\ Numbers /\ StoreServes
    /\ \A h \in Reloaders : Building(h) => ListServes(h)
    /\ \A t \in Types : ~Doubled(t) => Kept(t)

-----------------------------------------------------------------------------

LEMMA Listed ==
    ASSUME NEW ds \in Seq(AnyDocs), NEW n \in DOMAIN ds
    PROVE  ds[n] \in AnyDocs /\ ds[n].type \in Types /\ ds[n].code \in Nat
<1>1. ds[n] \in AnyDocs
  OBVIOUS
<1> QED
  BY <1>1 DEF AnyDocs

(* What was written before stays so. *)
LEMMA StaysBelow ==
    ASSUME NEW ds \in Seq(AnyDocs), NEW next \in Nat, NEW later \in Nat, next <= later,
           Below(ds, next)
    PROVE  Below(ds, later)
<1>1. \A n \in DOMAIN ds : ds[n].code \in Nat
  BY Listed
<1> QED
  BY <1>1 DEF Below

(* The number of the next write counts the saves that are over. *)
LEMMA NextCodeGrows ==
    ASSUME NEW h \in Savers, Shapes, step[h] # "done", step' = [step EXCEPT ![h] = "done"]
    PROVE  NextCode' = NextCode + 1
<1> DEFINE over == {g \in Savers : step[g] = "done"}
<1>1. IsFiniteSet(over)
  BY PluginAdminAssumption, FS_Subset
<1>2. {g \in Savers : step'[g] = "done"} = over \cup {h} /\ h \notin over
  BY DEF Shapes, Handlers
<1>3. Cardinality(over) \in Nat /\ Cardinality(over \cup {h}) = Cardinality(over) + 1
  BY <1>1, <1>2, FS_CardinalityType, FS_AddElement
<1> QED
  BY <1>2, <1>3 DEF NextCode, Seeded

LEMMA NextCodeStays ==
    ASSUME NEW h \in Handlers, NEW where, Shapes, step' = [step EXCEPT ![h] = where],
           h \in Reloaders \/ (step[h] # "done" /\ where # "done")
    PROVE  NextCode' = NextCode
<1>1. h \in Reloaders => h \notin Savers
  BY PluginAdminAssumption
<1>2. {g \in Savers : step'[g] = "done"} = {g \in Savers : step[g] = "done"}
  BY <1>1 DEF Shapes, Handlers
<1> QED
  BY <1>2 DEF NextCode

(* Only the places of handlers change, and no reload gets its list. *)
LEMMA HandlersMove ==
    ASSUME Serving, UNCHANGED <<docs, registry, owed, before, late, saved, loaded>>, Shapes,
           NextCode \in Nat, NextCode' \in Nat, NextCode <= NextCode',
           list' \in [Reloaders -> Seq(AnyDocs)],
           \A h \in Reloaders : step'[h] = "build" => step[h] = "build" /\ list'[h] = list[h]
    PROVE  Serving'
<1>1. Numbers'
  BY DEF Serving, Numbers
<1>2. StoreServes'
  <2>1. Below(docs, NextCode')
    BY StaysBelow DEF Serving, StoreServes, Shapes
  <2> QED
    BY <2>1 DEF Serving, StoreServes
<1>3. ASSUME NEW h \in Reloaders, step'[h] = "build" PROVE ListServes(h)'
  <2>1. ListServes(h) /\ list[h] \in Seq(AnyDocs) /\ list'[h] = list[h]
    BY <1>3 DEF Serving, Numbers, Building
  <2>2. Below(list[h], NextCode')
    BY <2>1, StaysBelow DEF ListServes
  <2> QED
    BY <2>1, <2>2 DEF ListServes
<1>4. ASSUME NEW t \in Types, ~Doubled(t)' PROVE Kept(t)'
  <2>1. Kept(t)
    BY <1>4 DEF Serving, Doubled
  <2> QED
    BY <2>1 DEF Kept, Building
<1> QED
  BY <1>1, <1>2, <1>3, <1>4 DEF Serving, Building

(* A write's code is the newest, and it counts as saved only when it loads. *)
LEMMA WriteServes ==
    ASSUME NEW h \in Savers, IInv, Serving, Write(h)
    PROVE  Serving'
<1>1. PICK new \in AnyDocs :
             /\ new = [doc[h] EXCEPT !.code = NextCode]
             /\ new.type = doc[h].type /\ new.type \in Types /\ new.code = NextCode
             /\ docs' \in Seq(AnyDocs)
             /\ \A n \in DOMAIN docs :
                  /\ n \in DOMAIN docs' /\ docs'[n].type = docs[n].type
                  /\ docs[n].type # new.type => docs'[n] = docs[n]
             /\ \A n \in DOMAIN docs' : docs'[n] = new \/ (n \in DOMAIN docs /\ docs'[n] = docs[n])
             /\ \E p \in DOMAIN docs' : docs'[p] = new
  BY WriteChanges DEF IInv
<1>2. PICK answered \in BOOLEAN :
        saved' = [saved EXCEPT ![new.type] =
                    IF ~Loads(new) THEN BuiltIn ELSE IF answered THEN new.code ELSE @]
  BY <1>1 DEF Write
<1>3. /\ step[h] = "write" /\ step' = [step EXCEPT ![h] = "done"]
      /\ UNCHANGED <<registry, list, owed, before, late, loaded>>
  BY DEF Write, Go
<1>4. NextCode \in Nat /\ NextCode' = NextCode + 1
  BY <1>3, NextCodeType, NextCodeGrows DEF IInv
<1>5. docs \in Seq(AnyDocs)
  BY DEF IInv, Shapes
<1>6. \A n \in DOMAIN docs : docs[n].code \in Nat /\ docs[n].code < NextCode
  BY <1>5, Listed DEF Serving, StoreServes, Below
<1>7. \A g \in Reloaders : step'[g] = step[g]
  BY <1>3, PluginAdminAssumption DEF IInv, Shapes, Handlers
<1>8. Numbers'
  <2>1. saved' \in [Types -> Nat]
    BY <1>1, <1>2, <1>4 DEF Serving, Numbers, BuiltIn
  <2> QED
    BY <1>3, <1>4, <2>1 DEF Serving, Numbers
<1>9. Below(docs', NextCode')
  <2>1. ASSUME NEW n \in DOMAIN docs' PROVE docs'[n].code < NextCode + 1
    <3>1. CASE docs'[n] = new
      BY <1>1, <1>4, <3>1
    <3>2. CASE n \in DOMAIN docs /\ docs'[n] = docs[n]
      BY <1>4, <1>6, <3>2
    <3> QED
      BY <1>1, <3>1, <3>2
  <2> QED
    BY <1>4, <2>1 DEF Below
<1>10. ASSUME NEW t \in Types PROVE Serves(docs', t, saved'[t])
  <2>1. Serves(docs, t, saved[t]) /\ saved[t] \in Nat
    BY DEF Serving, StoreServes, Numbers
  <2>2. CASE t # new.type
    <3>1. saved'[t] = saved[t]
      BY <1>1, <1>2, <2>2 DEF Serving, Numbers
    <3> QED
      BY <1>1, <2>1, <2>2, <3>1 DEF Serves
  <2>3. CASE t = new.type /\ ~Loads(new)
    BY <1>1, <1>2, <2>3 DEF Serves, Serving, Numbers
  <2>4. CASE t = new.type /\ Loads(new)
    <3>1. saved'[t] = new.code \/ saved'[t] = saved[t]
      BY <1>1, <1>2, <2>4 DEF Serving, Numbers
    <3>2. saved[t] # BuiltIn => saved[t] <= new.code
      <4> SUFFICES ASSUME saved[t] # BuiltIn PROVE saved[t] <= new.code
        OBVIOUS
      <4>1. PICK n \in DOMAIN docs : saved[t] <= docs[n].code
        BY <2>1 DEF Serves
      <4> QED
        BY <1>1, <1>4, <1>6, <2>1, <4>1
    <3>3. saved'[t] # BuiltIn => saved'[t] <= new.code
      BY <1>1, <1>4, <3>1, <3>2
    <3> QED
      BY <1>1, <2>4, <3>3 DEF Serves
  <2> QED
    BY <2>2, <2>3, <2>4
<1>11. ASSUME NEW g \in Reloaders, Building(g)
       PROVE  /\ ListServes(g)' /\ list[g] \in Seq(AnyDocs)
              /\ \A n \in DOMAIN list[g] : list[g][n].code \in Nat /\ list[g][n].code < NextCode
  <2>1. ListServes(g) /\ list[g] \in Seq(AnyDocs)
    BY <1>11 DEF Serving, Numbers
  <2>2. Below(list[g], NextCode')
    BY <1>4, <2>1, StaysBelow DEF ListServes
  <2>3. \A n \in DOMAIN list[g] : list[g][n].code \in Nat /\ list[g][n].code < NextCode
    BY <2>1, Listed DEF ListServes, Below
  <2> QED
    BY <1>3, <2>1, <2>2, <2>3 DEF ListServes
<1>12. ASSUME NEW t \in Types, ~Doubled(t)' PROVE Kept(t)'
  <2>1. Doubled(t) => Doubled(t)'
    BY <1>1 DEF Doubled
  <2>2. Kept(t)
    BY <1>12, <2>1 DEF Serving
  <2>3. NotOlder(docs', t, registry[t])
    <3>1. registry[t] \in Nat /\ registry[t] < NextCode
      BY DEF Serving, Numbers
    <3>2. ASSUME NEW n \in DOMAIN docs', docs'[n].type = t PROVE registry[t] <= docs'[n].code
      <4>1. CASE docs'[n] = new
        BY <1>1, <1>4, <3>1, <4>1
      <4>2. CASE n \in DOMAIN docs /\ docs'[n] = docs[n]
        BY <2>2, <3>2, <4>2 DEF Kept, NotOlder
      <4> QED
        BY <1>1, <4>1, <4>2
    <3> QED
      BY <3>2 DEF NotOlder
  <2>4. ASSUME NEW g \in Reloaders, Building(g) PROVE NoNewer(list[g], docs', t)
    <3> SUFFICES ASSUME NEW m \in DOMAIN list[g], NEW n \in DOMAIN docs',
                        list[g][m].type = t, docs'[n].type = t
                 PROVE  list[g][m].code <= docs'[n].code
      BY DEF NoNewer
    <3>1. CASE docs'[n] = new
      <4>1. list[g][m].code \in Nat /\ list[g][m].code < NextCode
        BY <1>11, <2>4
      <4> QED
        BY <1>1, <1>4, <3>1, <4>1
    <3>2. CASE n \in DOMAIN docs /\ docs'[n] = docs[n]
      BY <2>2, <2>4, <3>2 DEF Kept, NoNewer
    <3> QED
      BY <1>1, <3>1, <3>2
  <2> QED
    BY <1>3, <1>7, <2>2, <2>3, <2>4 DEF Kept, Building
<1> QED
  BY <1>7, <1>8, <1>9, <1>10, <1>11, <1>12 DEF Serving, StoreServes, Building

(* A reload lists what the collection has then, which no list before it    *)
(* outdates.                                                               *)
LEMMA ListingServes ==
    ASSUME NEW h \in Reloaders, IInv, Serving, List(h)
    PROVE  Serving'
<1>1. /\ step' = [step EXCEPT ![h] = "build"] /\ list' = [list EXCEPT ![h] = docs]
      /\ owed' = [owed EXCEPT ![h] = saved] /\ UNCHANGED <<docs, registry, late, saved, loaded>>
      /\ before' = [before EXCEPT ![h] = {g \in Reloaders : step[g] = "build"}]
      /\ step[h] = "start"
  BY DEF List, Go
<1>2. NextCode' = NextCode /\ step \in [Handlers -> {"start", "write", "build", "done"}]
  BY <1>1, NextCodeStays DEF IInv, Shapes, Handlers
<1>3. step'[h] = "build" /\ \A g \in Reloaders : g # h => step'[g] = step[g]
  BY <1>1, <1>2 DEF Handlers
<1>4. docs \in Seq(AnyDocs)
  BY DEF IInv, Shapes
<1>5. /\ list'[h] = docs /\ owed'[h] = saved /\ before'[h] = {g \in Reloaders : step[g] = "build"}
      /\ \A g \in Reloaders : g # h => /\ list'[g] = list[g] /\ owed'[g] = owed[g]
                                       /\ before'[g] = before[g]
  BY <1>1 DEF Serving, Numbers
<1>6. Numbers'
  BY <1>1, <1>2, <1>4 DEF Serving, Numbers
<1>7. StoreServes'
  BY <1>1, <1>2 DEF Serving, StoreServes
<1>8. ASSUME NEW g \in Reloaders, step'[g] = "build" PROVE ListServes(g)'
  <2>1. CASE g = h
    BY <1>2, <1>5, <2>1 DEF ListServes, Serving, StoreServes
  <2>2. CASE g # h
    <3>1. ListServes(g)
      BY <1>3, <1>8, <2>2 DEF Serving, Building
    <3> QED
      BY <1>2, <1>5, <2>2, <3>1 DEF ListServes
  <2> QED
    BY <2>1, <2>2
<1>9. ASSUME NEW t \in Types, ~Doubled(t)' PROVE Kept(t)'
  <2>1. Kept(t) /\ Single(docs, t)
    BY <1>1, <1>9 DEF Serving, Doubled, Single
  <2>2. NoNewer(docs, docs, t)
    <3>1. \A n \in DOMAIN docs : docs[n].code \in Nat
      BY <1>4, Listed
    <3> QED
      BY <2>1, <3>1 DEF NoNewer, Single
  <2>3. ASSUME NEW g \in Reloaders, step'[g] = "build"
        PROVE  /\ Single(list'[g], t) /\ NoNewer(list'[g], docs, t)
               /\ g \notin late => NotOlder(list'[g], t, registry[t])
    <3>1. CASE g = h
      BY <1>5, <2>1, <2>2, <3>1 DEF Kept
    <3>2. CASE g # h
      BY <1>3, <1>5, <2>1, <2>3, <3>2 DEF Kept, Building
    <3> QED
      BY <3>1, <3>2
  <2>4. ASSUME NEW f \in Reloaders, NEW g \in Reloaders,
               step'[f] = "build", step'[g] = "build", f # g
        PROVE  g \in before'[f] \/ NoNewer(list'[f], list'[g], t)
    <3>1. CASE f = h
      BY <1>3, <1>5, <2>4, <3>1
    <3>2. CASE g = h
      BY <1>3, <1>5, <2>1, <2>4, <3>2 DEF Kept, Building
    <3>3. CASE f # h /\ g # h
      BY <1>3, <1>5, <2>1, <2>4, <3>3 DEF Kept, Building
    <3> QED
      BY <3>1, <3>2, <3>3
  <2> QED
    BY <1>1, <2>1, <2>3, <2>4 DEF Kept, Building
<1> QED
  BY <1>6, <1>7, <1>8, <1>9 DEF Serving, Building

(* What is registered is one of the loadable documents of the list.        *)
LEMMA RegisteredOne ==
    ASSUME NEW ds \in Seq(AnyDocs), NEW t \in Types
    PROVE  \/ /\ Registered(ds, t) = registry[t]
              /\ \A n \in DOMAIN ds : ~(ds[n].type = t /\ Loads(ds[n]))
           \/ \E n \in DOMAIN ds : /\ Registered(ds, t) = ds[n].code
                                   /\ ds[n].type = t /\ Loads(ds[n])
<1> DEFINE built == {n \in DOMAIN ds : ds[n].type = t /\ Loads(ds[n])}
<1>1. CASE built = {}
  BY <1>1 DEF Registered
<1>2. CASE built # {}
  <2>1. Registered(ds, t) = ds[Max(built)].code
    BY <1>2 DEF Registered
  <2>2. built \in SUBSET (1 .. Len(ds)) /\ Len(ds) \in Nat
    OBVIOUS
  <2>3. Max(built) \in built
    <3> HIDE DEF built
    <3> QED
      BY <1>2, <2>2, MaxIn
  <2> QED
    BY <2>1, <2>3
<1> QED
  BY <1>1, <1>2

(* What is registered is not older than what is owed, nor than what was    *)
(* registered, unless the reload was overtaken; the lists read after it    *)
(* are not older.                                                          *)
LEMMA RegisteringServes ==
    ASSUME NEW h \in Reloaders, IInv, Serving, Register(h)
    PROVE  Serving'
<1>1. /\ step[h] = "build" /\ step' = [step EXCEPT ![h] = "done"]
      /\ registry' = [t \in Types |-> Registered(list[h], t)]
      /\ late' = late \cup {g \in before[h] : step[g] = "build"}
      /\ loaded' = IF h \in late THEN owed[h]
                   ELSE [t \in Types |-> IF owed[h][t] > loaded[t] THEN owed[h][t] ELSE loaded[t]]
      /\ list' = [list EXCEPT ![h] = <<>>]
      /\ UNCHANGED <<docs, owed, before, saved>>
  BY DEF Register, Go
<1>2. NextCode \in Nat /\ NextCode' = NextCode /\ step \in [Handlers -> {"start", "write", "build", "done"}]
  BY <1>1, NextCodeType, NextCodeStays DEF IInv, Shapes, Handlers
<1>3. ASSUME NEW g \in Reloaders, step'[g] = "build"
      PROVE  g # h /\ step[g] = "build" /\ list'[g] = list[g]
  BY <1>1, <1>2, <1>3 DEF Handlers, Serving, Numbers
<1>4. ListServes(h) /\ list[h] \in Seq(AnyDocs) /\ owed[h] \in [Types -> Nat]
  BY <1>1 DEF Serving, Numbers, Building
<1>5. \A n \in DOMAIN list[h] : list[h][n].code \in Nat /\ list[h][n].code < NextCode
  BY <1>4, Listed DEF ListServes, Below
<1>6. ASSUME NEW t \in Types
      PROVE  /\ registry[t] \in Nat /\ registry[t] < NextCode /\ loaded[t] \in Nat /\ owed[h][t] \in Nat
             /\ registry'[t] = Registered(list[h], t)
             /\ loaded'[t] = IF h \in late THEN owed[h][t]
                             ELSE IF owed[h][t] > loaded[t] THEN owed[h][t] ELSE loaded[t]
  BY <1>1, <1>4 DEF Serving, Numbers
<1>7. ASSUME NEW t \in Types PROVE registry'[t] \in Nat /\ registry'[t] < NextCode
  BY <1>4, <1>5, <1>6, RegisteredOne
<1>8. Numbers'
  <2>1. registry' \in [Types -> Nat]
    <3>1. registry' = [t \in Types |-> registry'[t]]
      BY <1>1
    <3> QED
      BY <1>7, <3>1
  <2>2. loaded' \in [Types -> Nat]
    BY <1>1, <1>4, <1>6
  <2>3. list' \in [Reloaders -> Seq(AnyDocs)]
    BY <1>1 DEF Serving, Numbers
  <2> QED
    BY <1>1, <1>2, <1>7, <2>1, <2>2, <2>3 DEF Serving, Numbers
<1>9. StoreServes'
  BY <1>1, <1>2 DEF Serving, StoreServes
<1>10. ASSUME NEW g \in Reloaders, step'[g] = "build" PROVE ListServes(g)'
  <2>1. ListServes(g) /\ list'[g] = list[g]
    BY <1>3, <1>10 DEF Serving, Building
  <2> QED
    BY <1>1, <1>2, <2>1 DEF ListServes
<1>11. ASSUME NEW t \in Types, ~Doubled(t)' PROVE Kept(t)'
  <2>1. Kept(t)
    BY <1>1, <1>11 DEF Serving, Doubled
  <2>2. /\ Single(list[h], t) /\ NoNewer(list[h], docs, t)
        /\ h \notin late => NotOlder(list[h], t, registry[t])
    BY <1>1, <2>1 DEF Kept, Building
  <2>3. registry[t] >= loaded[t] /\ NotOlder(docs, t, registry[t])
    BY <2>1 DEF Kept
  <2>4. ASSUME NEW g \in Reloaders, step'[g] = "build"
        PROVE  /\ Single(list[g], t) /\ NoNewer(list[g], docs, t)
               /\ g \notin late => NotOlder(list[g], t, registry[t])
               /\ g \in before[h] \/ NoNewer(list[h], list[g], t)
    BY <1>1, <1>3, <2>1, <2>4 DEF Kept, Building
  <2>5. ASSUME NEW g \in Reloaders, step'[g] = "build", g \notin late'
        PROVE  NotOlder(list[g], t, registry[t]) /\ NoNewer(list[h], list[g], t)
    <3>1. g \notin late /\ g \notin before[h]
      BY <1>1, <1>3, <2>5
    <3> QED
      BY <2>4, <2>5, <3>1
  <2>6. Serves(list[h], t, owed[h][t])
    BY <1>4 DEF ListServes
  <2>7. /\ registry'[t] >= loaded'[t] /\ NotOlder(docs, t, registry'[t])
        /\ \A g \in Reloaders : step'[g] = "build" /\ g \notin late' => NotOlder(list[g], t, registry'[t])
    <3>1. CASE /\ Registered(list[h], t) = registry[t]
               /\ \A n \in DOMAIN list[h] : ~(list[h][n].type = t /\ Loads(list[h][n]))
      <4>1. owed[h][t] = 0
        BY <2>6, <3>1 DEF Serves, BuiltIn
      <4>2. registry'[t] = registry[t]
        BY <1>6, <3>1
      <4> QED
        BY <1>6, <2>3, <2>5, <4>1, <4>2
    <3>2. ASSUME NEW n \in DOMAIN list[h], Registered(list[h], t) = list[h][n].code,
                 list[h][n].type = t, Loads(list[h][n])
          PROVE  /\ registry'[t] >= loaded'[t] /\ NotOlder(docs, t, registry'[t])
                 /\ \A g \in Reloaders : step'[g] = "build" /\ g \notin late' => NotOlder(list[g], t, registry'[t])
      <4>1. registry'[t] = list[h][n].code /\ list[h][n].code \in Nat
        BY <1>5, <1>6, <3>2
      <4>2. owed[h][t] <= list[h][n].code
        <5>1. CASE owed[h][t] = BuiltIn
          BY <4>1, <5>1 DEF BuiltIn
        <5>2. CASE owed[h][t] # BuiltIn
          <6>1. PICK m \in DOMAIN list[h] : list[h][m].type = t /\ owed[h][t] <= list[h][m].code
            BY <2>6, <5>2 DEF Serves
          <6>2. m = n
            BY <2>2, <3>2, <6>1 DEF Single
          <6> QED
            BY <6>1, <6>2
        <5> QED
          BY <5>1, <5>2
      <4>3. h \notin late => registry[t] <= list[h][n].code
        BY <2>2, <3>2 DEF NotOlder
      <4>4. registry'[t] >= loaded'[t]
        BY <1>6, <2>3, <4>1, <4>2, <4>3
      <4>5. NotOlder(docs, t, registry'[t])
        BY <2>2, <3>2, <4>1 DEF NotOlder, NoNewer
      <4>6. ASSUME NEW g \in Reloaders, step'[g] = "build", g \notin late'
            PROVE  NotOlder(list[g], t, registry'[t])
        BY <2>5, <3>2, <4>1, <4>6 DEF NotOlder, NoNewer
      <4> QED
        BY <4>4, <4>5, <4>6
    <3> QED
      BY <1>4, <3>1, <3>2, RegisteredOne
  <2>8. ASSUME NEW f \in Reloaders, NEW g \in Reloaders,
               step'[f] = "build", step'[g] = "build", f # g
        PROVE  g \in before[f] \/ NoNewer(list[f], list[g], t)
    BY <1>3, <2>1, <2>8 DEF Kept, Building
  <2> QED
    BY <1>1, <1>3, <2>4, <2>7, <2>8 DEF Kept, Building
<1> QED
  BY <1>8, <1>9, <1>10, <1>11 DEF Serving, Building

LEMMA ServingInitially == Init => Serving
<1> SUFFICES ASSUME Init PROVE Serving
  OBVIOUS
<1> USE DEF Init, BuiltIn
<1>1. \A h \in Handlers : step[h] = "start"
  OBVIOUS
<1>2. {h \in Savers : step[h] = "done"} = {}
  BY <1>1 DEF Handlers
<1>3. NextCode = 2
  <2>1. Cardinality({}) = 0
    BY FS_EmptySet
  <2>2. Cardinality({h \in Savers : step[h] = "done"}) = 0
    BY ONLY <1>2, <2>1
  <2> QED
    BY ONLY <2>2 DEF NextCode, Seeded
<1>4. \A n \in DOMAIN docs : docs[n].type \in Types /\ docs[n].code = 1
  <2>1. docs \in Seq({Stored(t) : t \in ForwardTypes})
    BY StoredOnce, Zenon
  <2>2. ASSUME NEW n \in DOMAIN docs PROVE docs[n].type \in Types /\ docs[n].code = 1
    <3>1. PICK t \in ForwardTypes : docs[n] = Stored(t)
      <4>1. docs[n] \in {Stored(t) : t \in ForwardTypes}
        BY ONLY <2>1, <2>2
      <4> QED
        BY <4>1, Zenon
    <3> QED
      BY ONLY <3>1, PluginAdminAssumption DEF Stored, Seeded
  <2> QED
    BY <2>2
<1>5. Numbers
  BY <1>3 DEF Numbers
<1>6. StoreServes
  BY <1>3, <1>4 DEF StoreServes, Below, Serves
<1>7. \A h \in Reloaders : step[h] # "build"
  BY <1>1 DEF Handlers
<1>8. ASSUME NEW t \in Types PROVE Kept(t)
  BY <1>4, <1>7 DEF Kept, Building, NotOlder
<1> QED
  BY <1>5, <1>6, <1>7, <1>8 DEF Serving, Building

LEMMA ServingInductive ==
    ASSUME IInv, Serving, [Next]_vars
    PROVE  Serving'
<1> USE NextCodeType
<1>1. ASSUME NEW h \in Savers, NEW t \in Types, NEW enabled \in BOOLEAN, NEW good \in BOOLEAN,
             Find(h, t, enabled, good)
      PROVE  Serving'
  <2>1. /\ step[h] # "done" /\ step' = [step EXCEPT ![h] = "write"]
        /\ UNCHANGED <<docs, registry, list, owed, before, late, saved, loaded>>
    BY <1>1 DEF Find, Go
  <2>2. NextCode' = NextCode
    BY <2>1, NextCodeStays DEF IInv, Handlers
  <2>3. \A g \in Reloaders : step'[g] = "build" => step[g] = "build"
    BY <2>1 DEF IInv, Shapes, Handlers
  <2> QED
    BY <2>1, <2>2, <2>3, HandlersMove DEF IInv, Serving, Numbers
<1>2. ASSUME NEW h \in Savers, Write(h) PROVE Serving'
  BY <1>2, WriteServes
<1>3. ASSUME NEW h \in Savers, SaveRaises(h) PROVE Serving'
  <2>1. /\ step[h] # "done" /\ step' = [step EXCEPT ![h] = "done"]
        /\ UNCHANGED <<docs, registry, list, owed, before, late, saved, loaded>>
    BY <1>3 DEF SaveRaises, Go
  <2>2. NextCode' = NextCode + 1
    BY <2>1, NextCodeGrows DEF IInv
  <2>3. \A g \in Reloaders : step'[g] = "build" => step[g] = "build"
    BY <2>1 DEF IInv, Shapes, Handlers
  <2> QED
    BY <2>1, <2>2, <2>3, HandlersMove DEF IInv, Serving, Numbers
<1>4. ASSUME NEW h \in Reloaders, List(h) PROVE Serving'
  BY <1>4, ListingServes
<1>5. ASSUME NEW h \in Reloaders, Register(h) PROVE Serving'
  BY <1>5, RegisteringServes
<1>6. ASSUME NEW h \in Reloaders, ListRaises(h) PROVE Serving'
  <2>1. /\ step' = [step EXCEPT ![h] = "done"] /\ list' = [list EXCEPT ![h] = <<>>]
        /\ UNCHANGED <<docs, registry, owed, before, late, saved, loaded>>
    BY <1>6 DEF ListRaises, Go
  <2>2. NextCode' = NextCode
    BY <2>1, NextCodeStays DEF IInv, Handlers
  <2>3. /\ list' \in [Reloaders -> Seq(AnyDocs)]
        /\ \A g \in Reloaders : step'[g] = "build" => step[g] = "build" /\ list'[g] = list[g]
    BY <2>1 DEF IInv, Shapes, Handlers, Serving, Numbers
  <2> QED
    BY <2>1, <2>2, <2>3, HandlersMove DEF IInv
<1>7. ASSUME UNCHANGED vars PROVE Serving'
  <2>1. UNCHANGED <<docs, registry, step, list, owed, before, late, saved, loaded>>
    BY <1>7 DEF vars
  <2>2. NextCode' = NextCode
    BY <2>1 DEF NextCode
  <2> QED
    BY <2>1, <2>2, HandlersMove DEF IInv, Serving, Numbers
<1> QED
  BY <1>1, <1>2, <1>3, <1>4, <1>5, <1>6, <1>7 DEF Next, Save, Reload

(* However saves and reloads overlap: what a finished reload owes stays    *)
(* registered until newer code replaces it or a reload that was overtaken  *)
(* brings its older list back, of every type stored once.                  *)
THEOREM SavesAreServed == Spec => []SavedIsServed
<1>1. Init => IInv /\ Serving
  BY Initially, ServingInitially
<1>2. IInv /\ Serving /\ [Next]_vars => IInv' /\ Serving'
  BY Inductive, ServingInductive
<1>3. Serving => SavedIsServed
  BY DEF Serving, SavedIsServed, Kept
<1> QED
  BY <1>1, <1>2, <1>3, PTL DEF Spec

-----------------------------------------------------------------------------
(* The worker of a sandboxed plugin. *)

(* Sequences of no element and of one. *)
LEMMA ShortSeq ==
    ASSUME NEW S, NEW x \in S
    PROVE  /\ <<>> \in Seq(S) /\ <<x>> \in Seq(S)
           /\ Append(<<>>, x) = <<x>> /\ <<x>> # <<>>
           /\ Head(<<x>>) = x /\ Tail(<<x>>) = <<>>
OBVIOUS

(* What a worker adds to its stdout are lines. *)
LEMMA SaysLines ==
    ASSUME outbox \in Seq(Lines), NEW of \in Calls \cup {"init"}, NEW ok \in BOOLEAN,
           Says(Line(of, ok))
    PROVE  outbox' \in Seq(Lines)
<1>1. Line(of, ok) \in Lines /\ Printed \in Lines
  BY DEF Line, Lines, Printed
<1>2. <<Printed, Line(of, ok)>> \in Seq(Lines)
  <2> DEFINE l == Line(of, ok)
             m == Printed
  <2>1. l \in Lines /\ m \in Lines
    BY <1>1
  <2> HIDE DEF l, m
  <2>2. <<m, l>> \in Seq(Lines)
    BY <2>1
  <2> QED
    BY <2>2 DEF l, m
<1>3. Append(outbox, Line(of, ok)) \in Seq(Lines)
  BY <1>1, AppendProperties
<1>4. outbox \o <<Printed, Line(of, ok)>> \in Seq(Lines)
  BY <1>2, ConcatProperties
<1> QED
  BY <1>3, <1>4 DEF Says

LEMMA WorkerTypesStep ==
    WorkerTypeOK /\ [WorkerNext]_workerVars => WorkerTypeOK'
<1> USE WorkerAssumption
<1> SUFFICES ASSUME WorkerTypeOK, [WorkerNext]_workerVars PROVE WorkerTypeOK'
  OBVIOUS
<1>1. ASSUME NEW c \in Calls, Ask(c) PROVE WorkerTypeOK'
  BY <1>1 DEF WorkerTypeOK, Ask, worker
<1>2. CASE Take
  <2>1. Head(waiting) \in Calls /\ Tail(waiting) \in Seq(Calls)
    BY <1>2 DEF WorkerTypeOK, Take
  <2> QED
    BY <1>2, <2>1 DEF WorkerTypeOK, Take, worker
<1>3. CASE Spawn
  <2>1. inbox' \in Seq(Calls \cup {"init"}) /\ outbox' \in Seq(Lines)
    BY <1>3, ShortSeq, EmptySeq DEF Spawn
  <2> QED
    BY <1>3, <2>1 DEF WorkerTypeOK, Spawn
<1>4. CASE SpawnRaises \/ SendRaises
  <2>1. Ends("raised") /\ stage = "ensure" /\ UNCHANGED judged
    BY <1>4 DEF SpawnRaises, SendRaises, worker
  <2>2. /\ proc' \in {"none", "running", "exited", "reaped"} /\ ready' \in BOOLEAN
        /\ inbox' \in Seq(Calls \cup {"init"}) /\ outbox' \in Seq(Lines)
    BY <1>4, EmptySeq DEF WorkerTypeOK, SpawnRaises, SendRaises, worker
  <2> QED
    BY <2>1, <2>2 DEF WorkerTypeOK, Ends, LockAfter
<1>5. CASE SendCall
  BY <1>5 DEF WorkerTypeOK, SendCall, Writes
<1>6. CASE ReadInit
  <2>1. outbox' \in Seq(Lines) /\ holder \in Calls
    BY <1>6 DEF WorkerTypeOK, ReadInit
  <2>2. CASE Ends("raised") /\ UNCHANGED inbox
    BY <1>6, <2>1, <2>2 DEF WorkerTypeOK, ReadInit, Ends, LockAfter
  <2>3. CASE Writes(holder) /\ stage' = "call" /\ UNCHANGED <<waiting, holder, result>>
    <3>1. inbox' \in Seq(Calls \cup {"init"})
      BY <2>1, <2>3 DEF WorkerTypeOK, Writes
    <3>2. UNCHANGED <<proc, ready, judged>> /\ stage # "idle"
      BY <1>6 DEF ReadInit
    <3> QED
      BY <2>1, <2>3, <3>1, <3>2 DEF WorkerTypeOK
  <2> QED
    BY <1>6, <2>2, <2>3 DEF ReadInit
<1>7. CASE ReadReply
  BY <1>7 DEF WorkerTypeOK, ReadReply, Ends, LockAfter, Verdict
<1>8. CASE ReadEnd
  BY <1>8 DEF WorkerTypeOK, ReadEnd, Ends, LockAfter, worker
<1>9. ASSUME NEW ok \in BOOLEAN, WorkInit(ok) PROVE WorkerTypeOK'
  <2>1. outbox' \in Seq(Lines)
    BY <1>9, SaysLines DEF WorkerTypeOK, WorkInit
  <2> QED
    BY <1>9, <2>1 DEF WorkerTypeOK, WorkInit, proxy
<1>10. ASSUME NEW ok \in BOOLEAN, WorkCall(ok) PROVE WorkerTypeOK'
  <2>1. Head(inbox) \in Calls /\ Tail(inbox) \in Seq(Calls \cup {"init"})
    BY <1>10 DEF WorkerTypeOK, WorkCall
  <2>2. outbox' \in Seq(Lines)
    BY <1>10, <2>1, SaysLines DEF WorkerTypeOK, WorkCall
  <2> QED
    BY <1>10, <2>1, <2>2 DEF WorkerTypeOK, WorkCall, proxy
<1>11. CASE Die
  BY <1>11 DEF WorkerTypeOK, Die, proxy
<1>12. CASE Reap
  BY <1>12 DEF WorkerTypeOK, Reap, proxy
<1>13. CASE UNCHANGED workerVars
  BY <1>13 DEF WorkerTypeOK, workerVars
<1> QED
  BY <1>1, <1>2, <1>3, <1>4, <1>5, <1>6, <1>7, <1>8, <1>9, <1>10, <1>11, <1>12, <1>13
     DEF WorkerNext, Proxy, Work

(* The proxy's and the worker's variables keep their types, whether or not *)
(* the plugin prints (dynamic.py:29 to :97, plugin_worker.py:36 to :92).   *)
THEOREM WorkerTypes == WorkerSpec => []WorkerTypeOK
<1>1. WorkerInit => WorkerTypeOK
  <2>1. <<>> \in Seq(Calls) /\ <<>> \in Seq(Calls \cup {"init"}) /\ <<>> \in Seq(Lines)
    BY EmptySeq
  <2> QED
    BY <2>1 DEF WorkerInit, WorkerTypeOK
<1>2. WorkerTypeOK /\ [WorkerNext]_workerVars => WorkerTypeOK'
  BY WorkerTypesStep
<1> QED
  BY <1>1, <1>2, PTL DEF WorkerSpec

-----------------------------------------------------------------------------

(* The queue stays one of unserved calls, each of them once. *)
LEMMA UnservedStep ==
    WorkerTypeOK /\ Unserved /\ [WorkerNext]_workerVars => Unserved'
<1> USE WorkerAssumption
<1> SUFFICES ASSUME WorkerTypeOK, Unserved, [WorkerNext]_workerVars PROVE Unserved'
  OBVIOUS
<1>1. ASSUME NEW c \in Calls, Ask(c) PROVE Unserved'
  <2>1. waiting' = Append(waiting, c) /\ UNCHANGED <<holder, result>>
    BY <1>1 DEF Ask
  <2>2. waiting \in Seq(Calls)
    BY DEF WorkerTypeOK
  <2>3. \A n \in DOMAIN waiting' :
           \/ n \in DOMAIN waiting /\ waiting'[n] = waiting[n]
           \/ n = Len(waiting) + 1 /\ waiting'[n] = c
    BY <2>1, <2>2, AppendProperties
  <2>4. \A n \in DOMAIN waiting : waiting[n] # c
    BY <1>1 DEF Ask
  <2>5. c # holder /\ result[c] = "none"
    BY <1>1 DEF Ask
  <2> QED
    BY <2>1, <2>2, <2>3, <2>4, <2>5 DEF Unserved
<1>2. CASE Take
  <2>1. waiting # <<>> /\ holder' = Head(waiting) /\ waiting' = Tail(waiting) /\ UNCHANGED result
    BY <1>2 DEF Take
  <2>2. waiting \in Seq(Calls)
    BY DEF WorkerTypeOK
  <2>3. \A n \in DOMAIN waiting' : n + 1 \in DOMAIN waiting /\ waiting'[n] = waiting[n + 1]
    BY <2>1, <2>2
  <2>4. 1 \in DOMAIN waiting /\ Head(waiting) = waiting[1]
    BY <2>1, <2>2
  <2>5. \A n \in DOMAIN waiting' : n \in Nat \ {0}
    BY <2>1, <2>2
  <2>6. \A n \in DOMAIN waiting' : waiting'[n] # holder' /\ result'[waiting'[n]] = "none"
    BY <2>1, <2>3, <2>4, <2>5 DEF Unserved
  <2>7. \A m, n \in DOMAIN waiting' : waiting'[m] = waiting'[n] => m = n
    BY <2>3, <2>5 DEF Unserved
  <2> QED
    BY <2>1, <2>4, <2>6, <2>7 DEF Unserved
<1>3. ASSUME NEW v, Ends(v), stage # "idle" PROVE Unserved'
  BY <1>3 DEF WorkerTypeOK, Unserved, Ends, LockAfter
<1>4. CASE UNCHANGED <<waiting, holder, result>>
  BY <1>4 DEF Unserved
<1>5. CASE Proxy
  BY <1>2, <1>3, <1>4, <1>5 DEF Proxy, Spawn, SpawnRaises, SendCall, SendRaises, ReadInit, ReadReply, ReadEnd
<1>6. CASE Work \/ Die \/ Reap \/ UNCHANGED workerVars
  BY <1>4, <1>6 DEF Work, WorkInit, WorkCall, Die, Reap, proxy, workerVars
<1> QED
  BY <1>1, <1>5, <1>6 DEF WorkerNext

-----------------------------------------------------------------------------

(* The inductive invariant, while the plugin does not print. *)
LEMMA WorkerStep ==
    ASSUME Prints = FALSE, WorkerInv, [WorkerNext]_workerVars
    PROVE  WorkerInv'
<1> USE WorkerAssumption
<1>1. WorkerTypeOK' /\ Unserved'
  BY WorkerTypesStep, UnservedStep DEF WorkerInv
<1> DEFINE Pipes ==
      /\ stage \in {"idle", "ensure"} => NoExchange
      /\ stage = "init" => Exchange("init")
      /\ stage = "call" => Exchange(holder)
      /\ ReplyIsJudgement
      /\ PassedWasApproved
<1> SUFFICES Pipes'
  BY <1>1 DEF WorkerInv
<1>2. WorkerTypeOK /\ Unserved /\ Pipes
  BY DEF WorkerInv
<1> USE DEF NoExchange
<1>3. (* a step of the queue leaves the pipes and the verdicts alone *)
      ASSUME NEW c \in Calls, Ask(c) PROVE Pipes'
  BY <1>2, <1>3 DEF Ask, worker, Exchange, ReplyIsJudgement, PassedWasApproved
<1>4. CASE Take
  <2>1. stage = "idle"
    BY <1>2, <1>4 DEF WorkerTypeOK, Take, MayTake
  <2> QED
    BY <1>2, <1>4, <2>1 DEF Take, worker, ReplyIsJudgement, PassedWasApproved
<1>5. CASE Spawn
  BY <1>2, <1>5 DEF Spawn, Exchange, ReplyIsJudgement, PassedWasApproved
<1>6. (* a stage that raises with nothing left in the pipes *)
      ASSUME Ends("raised"), NoExchange', UNCHANGED judged, stage # "idle" PROVE Pipes'
  <2>1. outbox' = <<>> /\ inbox' = <<>> /\ stage' = "idle"
    BY <1>6 DEF Ends
  <2>2. PassedWasApproved'
    BY <1>2, <1>6 DEF Ends, WorkerTypeOK, PassedWasApproved
  <2> QED
    BY <2>1, <2>2 DEF ReplyIsJudgement
<1>7. CASE SpawnRaises \/ SendRaises
  BY <1>2, <1>6, <1>7 DEF SpawnRaises, SendRaises, worker
<1>8. CASE SendCall
  <2>1. NoExchange /\ outbox' = <<>> /\ stage' = "call" /\ UNCHANGED <<holder, proc, result, judged>>
    BY <1>2, <1>8 DEF SendCall
  <2>2. proc = "running" => inbox' = <<holder>>
    BY <1>8, <2>1 DEF SendCall, Writes
  <2>3. proc # "running" => inbox' = <<>>
    BY <1>8, <2>1 DEF SendCall, Writes
  <2> QED
    BY <1>2, <2>1, <2>2, <2>3 DEF Exchange, ReplyIsJudgement, PassedWasApproved
<1>9. CASE ReadInit
  <2>1. PICK ok \in BOOLEAN : inbox = <<>> /\ outbox = <<Line("init", ok)>>
    BY <1>2, <1>9 DEF ReadInit, Exchange
  <2>2. Head(outbox) = Line("init", ok) /\ outbox' = <<>>
    BY <1>9, <2>1 DEF ReadInit
  <2>3. CASE Ends("raised") /\ UNCHANGED inbox
    BY <1>6, <1>9, <2>1, <2>2, <2>3 DEF ReadInit
  <2>4. CASE /\ Writes(holder) /\ stage' = "call"
             /\ UNCHANGED <<holder, proc, result, judged>>
    <3>1. Exchange(holder)'
      BY <2>1, <2>2, <2>4 DEF Exchange, Writes
    <3> QED
      BY <1>2, <2>2, <2>4, <3>1 DEF ReplyIsJudgement, PassedWasApproved
  <2> QED
    BY <1>9, <2>3, <2>4 DEF ReadInit
<1>10. CASE ReadReply
  <2>1. PICK ok \in BOOLEAN : inbox = <<>> /\ outbox = <<Line(holder, ok)>>
    BY <1>2, <1>10 DEF ReadReply, Exchange
  <2>2. Head(outbox) = Line(holder, ok) /\ outbox[1] = Line(holder, ok) /\ 1 \in DOMAIN outbox
    BY <2>1
  <2>3. outbox' = <<>> /\ inbox' = <<>> /\ stage' = "idle" /\ UNCHANGED judged
    BY <1>10, <2>1 DEF ReadReply, Ends
  <2>4. holder \in Calls
    BY <1>2, <1>10 DEF WorkerTypeOK, ReadReply
  <2>5. Verdict(Head(outbox)) = "passed" => judged[holder] = "approved"
    BY <1>2, <2>2, <2>4 DEF ReplyIsJudgement, Verdict, Line
  <2>6. result' = [result EXCEPT ![holder] = Verdict(Head(outbox))]
    BY <1>10 DEF ReadReply, Ends
  <2>7. PassedWasApproved'
    BY <1>2, <2>3, <2>4, <2>5, <2>6 DEF PassedWasApproved, WorkerTypeOK
  <2> QED
    BY <2>3, <2>7 DEF ReplyIsJudgement
<1>11. CASE ReadEnd
  <2>1. inbox = <<>> /\ outbox = <<>>
    BY <1>2, <1>11 DEF ReadEnd, AtEnd, Exchange
  <2> QED
    BY <1>6, <1>11, <2>1 DEF ReadEnd, worker
<1>12. ASSUME NEW ok \in BOOLEAN, WorkInit(ok) PROVE Pipes'
  <2>1. stage = "init" /\ inbox = <<"init">> /\ outbox = <<>>
    BY <1>2, <1>12 DEF WorkInit, Exchange, WorkerTypeOK
  <2>2. outbox' = <<Line("init", ok)>> /\ inbox' = <<>> /\ UNCHANGED <<proxy, judged>>
    BY <1>12, <2>1 DEF WorkInit, Says
  <2>3. ReplyIsJudgement'
    <3>1. \A n \in DOMAIN outbox' : outbox'[n].of = "init"
      BY <2>2 DEF Line
    <3> QED
      BY <3>1 DEF ReplyIsJudgement
  <2> QED
    BY <1>2, <2>1, <2>2, <2>3 DEF Exchange, proxy, PassedWasApproved
<1>13. ASSUME NEW ok \in BOOLEAN, WorkCall(ok) PROVE Pipes'
  <2>1. stage = "call" /\ inbox = <<holder>> /\ outbox = <<>>
    BY <1>2, <1>13 DEF WorkCall, Exchange, WorkerTypeOK
  <2>2. /\ outbox' = <<Line(holder, ok)>> /\ inbox' = <<>> /\ UNCHANGED proxy
        /\ judged' = [judged EXCEPT ![holder] = IF ok THEN "approved" ELSE "rejected"]
    BY <1>13, <2>1 DEF WorkCall, Says
  <2>3. holder \in Calls /\ result[holder] = "none"
    BY <1>2, <2>1 DEF WorkerTypeOK, Unserved
  <2>4. ReplyIsJudgement'
    <3>1. \A n \in DOMAIN outbox' : outbox'[n] = Line(holder, ok)
      BY <2>2
    <3>2. ok => judged'[holder] = "approved"
      BY <1>2, <2>2, <2>3 DEF WorkerTypeOK
    <3> QED
      BY <3>1, <3>2 DEF ReplyIsJudgement, Line
  <2>5. PassedWasApproved'
    BY <1>2, <2>2, <2>3 DEF PassedWasApproved, WorkerTypeOK, proxy
  <2> QED
    BY <2>1, <2>2, <2>4, <2>5 DEF Exchange, proxy
<1>14. CASE Die
  <2>1. inbox' = <<>> /\ proc' # "running" /\ UNCHANGED <<outbox, proxy, judged>>
    BY <1>14 DEF Die
  <2> QED
    BY <1>2, <2>1 DEF Exchange, proxy, ReplyIsJudgement, PassedWasApproved
<1>15. CASE Reap
  BY <1>2, <1>15 DEF Reap, Exchange, proxy, ReplyIsJudgement, PassedWasApproved
<1>16. CASE UNCHANGED workerVars
  BY <1>2, <1>16 DEF workerVars, Exchange, ReplyIsJudgement, PassedWasApproved
<1> QED
  BY <1>3, <1>4, <1>5, <1>7, <1>8, <1>9, <1>10, <1>11, <1>12, <1>13, <1>14, <1>15, <1>16
     DEF WorkerNext, Proxy, Work

LEMMA WorkerStarts == WorkerInit => WorkerInv
<1> SUFFICES ASSUME WorkerInit PROVE WorkerInv
  OBVIOUS
<1>1. <<>> \in Seq(Calls) /\ <<>> \in Seq(Calls \cup {"init"}) /\ <<>> \in Seq(Lines)
  BY EmptySeq
<1>2. WorkerTypeOK
  BY <1>1, WorkerAssumption DEF WorkerInit, WorkerTypeOK
<1>3. DOMAIN <<>> = {}
  BY EmptySeq
<1>4. Unserved /\ ReplyIsJudgement
  BY <1>3 DEF WorkerInit, Unserved, ReplyIsJudgement
<1>5. PassedWasApproved
  BY DEF WorkerInit, PassedWasApproved
<1>6. stage = "idle" /\ NoExchange
  BY DEF WorkerInit, NoExchange
<1> QED
  BY <1>2, <1>4, <1>5, <1>6 DEF WorkerInv

(* A request passes a stage only if the plugin approved that very request,  *)
(* over any interleaving of calls, deaths and restarts, as long as nothing *)
(* but the worker writes to its stdout (dynamic.py:51 to :97).             *)
THEOREM RepliesNotConfused ==
    ASSUME Prints = FALSE PROVE WorkerSpec => []PassedWasApproved
<1>1. WorkerInv /\ [WorkerNext]_workerVars => WorkerInv'
  BY WorkerStep
<1>2. WorkerInv => PassedWasApproved
  BY DEF WorkerInv
<1>3. WorkerInit => WorkerInv
  BY WorkerStarts
<1> QED
  BY <1>1, <1>2, <1>3, PTL DEF WorkerSpec

-----------------------------------------------------------------------------

(* No judgement is taken back: each exchange is of a call not judged yet. *)
LEMMA FreshStep ==
    ASSUME Prints = FALSE, WorkerInv, Fresh, [WorkerNext]_workerVars
    PROVE  Fresh'
<1> USE WorkerAssumption
<1>1. WorkerTypeOK /\ Unserved /\ (stage = "call" => Exchange(holder)) /\ (stage = "init" => Exchange("init"))
  BY DEF WorkerInv
<1>2. stage \in {"idle", "ensure"} => inbox = <<>> /\ outbox = <<>>
  BY DEF WorkerInv, NoExchange
<1>3. ASSUME NEW c \in Calls, Ask(c) PROVE Fresh'
  BY <1>3 DEF Ask, worker, Fresh
<1>4. CASE Take
  <2>1. /\ holder = Nobody /\ holder' = Head(waiting) /\ stage' = "ensure"
        /\ UNCHANGED <<result, inbox, judged>> /\ waiting # <<>>
    BY <1>4 DEF Take, MayTake, worker
  <2>2. Head(waiting) \in Calls /\ 1 \in DOMAIN waiting /\ Head(waiting) = waiting[1]
    BY <1>1, <2>1 DEF WorkerTypeOK
  <2>3. result[Head(waiting)] = "none"
    BY <1>1, <2>2 DEF Unserved
  <2> QED
    BY <2>1, <2>2, <2>3 DEF Fresh
<1>5. (* the holder of the lock ends *)
      ASSUME NEW v \in {"passed", "raised"}, Ends(v), stage # "idle", UNCHANGED judged PROVE Fresh'
  BY <1>1, <1>5 DEF WorkerTypeOK, Ends, LockAfter, Fresh
<1>6. CASE Spawn
  BY <1>6 DEF Spawn, Fresh
<1>7. CASE SendCall
  BY <1>7 DEF SendCall, Fresh
<1>8. CASE ReadInit
  BY <1>5, <1>8 DEF ReadInit, Fresh
<1>9. CASE SpawnRaises \/ SendRaises \/ ReadReply \/ ReadEnd
  BY <1>5, <1>9 DEF SpawnRaises, SendRaises, ReadReply, ReadEnd, Verdict, worker
<1>10. ASSUME NEW ok \in BOOLEAN, WorkInit(ok) PROVE Fresh'
  <2>1. UNCHANGED <<holder, stage, result, judged>> /\ inbox # <<>> /\ Head(inbox) = "init"
    BY <1>10 DEF WorkInit, proxy
  <2>2. CASE stage = "call"
    <3>1. inbox = <<holder>> /\ holder \in Calls
      BY <1>1, <2>1, <2>2 DEF Exchange, NoExchange, WorkerTypeOK
    <3> QED
      BY <2>1, <3>1
  <2>3. CASE stage # "call"
    BY <2>1, <2>3 DEF Fresh
  <2> QED
    BY <2>2, <2>3
<1>11. ASSUME NEW ok \in BOOLEAN, WorkCall(ok) PROVE Fresh'
  <2>1. stage = "call" /\ inbox = <<holder>>
    BY <1>1, <1>2, <1>11 DEF WorkCall, Exchange, NoExchange, WorkerTypeOK
  <2>2. /\ UNCHANGED <<holder, stage, result>> /\ inbox' = <<>>
        /\ judged' = [judged EXCEPT ![holder] = IF ok THEN "approved" ELSE "rejected"]
    BY <1>11, <2>1 DEF WorkCall, proxy
  <2> QED
    BY <1>1, <2>1, <2>2 DEF Fresh, WorkerTypeOK
<1>12. CASE Die \/ Reap \/ UNCHANGED workerVars
  BY <1>12 DEF Die, Reap, proxy, workerVars, Fresh
<1> QED
  BY <1>3, <1>4, <1>6, <1>7, <1>8, <1>9, <1>10, <1>11, <1>12 DEF WorkerNext, Proxy, Work

(* The queue of the contract, by what holds the lock. *)
QueueShape ==
    /\ Queue \in Seq(Calls)
    /\ holder = Nobody => Queue = waiting
    /\ holder # Nobody =>
          Queue = <<holder>> \o waiting /\ Queue # <<>> /\ Head(Queue) = holder /\ Tail(Queue) = waiting

(* A queue, made of a holder and of those who wait. *)
LEMMA QueueForm ==
    ASSUME NEW w \in Seq(Calls), NEW h \in Calls \cup {Nobody}, NEW q,
           q = (IF h = Nobody THEN <<>> ELSE <<h>>) \o w
    PROVE  /\ q \in Seq(Calls)
           /\ h = Nobody => q = w
           /\ h # Nobody => q = <<h>> \o w /\ q # <<>> /\ Head(q) = h /\ Tail(q) = w
<1>1. CASE h = Nobody
  <2>1. <<>> \o w = w
    BY ConcatEmptySeq
  <2> QED
    BY <1>1, <2>1
<1>2. CASE h # Nobody
  <2>1. <<h>> \in Seq(Calls) /\ Len(<<h>>) = 1 /\ <<h>>[1] = h
    BY <1>2
  <2>2. q = <<h>> \o w
    BY <1>2
  <2>3. q \in Seq(Calls) /\ Len(q) = 1 + Len(w) /\ q[1] = h
    BY <2>1, <2>2, ConcatProperties
  <2>4. \A n \in 1 .. Len(w) : q[n + 1] = w[n]
    BY <2>1, <2>2, ConcatProperties
  <2>5. q # <<>> /\ Head(q) = h
    BY <2>3
  <2>6. Tail(q) \in Seq(Calls) /\ Len(Tail(q)) = Len(w)
    BY <2>3, <2>5
  <2>7. \A n \in 1 .. Len(w) : Tail(q)[n] = w[n]
    BY <2>3, <2>4, <2>6
  <2>8. Tail(q) = w
    BY <2>6, <2>7, SeqEqual
  <2> QED
    BY <1>2, <2>2, <2>3, <2>5, <2>8
<1> QED
  BY <1>1, <1>2

(* Each step of the proxy and of the worker is one of the contract's.      *)
LEMMA StepImplements ==
    ASSUME Prints = FALSE, WorkerInv, Fresh, [WorkerNext]_workerVars
    PROVE  [Contract!Next]_(Contract!vars)
<1> USE WorkerAssumption
<1> USE DEF Contract!vars
<1>1. WorkerTypeOK /\ WorkerTypeOK' /\ Unserved /\ (stage = "call" => Exchange(holder))
  BY WorkerTypesStep DEF WorkerInv
<1>2. QueueShape /\ QueueShape'
  <2>1. waiting \in Seq(Calls) /\ holder \in Calls \cup {Nobody}
    BY <1>1 DEF WorkerTypeOK
  <2>2. waiting' \in Seq(Calls) /\ holder' \in Calls \cup {Nobody}
    BY <1>1 DEF WorkerTypeOK
  <2>3. QueueShape
    BY <2>1, QueueForm DEF QueueShape, Queue
  <2>4. QueueShape'
    BY <2>2, QueueForm DEF QueueShape, Queue
  <2> QED
    BY <2>3, <2>4
<1>3. stage \in {"idle", "ensure"} => inbox = <<>> /\ outbox = <<>>
  BY DEF WorkerInv, NoExchange
<1>4. (* what leaves the queue, the results and the judgements alone stutters *)
      ASSUME UNCHANGED <<waiting, holder, result, judged>> PROVE UNCHANGED Contract!vars
  BY <1>4 DEF Queue, Approved
<1>5. ASSUME NEW c \in Calls, Ask(c) PROVE Contract!Ask(c)
  <2>1. /\ result[c] = "none" /\ c # holder /\ \A n \in DOMAIN waiting : waiting[n] # c
        /\ waiting' = Append(waiting, c) /\ UNCHANGED <<holder, result, judged>>
    BY <1>5 DEF Ask, worker
  <2>2. waiting \in Seq(Calls) /\ waiting' = waiting \o <<c>> /\ <<c>> \in Seq(Calls)
    BY <1>1, <2>1, AppendIsConcat DEF WorkerTypeOK
  <2>3. CASE holder = Nobody
    <3>1. Queue = waiting /\ Queue' = waiting'
      BY <1>2, <2>1, <2>3 DEF QueueShape
    <3> QED
      BY <2>1, <3>1 DEF Contract!Ask, Approved
  <2>4. CASE holder # Nobody
    <3>1. holder \in Calls /\ <<holder>> \in Seq(Calls)
      BY <1>1, <2>4 DEF WorkerTypeOK
    <3>2. Queue = <<holder>> \o waiting /\ Queue' = <<holder>> \o (waiting \o <<c>>)
      BY <1>2, <2>1, <2>2, <2>4 DEF QueueShape
    <3>3. Queue' = Queue \o <<c>>
      BY <2>2, <3>1, <3>2, ConcatAssociative
    <3>4. Queue' = Append(Queue, c)
      BY <1>2, <3>3, AppendIsConcat DEF QueueShape
    <3>5. \A n \in DOMAIN Queue : Queue[n] = holder \/ \E m \in DOMAIN waiting : Queue[n] = waiting[m]
      <4> SUFFICES ASSUME NEW n \in DOMAIN Queue
                   PROVE  Queue[n] = holder \/ \E m \in DOMAIN waiting : Queue[n] = waiting[m]
        OBVIOUS
      <4>1. Len(<<holder>>) = 1 /\ <<holder>>[1] = holder
        OBVIOUS
      <4>2. Len(Queue) = 1 + Len(waiting) /\ n \in 1 .. Len(Queue)
        BY <1>2, <2>2, <3>1, <3>2, <4>1, ConcatProperties DEF QueueShape
      <4>3. Queue[n] = IF n <= 1 THEN <<holder>>[n] ELSE waiting[n - 1]
        BY <2>2, <3>1, <3>2, <4>1, <4>2, ConcatProperties
      <4> QED
        BY <2>2, <4>1, <4>2, <4>3
    <3> QED
      BY <2>1, <3>4, <3>5 DEF Contract!Ask, Approved
  <2> QED
    BY <2>3, <2>4
<1>6. CASE Take
  <2>1. /\ holder = Nobody /\ waiting # <<>> /\ waiting \in Seq(Calls)
        /\ holder' = Head(waiting) /\ waiting' = Tail(waiting) /\ UNCHANGED <<result, judged>>
    BY <1>1, <1>6 DEF Take, MayTake, worker, WorkerTypeOK
  <2>2. holder' \in Calls /\ waiting' \in Seq(Calls) /\ Len(waiting) >= 1 /\ waiting[1] = holder'
    BY <2>1
  <2>3. <<holder'>> \in Seq(Calls) /\ Len(<<holder'>>) = 1 /\ <<holder'>>[1] = holder'
    BY <2>2
  <2>4. Queue = waiting /\ Queue' = <<holder'>> \o waiting'
    BY <1>2, <2>1, <2>2 DEF QueueShape
  <2>5. Len(waiting') = Len(waiting) - 1 /\ \A n \in 1 .. Len(waiting') : waiting'[n] = waiting[n + 1]
    BY <2>1, HeadTailProperties
  <2>6. /\ <<holder'>> \o waiting' \in Seq(Calls)
        /\ Len(<<holder'>> \o waiting') = Len(waiting)
        /\ \A n \in 1 .. Len(waiting) :
              (<<holder'>> \o waiting')[n] = IF n <= 1 THEN <<holder'>>[n] ELSE waiting'[n - 1]
    BY <2>2, <2>3, <2>5, ConcatProperties
  <2>7. \A n \in 1 .. Len(waiting) : (<<holder'>> \o waiting')[n] = waiting[n]
    BY <2>1, <2>2, <2>3, <2>5, <2>6
  <2>8. <<holder'>> \o waiting' = waiting
    BY <2>1, <2>6, <2>7, SeqEqual
  <2> QED
    BY <2>1, <2>4, <2>8 DEF Approved
<1>7. (* the holder ends: the oldest call of the contract's queue *)
      ASSUME NEW v \in {"passed", "raised"}, Ends(v), stage # "idle", UNCHANGED judged,
             v = "passed" => judged[holder] = "approved"
      PROVE  Contract!End(v)
  <2>1. holder \in Calls /\ holder' = Nobody /\ waiting' = waiting /\ result' = [result EXCEPT ![holder] = v]
    BY <1>1, <1>7 DEF Ends, LockAfter, WorkerTypeOK
  <2>2. Queue # <<>> /\ Head(Queue) = holder /\ Queue' = Tail(Queue)
    BY <1>2, <2>1 DEF QueueShape
  <2> QED
    BY <1>7, <2>1, <2>2 DEF Contract!End, Approved
<1>8. CASE Spawn \/ SendCall \/ Die \/ Reap \/ UNCHANGED workerVars
  BY <1>4, <1>8 DEF Spawn, SendCall, Die, Reap, proxy, workerVars
<1>9. CASE SpawnRaises \/ SendRaises \/ ReadEnd
  <2>1. Ends("raised") /\ stage # "idle" /\ UNCHANGED judged
    BY <1>9 DEF SpawnRaises, SendRaises, ReadEnd, worker
  <2> QED
    BY <1>7, <2>1 DEF Contract!Next
<1>10. CASE ReadInit
  <2>1. CASE Ends("raised")
    <3>1. Ends("raised") /\ stage # "idle" /\ UNCHANGED judged
      BY <1>10, <2>1 DEF ReadInit
    <3> QED
      BY <1>7, <3>1 DEF Contract!Next
  <2>2. CASE UNCHANGED <<waiting, holder, result>>
    BY <1>4, <1>10, <2>2 DEF ReadInit
  <2> QED
    BY <1>10, <2>1, <2>2 DEF ReadInit
<1>11. CASE ReadReply
  <2>1. PICK ok \in BOOLEAN : outbox = <<Line(holder, ok)>>
    BY <1>1, <1>11 DEF ReadReply, Exchange, NoExchange
  <2>2. holder \in Calls /\ 1 \in DOMAIN outbox /\ Head(outbox) = Line(holder, ok) /\ outbox[1] = Line(holder, ok)
    BY <1>1, <1>11, <2>1 DEF ReadReply, WorkerTypeOK
  <2>3. Ends(Verdict(Head(outbox))) /\ stage # "idle" /\ UNCHANGED judged
    BY <1>11 DEF ReadReply
  <2>4. Verdict(Head(outbox)) = "passed" => judged[holder] = "approved"
    BY <2>2 DEF WorkerInv, ReplyIsJudgement, Verdict, Line
  <2>5. Contract!End(Verdict(Head(outbox)))
    BY <1>7, <2>3, <2>4 DEF Verdict
  <2> QED
    BY <2>5 DEF Contract!Next, Verdict
<1>12. ASSUME NEW ok \in BOOLEAN, WorkInit(ok) PROVE UNCHANGED Contract!vars
  BY <1>4, <1>12 DEF WorkInit, proxy
<1>13. ASSUME NEW ok \in BOOLEAN, WorkCall(ok) PROVE [Contract!Approve]_(Contract!vars)
  <2>1. stage = "call" /\ inbox = <<holder>>
    <3>1. stage # "init"
      BY <1>13 DEF WorkCall, WorkerInv, Exchange, NoExchange
    <3> QED
      BY <1>1, <1>3, <1>13, <3>1 DEF WorkCall, Exchange, NoExchange, WorkerTypeOK
  <2>2. /\ UNCHANGED <<waiting, holder, result>>
        /\ judged' = [judged EXCEPT ![holder] = IF ok THEN "approved" ELSE "rejected"]
    BY <1>13, <2>1 DEF WorkCall, proxy
  <2>3. holder \in Calls /\ judged[holder] = "none" /\ Queue # <<>> /\ Head(Queue) = holder
    BY <1>1, <1>2, <2>1 DEF Fresh, WorkerTypeOK, QueueShape
  <2>4. Queue' = Queue
    BY <2>2 DEF Queue
  <2>5. Approved' = IF ok THEN Approved \cup {holder} ELSE Approved
    BY <1>1, <2>2, <2>3 DEF Approved, WorkerTypeOK
  <2> QED
    BY <2>2, <2>3, <2>4, <2>5 DEF Contract!Approve
<1> QED
  BY <1>5, <1>6, <1>8, <1>9, <1>10, <1>11, <1>12, <1>13
     DEF WorkerNext, Proxy, Work, Contract!Next

(* Whatever carries the messages, the proxy and the worker do nothing that *)
(* HookContract does not allow: calls are served one at a time in the      *)
(* order they were asked for and pass only when approved (dynamic.py:51 to *)
(* :97); that every call ends is left to the model checker.                *)
THEOREM ImplementsContract ==
    ASSUME Prints = FALSE PROVE WorkerSpec => Contract!Spec
<1>1. WorkerInit => Contract!Init
  <2> SUFFICES ASSUME WorkerInit PROVE Contract!Init
    OBVIOUS
  <2>1. Queue = <<>>
    <3>1. <<>> \o <<>> = <<>>
      BY EmptySeq, ConcatEmptySeq
    <3> QED
      BY <3>1 DEF WorkerInit, Queue
  <2>2. Approved = {} /\ result = [c \in Calls |-> "none"]
    BY DEF WorkerInit, Approved
  <2> QED
    BY <2>1, <2>2 DEF Contract!Init
<1>2. WorkerInit => Fresh
  BY DEF WorkerInit, Fresh
<1>3. WorkerInv /\ [WorkerNext]_workerVars => WorkerInv'
  BY WorkerStep
<1>4. WorkerInv /\ Fresh /\ [WorkerNext]_workerVars => Fresh'
  BY FreshStep
<1>5. WorkerInv /\ Fresh /\ [WorkerNext]_workerVars => [Contract!Next]_(Contract!vars)
  BY StepImplements
<1>6. WorkerInit => WorkerInv
  BY WorkerStarts
<1> QED
  BY <1>1, <1>2, <1>3, <1>4, <1>5, <1>6, PTL DEF WorkerSpec, Contract!Spec

=============================================================================
