---------------------------- MODULE PluginEngine ----------------------------
(***************************************************************************)
(* Which plugins of a route run in which phase, and in which order         *)
(* (src/app/plugins/engine.py).  The registry maps a plugin type to the    *)
(* phase of its instance.  A route lists plugins as objects, which may     *)
(* give an order, or as bare names; anything else in the list is ignored.  *)
(* Configuration, tracing and logging are left out.                        *)
(***************************************************************************)
EXTENDS Integers, Sequences, FiniteSets, SequencesExt

CONSTANTS Types   \* plugin types

Phases == {"absent", "before_after", "forward"}
Registries == [Types -> Phases]

(* What a route document may list: an object with or without an order, a   *)
(* name (an object without an order), or an element the engine ignores.    *)
Ordered(type, order) == [type |-> type, order |-> <<order>>]
Named(type) == [type |-> type, order |-> <<>>]
Ignored == [type |-> "", order |-> <<>>]

Elements == [type : Types \cup {""}, order : Seq(Int)]

(* _normalized_plugins: the places of a list that name a plugin, and the   *)
(* order of one, by default its place, the ignored elements counted.       *)
Listed(list) == {n \in DOMAIN list : list[n].type # ""}

OrderOf(list, n) == IF list[n].order = <<>> THEN n ELSE list[n].order[1]

(* sorted(..., key=itemgetter("order")): equal orders keep their places.   *)
(* A place of S is preceded by as many as are earlier.                     *)
Earlier(list, m, n) ==
    \/ OrderOf(list, m) < OrderOf(list, n)
    \/ OrderOf(list, m) = OrderOf(list, n) /\ m < n

Rank(list, S, n) == Cardinality({m \in S : Earlier(list, m, n)})

Sorted(list, S) == [k \in 1 .. Cardinality(S) |-> CHOOSE n \in S : Rank(list, S, n) = k - 1]

TypesAt(list, places) == [k \in DOMAIN places |-> list[places[k]].type]

(* run_before: every listed type but those of order 0, by order. *)
BeforePlaces(list) == Sorted(list, {n \in Listed(list) : OrderOf(list, n) # 0})

BeforeOrder(list) == TypesAt(list, BeforePlaces(list))

(* run_after: the same, reversed. *)
AfterOrder(list) == Reverse(BeforeOrder(list))

(* run_forward: the forward plugins, those of order 0 included. *)
ForwardChain(list, registry) ==
    TypesAt(list, Sorted(list, {n \in Listed(list) : registry[list[n].type] = "forward"}))

(* The types a route asks for in either phase. *)
Asked(list) == Range(BeforeOrder(list))
=============================================================================
