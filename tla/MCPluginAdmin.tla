--------------------------- MODULE MCPluginAdmin ---------------------------
(* Two types, one of them stored with phase "forward", and three saves and *)
(* three reloads that overlap in every way: two saves of a type that both  *)
(* insert it and a third that updates it, a reload overtaken by another    *)
(* and one after both.                                                     *)
EXTENDS PluginAdmin, TLC

CONSTANTS s1, s2, s3, l1, l2, l3

Alike == Permutations({s1, s2, s3}) \cup Permutations({l1, l2, l3})
=============================================================================
