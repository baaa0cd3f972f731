------------------------------ MODULE MCCaches ------------------------------
(***************************************************************************)
(* Instance of Caches for TLC: two shards, three queries for a plan cache  *)
(* of two, two writes; schema statements run on both shards.               *)
(***************************************************************************)
EXTENDS Caches, TLC

Symmetric == Permutations(Query) \cup Permutations(Write)

=============================================================================
