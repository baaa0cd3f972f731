-------------------------- MODULE MCNodeLifecycle --------------------------
(***************************************************************************)
(* Instance of NodeLifecycle for TLC: four keys, four slots, so that a slot *)
(* can be freed, reused and overtaken by removals on both sides of it.      *)
(***************************************************************************)
EXTENDS NodeLifecycle, TLC

Symmetry == Permutations(Key)

=============================================================================
