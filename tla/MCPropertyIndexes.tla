------------------------- MODULE MCPropertyIndexes -------------------------
(***************************************************************************)
(* Instance of PropertyIndexes for TLC: two shards, one value at home on   *)
(* each; two nodes on shard 0, so that one can hide from the fill, and one *)
(* on shard 1; indexes are created and deleted on shard 0.                 *)
(***************************************************************************)
EXTENDS PropertyIndexes

CONSTANT k3

MCValue == {0, 2}

MCKeyHome == [k \in Key |-> IF k = k3 THEN 1 ELSE 0]

MCHome == [v \in {0, 2} |-> IF v = 0 THEN 0 ELSE 1]

=============================================================================
