---------------------------- MODULE MCGraphShards ----------------------------
(***************************************************************************)
(* Instances of GraphShards for TLC: two shards, named by numbers.         *)
(***************************************************************************)
EXTENDS GraphShards, TLC

CONSTANTS k1, k2, k3

TwoShards == {0, 1}

TwoShardIds == TwoShards \X Slot

\* One key on shard 0, the others on shard 1.
OneAndTwo == [k \in Key |-> IF k = k1 THEN 0 ELSE 1]

\* Clients are alike; only runs without liveness properties use it.
ClientSymmetry == Permutations(Client)

=============================================================================
