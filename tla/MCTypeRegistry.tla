--------------------------- MODULE MCTypeRegistry ---------------------------
(***************************************************************************)
(* Instances of TypeRegistry for TLC, with shards named by numbers.         *)
(***************************************************************************)
EXTENDS TypeRegistry

ThreeShards == {0, 1, 2}

TwoShards == {0, 1}

ShardZero == {0}

=============================================================================
