------------------------------- MODULE MCPaging -------------------------------
(***************************************************************************)
(* Instances of Paging and RelationshipPaging for TLC: a behaviour is about *)
(* one of the two. Two shards and two types, so that a page may begin and   *)
(* end inside a shard, on its edge, or on the next one.                     *)
(***************************************************************************)
EXTENDS Paging, TLC

CONSTANTS NodeRef, NoId, MaxRels, k1, k2, k3, k4, t1, t2

TwoShards == <<1, 2>>

TwoTypes == <<t1, t2>>

\* Three keys on the first shard and one on the second.
ThreeAndOne == [k \in Key |-> IF k = k4 THEN 2 ELSE 1]

\* Three nodes of the first type on the first shard and one on the second.
FourNodes == {<<k1, t1>>, <<k2, t1>>, <<k3, t1>>, <<k4, t1>>}

SomePages == {<<0, 2>>, <<0, 5>>, <<1, 1>>}

\* The keys of the first type on the first shard are alike.
FirstShardSymmetry == Permutations({k1, k2, k3})

-----------------------------------------------------------------------------

VARIABLES about, rels, relListing

\* Three relationships of the first type on the first shard and one on the second, and one of
\* the second type on the first shard.
FiveRelationships ==
    [p \in ToSet(Shard) \X ToSet(Type) |->
        CASE p = <<1, t1>> -> 3
          [] p \in {<<2, t1>>, <<1, t2>>} -> 1
          [] OTHER -> 0]

R == INSTANCE RelationshipPaging WITH Room <- FiveRelationships, listing <- relListing

MCInit == Init /\ R!Init /\ about \in {"nodes", "relationships"}

MCNext ==
    \/ about = "nodes" /\ Next /\ UNCHANGED <<about, rels, relListing>>
    \/ about = "relationships" /\ R!Next /\ UNCHANGED <<about, nodes, listing>>

MCSpec == MCInit /\ [][MCNext]_<<about, nodes, listing, rels, relListing>>

\* FirstPageExact, of nodes and of relationships.
EveryFirstPageExact == FirstPageExact /\ R!FirstPageExact

\* PageOfOneShardExact, of nodes and of relationships.
EveryPageOfOneShardExact == PageOfOneShardExact /\ R!PageOfOneShardExact

\* NothingHeldIsMissed, of nodes and of relationships.
NothingListedIsMissed == NothingHeldIsMissed /\ R!NothingHeldIsMissed

=============================================================================
