-------------------------------- MODULE Paging --------------------------------
(***************************************************************************)
(* Listing nodes (Listings) while nodes are added and removed.             *)
(***************************************************************************)
EXTENDS NodeTypes, SequencesExt

CONSTANTS Shard, Type, Scope, Everything, Pages,    \* see Listings
          ShardOf,       \* the shard a key's node lives on
          Named,         \* the keys clients use with each type: a set of <<key, type>>
          MaxFreed       \* bound of the model: so many slots are free at any time, at most

ASSUME PagingAssumption ==
    /\ ShardOf \in [Key -> ToSet(Shard)]
    /\ Named \subseteq Key \X ToSet(Type)
    /\ Scope \subseteq ToSet(Type) \cup {Everything}
    /\ Everything \notin ToSet(Type)
    /\ MaxFreed \in Nat
    /\ Pages \subseteq Nat \X Nat
    /\ \A page \in Pages : page[1] + page[2] < Word

VARIABLES nodes,       \* nodes[s][t]: the columns of type t on shard s
          listing      \* the listing in progress, or the last one

vars == <<nodes, listing>>

HeldIn(t) == {t.keyToNodeId[k] : k \in KeysHeld(t)}

FreedIn(t) == t.deletedIds

INSTANCE Listings
    WITH columns <- nodes, CountOf <- getCount, IdsOf <- getIds,
         HeldOf <- HeldIn, FreedOf <- FreedIn

TypeOK ==
    /\ nodes \in [ToSet(Shard) -> [ToSet(Type) -> NodeType]]
    /\ listing \in Listing

Init ==
    /\ nodes = [s \in ToSet(Shard) |-> [t \in ToSet(Type) |-> EmptyNodeType]]
    /\ listing = NoListing

AddNode(k, t) ==
    /\ HasRoom(nodes[ShardOf[k]][t])
    /\ nodes[ShardOf[k]][t].keyToNodeId[k] = NoSlot
    /\ nodes' = [nodes EXCEPT ![ShardOf[k]][t] = NodeAdd(@, k)]
    /\ Note("added")

RemoveNode(s, t, i) ==
    /\ ValidNodeId(nodes[s][t], i)
    /\ Cardinality(Freed) < MaxFreed
    /\ nodes' = [nodes EXCEPT ![s][t] = NodeRemove(@, i)]
    /\ Note("removed")

Next ==
    \/ \E n \in Named : AddNode(n[1], n[2])
    \/ \E s \in ToSet(Shard), t \in ToSet(Type), i \in Slot : RemoveNode(s, t, i)
    \/ Continue

Spec == Init /\ [][Next]_vars

=============================================================================
