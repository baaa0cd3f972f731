-------------------------- MODULE RelationshipPaging --------------------------
(***************************************************************************)
(* Listing relationships (Listings) while relationships are added and      *)
(* removed. They are counted by the length of their vectors, not by the    *)
(* size of a map.                                                          *)
(***************************************************************************)
EXTENDS RelationshipTypes, SequencesExt

CONSTANTS Shard, Type, Scope, Everything, Pages, Word,    \* see Listings
          Room,          \* bound of the model: how many relationships of a type a shard holds at
                         \* most, in [ToSet(Shard) \X ToSet(Type) -> 0 .. MaxRels]
          MaxFreed       \* bound of the model: so many slots are free at any time, at most

VARIABLES rels,        \* rels[s][t]: the columns of type t on shard s
          listing      \* the listing in progress, or the last one

vars == <<rels, listing>>

\* getIds and getRelationships: the loop over the vectors counts slots, deleted ones too, and
\* emits the live ones among positions skip+1 .. skip+limit.
getRelationshipIds(r, skip, limit) ==
    {i \in RelSlotsOf(r) : skip < i + 1 /\ i + 1 <= (skip + limit) % Word /\ i \notin r.deletedIds}

FreedIn(r) == r.deletedIds

INSTANCE Listings
    WITH columns <- rels, CountOf <- RelCount, IdsOf <- getRelationshipIds,
         HeldOf <- LiveRels, FreedOf <- FreedIn

TypeOK ==
    /\ rels \in [ToSet(Shard) -> [ToSet(Type) -> RelationshipType]]
    /\ listing \in Listing

Init ==
    /\ rels = [s \in ToSet(Shard) |-> [t \in ToSet(Type) |-> EmptyRelationshipType]]
    /\ listing = NoListing

AddRelationship(s, t, id1, id2) ==
    /\ Cardinality(LiveRels(rels[s][t])) < Room[<<s, t>>]
    /\ HasRelRoom(rels[s][t])
    /\ rels' = [rels EXCEPT ![s][t] = RelationshipAdd(@, id1, id2)]
    /\ Note("added")

RemoveRelationship(s, t, i) ==
    /\ ValidRelationshipId(rels[s][t], i)
    /\ Cardinality(Freed) < MaxFreed
    /\ rels' = [rels EXCEPT ![s][t] = RelationshipFree(@, {i})]
    /\ Note("removed")

Next ==
    \/ \E s \in ToSet(Shard), t \in ToSet(Type), id1, id2 \in NodeRef :
          AddRelationship(s, t, id1, id2)
    \/ \E s \in ToSet(Shard), t \in ToSet(Type), i \in RelSlot : RemoveRelationship(s, t, i)
    \/ Continue

Spec == Init /\ [][Next]_vars

=============================================================================
