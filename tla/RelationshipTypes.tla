-------------------------- MODULE RelationshipTypes --------------------------
(***************************************************************************)
(* The columns one shard keeps for one relationship type: class            *)
(* RelationshipTypes of src/src/graph/RelationshipTypes.cpp. A relationship *)
(* lives on the shard of its starting node.                                *)
(*                                                                         *)
(*   ends         starting_node_ids[type] and ending_node_ids[type]: two   *)
(*                vectors every caller writes together, so one vector of   *)
(*                pairs; ends[i+1] belongs to relationship slot i          *)
(*   deletedIds   deleted_ids[type]: the Roaring bitmap of freed slots     *)
(*                                                                         *)
(* Unlike NodeTypes there is no key map: the size is that of the vectors.  *)
(***************************************************************************)
EXTENDS Integers, Sequences, FiniteSets, FiniteSetsExt

CONSTANTS NodeRef,    \* the external ids of nodes
          NoId,       \* external id 0, which is no node
          MaxRels     \* bound of the model: a type's vectors hold at most this many slots

ASSUME RelationshipTypesAssumption ==
    /\ NoId \notin NodeRef
    /\ MaxRels \in Nat

RelSlot == 0 .. MaxRels - 1

Ends == [from : NodeRef \cup {NoId}, to : NodeRef \cup {NoId}]

NoEnds == [from |-> NoId, to |-> NoId]

RelationshipType == [ends : Seq(Ends), deletedIds : SUBSET RelSlot]

EmptyRelationshipType == [ends |-> <<>>, deletedIds |-> {}]

-----------------------------------------------------------------------------

RelSlotsOf(r) == 0 .. Len(r.ends) - 1

EndsOf(r, i) == r.ends[i + 1]

HasRelRoom(r) == r.deletedIds # {} \/ Len(r.ends) < MaxRels

ValidRelationshipId(r, i) == i >= 0 /\ Len(r.ends) > i /\ i \notin r.deletedIds

LiveRels(r) == {i \in RelSlotsOf(r) : ValidRelationshipId(r, i)}

\* getCount
RelCount(r) == Len(r.ends) - Cardinality(r.deletedIds)

\* A freed slot is reused, the smallest first; otherwise the new slot is getCount.
NextRel(r) == IF r.deletedIds # {} THEN Min(r.deletedIds) ELSE RelCount(r)

RelationshipAdd_KeepsEnds(r, id1, id2) ==
    [ends       |-> IF r.deletedIds # {} THEN r.ends ELSE Append(r.ends, [from |-> id1, to |-> id2]),
     deletedIds |-> r.deletedIds \ {NextRel(r)}]

\* The allocation every RelationshipAdd... handler of the shard begins with, and addId.
RelationshipAdd(r, id1, id2) ==
    LET pair == [from |-> id1, to |-> id2]
    IN  [ends       |-> IF r.deletedIds # {}
                        THEN [r.ends EXCEPT ![NextRel(r) + 1] = pair]
                        ELSE Append(r.ends, pair),
         deletedIds |-> r.deletedIds \ {NextRel(r)}]

RelationshipFree_KeepsEnds(r, I) == [r EXCEPT !.deletedIds = @ \cup I]

\* setStartingNodeId 0, setEndingNodeId 0 and removeId, for each of the slots I. The setters
\* resize the vectors when a slot lies beyond their end, and what they add in between are
\* relationships from id 0 to id 0 that nobody frees.
RelationshipFree(r, I) ==
    [ends       |-> [j \in 1 .. Max({Len(r.ends)} \cup {i + 1 : i \in I}) |->
                        IF j <= Len(r.ends) /\ j - 1 \notin I THEN r.ends[j] ELSE NoEnds],
     deletedIds |-> r.deletedIds \cup I]

=============================================================================
