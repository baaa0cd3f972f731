-------------------------- MODULE RelationshipReads --------------------------
(***************************************************************************)
(* Reading many relationships at once: src/src/graph/shard/Relationships.cpp *)
(* and peered/Relationships.cpp. They read whole relationships one by one, *)
(* and their properties for all of a list or for none.                     *)
(*                                                                         *)
(* A list of links comes in the order of the nodes at their other ends, so *)
(* that the relationships may be in any order.                             *)
(***************************************************************************)
EXTENDS RelationshipFinds, BatchReads

ValidRelationshipIds(sh, list) == \A i \in ToSet(list) : ValidRelationshipId(sh.rels, i)

\* RelationshipGet: an empty relationship for one that is gone.
RelationshipGet(sh, i) ==
    IF ValidRelationshipId(sh.rels, i) THEN getRelationship(sh.rels, sh.column, i) ELSE Nothing

RelationshipsGet(sh, list) == [i \in ToSet(list) |-> RelationshipGet(sh, i)]

RelationshipsGetType(sh, list) == [i \in ToSet(list) |-> ValidRelationshipId(sh.rels, i)]

RelationshipsGetTypeId(sh, list) ==
    IF ValidRelationshipIds(sh, list) THEN [i \in ToSet(list) |-> TRUE] ELSE Nothing

\* A list that is not ascending can end within the vector and name a slot beyond it.
ReadsBeyond(c, list) ==
    /\ list # <<>>
    /\ Covers(c, list[Len(list)])
    /\ \E i \in ToSet(list) : ~Covers(c, i)

\* RelationshipTypes::getRelationshipsProperty
getRelationshipsProperty(sh, list) ==
    LET many == getPropertyOfMany(sh.column, list)
    IN  [i \in {j \in ToSet(list) : many[j] # NoValue} |-> many[i]]

getRelationshipsProperties(sh, list) == getPropertiesOfMany(sh.column, list)

RelationshipsGetProperty(sh, list) ==
    IF ValidRelationshipIds(sh, list) THEN getRelationshipsProperty(sh, list) ELSE Nothing

RelationshipsGetProperties(sh, list) ==
    IF ValidRelationshipIds(sh, list) THEN getRelationshipsProperties(sh, list) ELSE Nothing

RelationshipsGetPeered(shards, ids) == Combined(shards, ids, RelationshipsGet)

RelationshipsGetTypePeered(shards, ids) == Combined(shards, ids, RelationshipsGetType)

RelationshipsGetTypeIdPeered(shards, ids) == Combined(shards, ids, RelationshipsGetTypeId)

RelationshipsGetPropertyPeered(shards, ids) == Combined(shards, ids, RelationshipsGetProperty)

RelationshipsGetPropertiesPeered(shards, ids) == Combined(shards, ids, RelationshipsGetProperties)

=============================================================================
