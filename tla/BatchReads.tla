----------------------------- MODULE BatchReads ------------------------------
(***************************************************************************)
(* Reading many nodes at once: src/src/graph/shard/Nodes.cpp and the       *)
(* functions of src/src/graph/peered/Nodes.cpp that group the ids by shard,*)
(* ask every shard for its group and put the answers together. They take   *)
(* lists that may be older than the last removal of a node.                *)
(*                                                                         *)
(* A shard is its columns of one node type and of one property; an id is a *)
(* pair of a shard and a slot. Answers are functions from slots or ids;    *)
(* what is left out of the map or the vector is not in the domain.         *)
(***************************************************************************)
EXTENDS PropertyFinds

Nothing == <<>>

\* ValidNodeIds and ValidLinksNodeIds: one node that is gone makes the whole list invalid.
ValidNodeIds(sh, list) == \A i \in ToSet(list) : ValidNodeId(sh.nodes, i)

\* NodesGetIds: each key's id, or id 0.
NodesGetIds(sh, keys) == [k \in keys |-> sh.nodes.keyToNodeId[k]]

\* NodesGetKey: each node by itself, the empty key for one that is gone.
NodesGetKey(sh, list) ==
    [i \in ToSet(list) |-> IF ValidNodeId(sh.nodes, i) THEN KeyOf(sh.nodes, i) ELSE NoKey]

\* NodesGetType and NodesGetTypeId: TRUE stands for the type. The names are read node by node, the
\* type ids of all nodes or of none.
NodesGetType(sh, list) == [i \in ToSet(list) |-> ValidNodeId(sh.nodes, i)]

NodesGetTypeId(sh, list) == IF ValidNodeIds(sh, list) THEN [i \in ToSet(list) |-> TRUE] ELSE Nothing

\* NodeTypes::getNodesProperties and getNodes: an entry for every id, with what Properties::getProperties
\* finds of it.
getNodesProperties(sh, list) == getPropertiesOfMany(sh.column, list)

getNodes(sh, list) ==
    [i \in ToSet(list) |->
        [id |-> i, key |-> KeyOf(sh.nodes, i), value |-> getNodesProperties(sh, list)[i]]]

\* NodeTypes::getNodesProperty: no entry for a node without the property.
getNodesProperty(sh, list) ==
    LET many == getPropertyOfMany(sh.column, list)
    IN  [i \in {j \in ToSet(list) : many[j] # NoValue} |-> many[i]]

\* NodesGet, by ids and by links.
NodesGet(sh, list) == IF ValidNodeIds(sh, list) THEN getNodes(sh, list) ELSE Nothing

\* NodesGetProperty and NodesGetProperties by ids.
NodesGetProperty(sh, list) == IF ValidNodeIds(sh, list) THEN getNodesProperty(sh, list) ELSE Nothing

NodesGetProperties(sh, list) == IF ValidNodeIds(sh, list) THEN getNodesProperties(sh, list) ELSE Nothing

\* NodesGetProperty by links reads node by node.
NodesGetPropertyOfLinks(sh, list) == [i \in ToSet(list) |-> getNodeProperty(sh.nodes, sh.column, i)]

-----------------------------------------------------------------------------
(* Over the shards *)

\* PartitionIdsByShardId and its siblings: ascending lists, and no list for a shard that has none.
PartitionIdsByShardId(ids) ==
    [s \in {id[1] : id \in ids} |-> Ascending({id[2] : id \in {d \in ids : d[1] = s}})]

\* invoke_on for every group and when_all_succeed: the entries of all the answers.
Combined(shards, ids, read(_, _)) ==
    LET parts  == PartitionIdsByShardId(ids)
        answer == [s \in DOMAIN parts |-> read(shards[s], parts[s])]
    IN  [id \in {d \in ids : d[2] \in DOMAIN answer[d[1]]} |-> answer[id[1]][id[2]]]

\* home is CalculateShardId(type, key).
NodesGetIdsPeered(shards, home, keys) ==
    LET answer == [s \in {home[k] : k \in keys} |-> NodesGetIds(shards[s], {k \in keys : home[k] = s})]
    IN  [k \in keys |-> answer[home[k]][k]]

NodesGetPeered(shards, ids) == Combined(shards, ids, NodesGet)

NodesGetKeyPeered(shards, ids) == Combined(shards, ids, NodesGetKey)

NodesGetTypePeered(shards, ids) == Combined(shards, ids, NodesGetType)

NodesGetPropertyPeered(shards, ids) == Combined(shards, ids, NodesGetProperty)

NodesGetPropertyOfLinksPeered(shards, ids) == Combined(shards, ids, NodesGetPropertyOfLinks)

NodesGetPropertiesPeered(shards, ids) == Combined(shards, ids, NodesGetProperties)

Earlier(id, other) == id[1] < other[1] \/ (id[1] = other[1] /\ id[2] < other[2])

\* NodeIdsGetNeighborsPeered: links[id] are the neighbours of id that were read before. The nodes
\* are asked for once each, and found in the answer by the position kept for their id; an id that
\* has no position is given position 0. When the answer is empty that is beyond its end.
NodeIdsGetNeighborsPeered(shards, links) ==
    LET nodes == NodesGetPeered(shards, UNION {ToSet(links[id]) : id \in DOMAIN links})
        first == CHOOSE id \in DOMAIN nodes : \A d \in DOMAIN nodes \ {id} : Earlier(id, d)
    IN  [id \in DOMAIN links |->
            [n \in DOMAIN links[id] |->
                IF links[id][n] \in DOMAIN nodes THEN nodes[links[id][n]]
                ELSE IF DOMAIN nodes # {} THEN nodes[first]
                ELSE Nothing]]

=============================================================================
