----------------------------- MODULE GraphShards -----------------------------
(***************************************************************************)
(* The graph as its shards keep it, and the operations of                  *)
(* src/src/graph/peered/Node.cpp and peered/Relationship.cpp that add and   *)
(* remove nodes and relationships, with one node type and one relationship  *)
(* type.                                                                    *)
(*                                                                         *)
(* A node lives on the shard its key hashes to (ShardOf). A relationship    *)
(* lives on the shard of its starting node; the starting node holds a link  *)
(* to the ending node and the ending node, perhaps on another shard, one    *)
(* back. A peered operation is a chain of handlers, each run to completion  *)
(* on one shard by container().invoke_on, with futures in between: one      *)
(* action per handler, and any other operation may run between two of them. *)
(*                                                                         *)
(* Node and relationship ids are pairs <<shard, slot>>. Links are sets: a   *)
(* links vector repeats an entry only after a link has been left dangling.  *)
(***************************************************************************)
EXTENDS NodeTypes, RelationshipTypes

CONSTANTS Shard,          \* the shards (cores)
          ShardOf,        \* CalculateShardId(type, key)
          Client,         \* the operations in progress at any time
          Ops,            \* what clients do: a subset of Operation
          Addressing,     \* how they name nodes: a subset of {"id", "key"}
          TypeAtStart,    \* does the relationship type exist from the start?
          FarRemovals     \* do clients remove nodes that have links to other shards?

Operation == {"addNode", "addRel", "removeRel", "removeNode"}

ASSUME GraphShardsAssumption ==
    /\ ShardOf \in [Key -> Shard]
    /\ NodeRef = Shard \X Slot
    /\ Ops \subseteq Operation
    /\ Addressing \subseteq {"id", "key"}
    /\ {TypeAtStart, FarRemovals} \subseteq BOOLEAN

NodeId == Shard \X Slot

RelId == Shard \X RelSlot

Link == [rel : RelId, node : NodeId]

VARIABLES nodes,      \* nodes[s]: the node type's columns on shard s
          rels,       \* rels[s]: the relationship type's columns on shard s
          outgoing,   \* outgoing[s][i]: the links leaving the node in slot i of shard s
          incoming,   \* incoming[s][i]: the links arriving there
          grouped,    \* grouped[s]: the slots whose incoming links have a Group for the type
          typed,      \* does the relationship type exist?
          op          \* op[c]: where client c's operation stands

graph == <<nodes, rels, outgoing, incoming, grouped, typed>>

vars == <<nodes, rels, outgoing, incoming, grouped, typed, op>>

Step == {"idle", "checkNewType", "addOutgoing", "addIncoming", "removeOutgoing",
         "removeIncoming", "checkNode", "getIncoming", "deleteIncoming", "deleteOutgoing"}

\* What the lambdas of a peered operation have captured when its next handler runs.
Context ==
    [step  : Step,
     key   : Key \cup {NoKey},        \* the key the client gave, NoKey when it gave an id
     node  : NodeId \cup {NoId},
     other : NodeId \cup {NoId},
     rel   : RelId \cup {NoId},
     ids   : SUBSET NodeId]           \* far neighbours whose shards are still to be called

Idle == [step |-> "idle", key |-> NoKey, node |-> NoId, other |-> NoId, rel |-> NoId, ids |-> {}]

TypeOK ==
    /\ nodes \in [Shard -> NodeType]
    /\ rels \in [Shard -> RelationshipType]
    /\ outgoing \in [Shard -> [Slot -> SUBSET Link]]
    /\ incoming \in [Shard -> [Slot -> SUBSET Link]]
    /\ grouped \in [Shard -> SUBSET Slot]
    /\ typed \in BOOLEAN
    /\ op \in [Client -> Context]

Init ==
    /\ nodes = [s \in Shard |-> EmptyNodeType]
    /\ rels = [s \in Shard |-> EmptyRelationshipType]
    /\ outgoing = [s \in Shard |-> [i \in Slot |-> {}]]
    /\ incoming = [s \in Shard |-> [i \in Slot |-> {}]]
    /\ grouped = [s \in Shard |-> {}]
    /\ typed = TypeAtStart
    /\ op = [c \in Client |-> Idle]

-----------------------------------------------------------------------------
(* Helpers *)

\* NodeGetID: the id the key map of the key's shard gives, id 0 when it gives none.
NodeGetID(k) ==
    LET i == nodes[ShardOf[k]].keyToNodeId[k] IN IF i = NoSlot THEN NoId ELSE <<ShardOf[k], i>>

\* Shard::ValidNodeId, asked on the shard the id names.
Valid(n) == n # NoId /\ ValidNodeId(nodes[n[1]], n[2])

Starts(c, kind) == op[c] = Idle /\ kind \in Ops

At(c, step) == op[c].step = step

Become(c, context) == op' = [op EXCEPT ![c] = context]

NewRel_OneTooFar(n) == <<n[1], NextRel(rels[n[1]]) + 1>>

NewRel(n) == <<n[1], NextRel(rels[n[1]])>>

StoreRel(n1, n2) == rels' = [rels EXCEPT ![n1[1]] = RelationshipAdd(@, n1, n2)]

LinkOut(n, link) == outgoing' = [outgoing EXCEPT ![n[1]][n[2]] = @ \cup {link}]

LinkIn(n, link) ==
    /\ incoming' = [incoming EXCEPT ![n[1]][n[2]] = @ \cup {link}]
    /\ grouped' = [grouped EXCEPT ![n[1]] = @ \cup {n[2]}]

-----------------------------------------------------------------------------
(* Adding *)

\* NodeAddEmptyPeered, NodeAddPeered: one handler on the key's shard.
AddNode(c, k) ==
    /\ Starts(c, "addNode")
    /\ HasRoom(nodes[ShardOf[k]])
    /\ nodes' = [nodes EXCEPT ![ShardOf[k]] = NodeAdd(@, k)]
    /\ UNCHANGED <<rels, outgoing, incoming, grouped, typed, op>>

\* RelationshipTypeInsertPeered, asked for by itself or by the overloads whose checks are
\* the same for a new type as for an existing one.
RelationshipTypeInsert(c) ==
    /\ Starts(c, "addRel")
    /\ ~typed
    /\ typed' = TRUE
    /\ UNCHANGED <<nodes, rels, outgoing, incoming, grouped, op>>

\* Both nodes on one shard: a single handler, which checks both ids.
RelationshipAddSameShard(c, n1, n2) ==
    /\ Starts(c, "addRel")
    /\ typed
    /\ n1[1] = n2[1]
    /\ Valid(n1) /\ Valid(n2)
    /\ HasRelRoom(rels[n1[1]])
    /\ StoreRel(n1, n2)
    /\ LinkOut(n1, [rel |-> NewRel(n1), node |-> n2])
    /\ LinkIn(n2, [rel |-> NewRel(n1), node |-> n1])
    /\ UNCHANGED <<nodes, typed, op>>

\* Nodes on two shards, named by id: the shard of the ending node is asked first.
RelationshipAddById(c, n1, n2) ==
    /\ Starts(c, "addRel") /\ "id" \in Addressing
    /\ typed
    /\ n1[1] # n2[1]
    /\ Valid(n2)
    /\ Become(c, [Idle EXCEPT !.step = "addOutgoing", !.node = n1, !.other = n2])
    /\ UNCHANGED graph

\* ... named by key: the key map of the ending node's shard is asked, and ValidNodeId is not.
RelationshipAddByKey(c, k1, k2) ==
    /\ Starts(c, "addRel") /\ "key" \in Addressing
    /\ typed
    /\ ShardOf[k1] # ShardOf[k2]
    /\ NodeGetID(k2) # NoId
    /\ Become(c, [Idle EXCEPT !.step = "addOutgoing", !.key = k1, !.other = NodeGetID(k2)])
    /\ UNCHANGED graph

\* RelationshipAddEmptyPeered(rel_type, id1, id2) for a type that does not exist yet: the
\* type is inserted first, and then the shard of the ending node is asked.
RelationshipAddNewType(c, n1, n2) ==
    /\ Starts(c, "addRel") /\ "id" \in Addressing
    /\ ~typed
    /\ n1[1] # n2[1]
    /\ typed' = TRUE
    /\ Become(c, [Idle EXCEPT !.step = "checkNewType", !.node = n1, !.other = n2])
    /\ UNCHANGED <<nodes, rels, outgoing, incoming, grouped>>

\* The answer is read the wrong way round: "if (valid) { // Invalid id2".
CheckNewType(c) ==
    /\ At(c, "checkNewType")
    /\ Become(c, IF Valid(op[c].other) THEN Idle ELSE [op[c] EXCEPT !.step = "addOutgoing"])
    /\ UNCHANGED graph

\* RelationshipAddEmptyToOutgoing and RelationshipAddToOutgoing, on the starting node's shard,
\* behind a check of the id there, or behind the lookup of its key.
RelationshipAddToOutgoing(c) ==
    LET n1       == IF op[c].key = NoKey THEN op[c].node ELSE NodeGetID(op[c].key)
        n2       == op[c].other
        accepted == /\ IF op[c].key = NoKey THEN Valid(n1) ELSE n1 # NoId
                    /\ HasRelRoom(rels[n1[1]])
    IN  /\ At(c, "addOutgoing")
        /\ \/ /\ accepted
              /\ StoreRel(n1, n2)
              /\ LinkOut(n1, [rel |-> NewRel(n1), node |-> n2])
              /\ Become(c, [op[c] EXCEPT !.step = "addIncoming", !.node = n1, !.rel = NewRel(n1)])
           \/ ~accepted /\ Become(c, Idle) /\ UNCHANGED <<rels, outgoing>>
        /\ UNCHANGED <<nodes, incoming, grouped, typed>>

RelationshipAddToIncoming_Forgets(c) ==
    /\ At(c, "addIncoming")
    /\ Become(c, Idle)
    /\ UNCHANGED graph

\* RelationshipAddToIncoming: no check, but vector::at throws for a slot that never existed.
RelationshipAddToIncoming(c) ==
    LET n2 == op[c].other
    IN  /\ At(c, "addIncoming")
        /\ IF n2[2] \in SlotsOf(nodes[n2[1]])
           THEN LinkIn(n2, [rel |-> op[c].rel, node |-> op[c].node])
           ELSE UNCHANGED <<incoming, grouped>>
        /\ Become(c, Idle)
        /\ UNCHANGED <<nodes, rels, outgoing, typed>>

-----------------------------------------------------------------------------
(* Removing a relationship *)

\* RelationshipRemovePeered: is the id valid?
RemoveRelationship(c, r) ==
    /\ Starts(c, "removeRel")
    /\ ValidRelationshipId(rels[r[1]], r[2])
    /\ Become(c, [Idle EXCEPT !.step = "removeOutgoing", !.rel = r])
    /\ UNCHANGED graph

\* On the shard of the relationship, with no further check. A starting node id of 0 leads to
\* the links of type 0, where vector::at throws after the slot has entered deleted_ids.
RelationshipRemoveGetIncoming(c) ==
    LET r    == op[c].rel
        ends == EndsOf(rels[r[1]], r[2])
    IN  /\ At(c, "removeOutgoing")
        /\ IF ends.from = NoId
           THEN /\ rels' = [rels EXCEPT ![r[1]].deletedIds = @ \cup {r[2]}]
                /\ Become(c, Idle)
                /\ UNCHANGED outgoing
           ELSE /\ rels' = [rels EXCEPT ![r[1]] = RelationshipFree(@, {r[2]})]
                /\ outgoing' = [outgoing EXCEPT ![r[1]][ends.from[2]] = {l \in @ : l.rel # r}]
                /\ Become(c, [op[c] EXCEPT !.step = "removeIncoming", !.other = ends.to])
        /\ UNCHANGED <<nodes, incoming, grouped, typed>>

\* On the shard of the ending node. Without a Group the code reads past the end of the
\* vector: the process dies there (a behaviour that goes no further), or finds no match.
RelationshipRemoveIncoming(c) ==
    LET n2 == op[c].other
    IN  /\ At(c, "removeIncoming")
        /\ incoming' = IF n2[2] \in grouped[n2[1]]
                       THEN [incoming EXCEPT ![n2[1]][n2[2]] = {l \in @ : l.rel # op[c].rel}]
                       ELSE incoming
        /\ Become(c, Idle)
        /\ UNCHANGED <<nodes, rels, outgoing, grouped, typed>>

-----------------------------------------------------------------------------
(* Removing a node *)

HasFarNeighbours(n) ==
    \E l \in outgoing[n[1]][n[2]] \cup incoming[n[1]][n[2]] : l.node[1] # n[1]

\* NodeRemovePeered(type, key): the id of the key is looked up ...
RemoveNodeByKey(c, k) ==
    /\ Starts(c, "removeNode") /\ "key" \in Addressing
    /\ NodeGetID(k) # NoId
    /\ HasFarNeighbours(NodeGetID(k)) => FarRemovals
    /\ Become(c, [Idle EXCEPT !.step = "checkNode", !.key = k, !.node = NodeGetID(k)])
    /\ UNCHANGED graph

\* ... and handed to NodeRemovePeered(id), which a client may also call.
RemoveNodeById(c, n) ==
    /\ Starts(c, "removeNode") /\ "id" \in Addressing
    /\ HasFarNeighbours(n) => FarRemovals
    /\ Become(c, [Idle EXCEPT !.step = "checkNode", !.node = n])
    /\ UNCHANGED graph

CheckNode(c) ==
    /\ At(c, "checkNode")
    /\ Become(c, IF Valid(op[c].node) THEN [op[c] EXCEPT !.step = "getIncoming"] ELSE Idle)
    /\ UNCHANGED graph

\* The far neighbours to be told. The lists are built one link at a time and kept with
\* try_emplace, so that of each shard's neighbours only the first, in link order, remains.
FarNeighbours(n, links) ==
    LET far == {l.node : l \in {m \in links : m.node[1] # n[1]}}
    IN  {f \in far : \A g \in far : g[1] = f[1] => f[2] <= g[2]}

NodeRemoveGetIncoming(c) ==
    LET n == op[c].node
    IN  /\ At(c, "getIncoming")
        /\ Become(c, [op[c] EXCEPT !.step = "deleteIncoming",
                                   !.ids = FarNeighbours(n, outgoing[n[1]][n[2]])])
        /\ UNCHANGED graph

\* A neighbour is told. vector::at throws for a slot that never existed: the neighbour is noted,
\* and the removal stops when the calls to the other shards are over.
Told(c, m) ==
    Become(c, [op[c] EXCEPT !.ids = @ \ {m}, !.other = IF m[2] \in SlotsOf(nodes[m[1]]) THEN @ ELSE m])

Refused(c) == op[c].other # NoId

\* On a far shard: the incoming links of the neighbour that come from the node go.
NodeRemoveDeleteIncoming(c, m) ==
    /\ At(c, "deleteIncoming")
    /\ m \in op[c].ids
    /\ incoming' = [incoming EXCEPT ![m[1]][m[2]] = {l \in @ : l.node # op[c].node}]
    /\ Told(c, m)
    /\ UNCHANGED <<nodes, rels, outgoing, grouped, typed>>

NodeRemoveGetOutgoing(c) ==
    LET n == op[c].node
    IN  /\ At(c, "deleteIncoming")
        /\ op[c].ids = {}
        /\ Become(c, IF Refused(c) THEN Idle
                     ELSE [op[c] EXCEPT !.step = "deleteOutgoing",
                                        !.ids = FarNeighbours(n, incoming[n[1]][n[2]])])
        /\ UNCHANGED graph

\* On a far shard: the neighbour's links to the node go, and their relationships, which live
\* there, are freed.
NodeRemoveDeleteOutgoing(c, m) ==
    LET toNode == {l \in outgoing[m[1]][m[2]] : l.node = op[c].node}
    IN  /\ At(c, "deleteOutgoing")
        /\ m \in op[c].ids
        /\ outgoing' = [outgoing EXCEPT ![m[1]][m[2]] = @ \ toNode]
        /\ rels' = [rels EXCEPT ![m[1]] = RelationshipFree(@, {l.rel[2] : l \in toNode})]
        /\ Told(c, m)
        /\ UNCHANGED <<nodes, incoming, grouped, typed>>

\* What Shard::NodeRemove leaves of one direction of the links of its shard: nothing in the
\* node's own slot, and in a neighbour's slot on the same shard all but the counterparts.
WithoutLinksOf_KeepsCounterparts(slots, i, s, counterparts) ==
    [j \in Slot |-> IF j = i THEN {} ELSE slots[j]]

WithoutLinksOf(slots, i, s, counterparts) ==
    [j \in Slot |->
        IF j = i THEN {}
        ELSE {l \in slots[j] : \A o \in counterparts : o.node = <<s, j>> => o.rel # l.rel}]

\* The slots it frees: of every link, in both directions, the slot the relationship's id
\* names, on this shard; the shard the id names is not looked at.
FreedSlots_None(links) == {}

FreedSlots(links) == {l.rel[2] : l \in links}

\* Shard::NodeRemove, the last handler, which asks ValidNodeId again; it is not called when a
\* neighbour's shard has thrown.
RemoveNode(c) ==
    LET n    == op[c].node
        s    == n[1]
        i    == n[2]
        outs == outgoing[s][i]
        ins  == incoming[s][i]
    IN  /\ At(c, "deleteOutgoing")
        /\ op[c].ids = {}
        /\ \/ /\ ~Refused(c) /\ Valid(n)
              /\ nodes' = [nodes EXCEPT ![s] = NodeRemove(@, i)]
              /\ rels' = [rels EXCEPT ![s] = RelationshipFree(@, FreedSlots(outs \cup ins))]
              /\ outgoing' = [outgoing EXCEPT ![s] = WithoutLinksOf(@, i, s, ins)]
              /\ incoming' = [incoming EXCEPT ![s] = WithoutLinksOf(@, i, s, outs)]
              /\ grouped' = [grouped EXCEPT ![s] = @ \ {i}]
           \/ (Refused(c) \/ ~Valid(n)) /\ UNCHANGED <<nodes, rels, outgoing, incoming, grouped>>
        /\ Become(c, Idle)
        /\ UNCHANGED typed

-----------------------------------------------------------------------------

Next ==
    \E c \in Client :
        \/ \E k \in Key : AddNode(c, k)
        \/ RelationshipTypeInsert(c)
        \/ \E n1, n2 \in NodeId :
              \/ RelationshipAddSameShard(c, n1, n2)
              \/ RelationshipAddById(c, n1, n2)
              \/ RelationshipAddNewType(c, n1, n2)
        \/ \E k1, k2 \in Key : RelationshipAddByKey(c, k1, k2)
        \/ CheckNewType(c)
        \/ RelationshipAddToOutgoing(c)
        \/ RelationshipAddToIncoming(c)
        \/ \E r \in RelId : RemoveRelationship(c, r)
        \/ RelationshipRemoveGetIncoming(c)
        \/ RelationshipRemoveIncoming(c)
        \/ \E k \in Key : RemoveNodeByKey(c, k)
        \/ \E n \in NodeId : RemoveNodeById(c, n)
        \/ CheckNode(c)
        \/ NodeRemoveGetIncoming(c)
        \/ \E m \in NodeId : NodeRemoveDeleteIncoming(c, m) \/ NodeRemoveDeleteOutgoing(c, m)
        \/ NodeRemoveGetOutgoing(c)
        \/ RemoveNode(c)

Spec == Init /\ [][Next]_vars

\* Seastar runs every continuation whose future is ready: an operation in progress goes on.
FairSpec ==
    Spec /\ \A c \in Client : WF_vars(RelationshipAddToOutgoing(c) \/ RelationshipAddToIncoming(c))

-----------------------------------------------------------------------------
(* Safety *)

\* On every shard, map, key vector and freed slots of the nodes tell the same story, and
\* relationship slots are freed exactly when they are cleared, whatever interleaves.
ColumnsAgree == \A s \in Shard : SlotsAgree(nodes[s])

\* Freed relationship slots lie within the vectors and lead from 0 to 0; a relationship
\* that leads from a node lives on that node's shard.
RelStoreAgrees(s) ==
    LET r == rels[s]
    IN  /\ \A i \in r.deletedIds : i \in RelSlotsOf(r) /\ EndsOf(r, i) = NoEnds
        /\ \A i \in RelSlotsOf(r) :
              /\ EndsOf(r, i).from = NoId <=> EndsOf(r, i).to = NoId
              /\ EndsOf(r, i).from # NoId => EndsOf(r, i).from[1] = s

RelStoresAgree == \A s \in Shard : RelStoreAgrees(s)

\* The owning shard's two records of a relationship, its columns and the starting node's
\* link, are one to one: what traversals find is what the ids, counts and scans find.
RelsAreLinked(s) ==
    \A i \in LiveRels(rels[s]) :
        LET ends == EndsOf(rels[s], i)
        IN  /\ ends \in [from : {s} \X Slot, to : NodeId]
            /\ [rel |-> <<s, i>>, node |-> ends.to] \in outgoing[s][ends.from[2]]

LinksAreRels(s) ==
    \A j \in Slot : \A l \in outgoing[s][j] :
        /\ l.rel[1] = s
        /\ l.rel[2] \in LiveRels(rels[s])
        /\ EndsOf(rels[s], l.rel[2]) = [from |-> <<s, j>>, to |-> l.node]

OwnerSide == \A s \in Shard : RelsAreLinked(s) /\ LinksAreRels(s)

IsLive(n) == n[2] \in LiveSlots(nodes[n[1]])

\* A relationship never outlives its nodes.
EndsAreNodes ==
    \A s \in Shard : \A i \in LiveRels(rels[s]) :
        LET ends == EndsOf(rels[s], i)
        IN  ends.from # NoId /\ IsLive(ends.from) /\ ends.to # NoId /\ IsLive(ends.to)

Quiescent == \A c \in Client : op[c] = Idle

Mirrored(s, i) ==
    LET ends == EndsOf(rels[s], i)
    IN  [rel |-> <<s, i>>, node |-> ends.from] \in incoming[ends.to[1]][ends.to[2]]

MirrorsARel(n, l) ==
    /\ l.rel[2] \in LiveRels(rels[l.rel[1]])
    /\ EndsOf(rels[l.rel[1]], l.rel[2]) = [from |-> l.node, to |-> n]

\* When no operation is in progress, both directions of the links agree across the shards.
IncomingSide ==
    Quiescent =>
        \A s \in Shard :
            /\ \A i \in LiveRels(rels[s]) : Mirrored(s, i)
            /\ \A j \in Slot : \A l \in incoming[s][j] : MirrorsARel(<<s, j>>, l)

\* While operations only add, every relationship the ending node does not know of yet has an
\* operation on its way to tell it, and every incoming link has its relationship.
MirrorIsOwed ==
    \A s \in Shard :
        /\ \A i \in LiveRels(rels[s]) :
              Mirrored(s, i) \/ \E c \in Client : At(c, "addIncoming") /\ op[c].rel = <<s, i>>
        /\ \A j \in Slot : \A l \in incoming[s][j] : MirrorsARel(<<s, j>>, l)

\* ... so every relationship is eventually found from its ending node too.
EventuallyMirrored ==
    \A r \in RelId :
        r[2] \in LiveRels(rels[r[1]]) ~> (r[2] \in LiveRels(rels[r[1]]) /\ Mirrored(r[1], r[2]))

\* RelationshipRemoveIncoming finds the Group it dereferences.
GroupIsThere ==
    \A c \in Client :
        At(c, "removeIncoming") => op[c].other[2] \in grouped[op[c].other[1]]

\* Clients of the whole see a property graph: the nodes are the keys held, the relationships
\* those the owning shards hold.
Vertices == UNION {KeysHeld(nodes[s]) : s \in Shard}

EdgeOf(s, i) ==
    LET ends == EndsOf(rels[s], i)
    IN  [id   |-> <<s, i>>,
         from |-> KeyOf(nodes[ends.from[1]], ends.from[2]),
         to   |-> KeyOf(nodes[ends.to[1]], ends.to[2])]

Edges == UNION {{EdgeOf(s, i) : i \in LiveRels(rels[s])} : s \in Shard}

Graph == INSTANCE PropertyGraph
            WITH Vertex <- Key, EdgeId <- RelId, vertices <- Vertices, edges <- Edges

ImplementsPropertyGraph == Graph!Spec

-----------------------------------------------------------------------------
(* Statements of the repository that the code does not keep *)

\* shard/Node.cpp:285: removing a node deletes its incoming relationships "and their
\* counterpart"; it must not free a relationship between two other nodes.
RemovalFreesOnlyItsOwn ==
    [][\A c \in Client : At(c, "deleteOutgoing") /\ op'[c] = Idle =>
           \A s \in Shard : \A i \in LiveRels(rels[s]) :
               op[c].node \notin {EndsOf(rels[s], i).from, EndsOf(rels[s], i).to} =>
                   i \in LiveRels(rels[s])']_vars

\* shard/Helpers.cpp:44: the counterparts on other shards are returned, so that no link to
\* the removed node survives there.
NoLinkToRemovedNode ==
    Quiescent =>
        \A s \in Shard : \A j \in Slot :
            \A l \in outgoing[s][j] \cup incoming[s][j] : IsLive(l.node)

\* peered/Relationship.cpp:383: when the second half is added, the relationship is valid
\* "and by extension both nodes".
BothNodesValidWhenLinked ==
    \A c \in Client :
        At(c, "addIncoming") => IsLive(op[c].node) /\ IsLive(op[c].other)

\* docs/API.md:96: deleting a node "by type and key" deletes the node of that key.
KeyRemovesItsOwnNode ==
    [][\A c \in Client : At(c, "deleteOutgoing") /\ op'[c] = Idle /\ op[c].key # NoKey =>
           Vertices \ Vertices' \subseteq {op[c].key}]_vars

\* peered/Relationship.cpp:408: a relationship to an invalid ending node is refused, for a new
\* relationship type as for any other.
InvalidEndRefused ==
    \A c \in Client : At(c, "addOutgoing") => IsLive(op[c].other)

=============================================================================
