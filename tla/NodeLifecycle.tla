--------------------------- MODULE NodeLifecycle ---------------------------
(***************************************************************************)
(* The life of the nodes of one type on one shard, driven by the shard's   *)
(* handlers: NodeAddEmpty / NodeAdd / NodeAddMany, NodeRemove by id or by  *)
(* key, and DeleteNodeType. Each handler runs to completion on the shard's *)
(* own reactor thread, so each is one action.                              *)
(*                                                                         *)
(* Requests are arbitrary: any key, and any id within the bound, whether   *)
(* or not a node has it (clients keep ids they once received).             *)
(***************************************************************************)
EXTENDS NodeTypes

VARIABLES node,     \* the columns of the type
          named     \* is the type's name still in type_to_id?

vars == <<node, named>>

TypeOK ==
    /\ node \in NodeType
    /\ Len(node.keys) <= MaxSlots
    /\ named \in BOOLEAN

Init ==
    /\ node = EmptyNodeType
    /\ named = TRUE

-----------------------------------------------------------------------------

NodeAddEmpty(k) ==
    /\ named
    /\ HasRoom(node)
    /\ node' = NodeAdd(node, k)
    /\ UNCHANGED named

\* NodeAddMany adds its keys one after the other inside one handler; two keys show it.
NodeAddMany(k1, k2) ==
    /\ named
    /\ HasRoom(node)
    /\ HasRoom(NodeAdd(node, k1))
    /\ node' = NodeAdd(NodeAdd(node, k1), k2)
    /\ UNCHANGED named

NodeRemoveById(i) ==
    /\ ValidNodeId(node, i)
    /\ node' = NodeRemove(node, i)
    /\ UNCHANGED named

\* The id comes from the key map, and then has to pass ValidNodeId like any other id.
NodeRemoveByKey(k) ==
    /\ named
    /\ node.keyToNodeId[k] # NoSlot
    /\ NodeRemoveById(node.keyToNodeId[k])

DeleteNodeType ==
    /\ named
    /\ DeletableType(node)
    /\ node' = EmptyNodeType
    /\ named' = FALSE

Next ==
    \/ \E k \in Key : NodeAddEmpty(k)
    \/ \E k1, k2 \in Key : NodeAddMany(k1, k2)
    \/ \E i \in Slot : NodeRemoveById(i)
    \/ \E k \in Key : NodeRemoveByKey(k)
    \/ DeleteNodeType

Spec == Init /\ [][Next]_vars

-----------------------------------------------------------------------------
(* Safety *)

\* The hash map, the key vector and the bitmap of freed slots tell the same story, after
\* any sequence of adds, removals and recyclings (NodeTypes.cpp keeps them by hand).
SlotIntegrity == SlotsAgree(node)

\* Keys held and slots freed add up to the length of the vectors: no slot is leaked, none
\* is counted twice, and the next slot taken from the count is the end of the vectors.
SlotAccounting == MapSize(node) + Cardinality(node.deletedIds) = Len(node.keys)

\* An id the shard calls valid always leads to a node: within the vectors, with a key that
\* leads back to it. NodeGet, NodeGetKey and every property getter read the vectors after
\* this one test.
ValidNodeHasKey ==
    \A i \in Slot : ValidNodeId(node, i) =>
        /\ i \in SlotsOf(node)
        /\ KeyOf(node, i) \in KeysHeld(node)
        /\ node.keyToNodeId[KeyOf(node, i)] = i

\* ValidNodeId refuses some live nodes (it compares with the size of the map); never more
\* of them than there are freed slots waiting to be reused.
HiddenNodes == {i \in LiveSlots(node) : ~ValidNodeId(node, i)}

HiddenBoundedByDeleted == Cardinality(HiddenNodes) <= Cardinality(node.deletedIds)

\* Paging with any page size lists every valid node once: page n is (skip = n * limit, limit).
PagesListEveryValidNode ==
    \A limit \in 1 .. MaxSlots :
        LET Page(n) == getIds(node, n * limit, limit)
        IN  /\ UNION {Page(n) : n \in 0 .. MaxSlots} = {i \in Slot : ValidNodeId(node, i)}
            /\ \A n, m \in 0 .. MaxSlots : n # m => Page(n) \cap Page(m) = {}

\* A node keeps its id for as long as its key is held: adds, removals of other nodes and
\* the recycling of their slots never move it.
NodeIdStable ==
    [][\A k \in KeysHeld(node) \cap Key :
           k \in KeysHeld(node)' => node'.keyToNodeId[k] = node.keyToNodeId[k]]_vars

-----------------------------------------------------------------------------
(* Statements of the code's own comments that the code does not keep *)

\* NodeTypes.cpp:333: a node id is valid when it "is within the vector size" and not deleted.
LiveNodesAreValid ==
    \A i \in Slot : WithinVectorAndNotDeleted(node, i) => ValidNodeId(node, i)

\* NodeTypes.cpp:128: a type is deleted only after "all nodes of this type" are.
TypeDeletedOnlyWhenEmpty == [][named /\ ~named' => KeysHeld(node) = {}]_vars

=============================================================================
