------------------------------ MODULE NodeTypes ------------------------------
(***************************************************************************)
(* The columns one shard keeps for one node type: class NodeTypes of       *)
(* src/src/graph/NodeTypes.cpp, and the four handlers of                   *)
(* src/src/graph/shard/Node.cpp that allocate and free its slots.          *)
(*                                                                         *)
(* The C++ class holds a vector of such column groups, indexed by type id; *)
(* the groups never touch one another, so the module describes one group   *)
(* as a record and every operation as an operator from record to record.   *)
(*                                                                         *)
(*   keyToNodeId   key_to_node_id[type]: a hash map, NoSlot = no entry     *)
(*   keys          keys[type]: a vector, keys[i+1] is the key of slot i,   *)
(*                 NoKey where NodeRemove cleared the string               *)
(*   deletedIds    deleted_ids[type]: a Roaring bitmap of freed slots      *)
(*                                                                         *)
(* An external id is the slot with the type and the shard packed into the  *)
(* low bits; inside one group of one shard it carries exactly the slot, so *)
(* slots stand for ids here and external id 0 is NoSlot.                   *)
(***************************************************************************)
EXTENDS Integers, Sequences, FiniteSets, FiniteSetsExt

CONSTANTS Key,        \* the node keys clients use
          NoKey,      \* the cleared string of a freed slot
          MaxSlots,   \* bound of the model: a type's vectors hold at most this many slots
          Word        \* 2^64: the modulus of uint64_t arithmetic

ASSUME NodeTypesAssumption ==
    /\ IsFiniteSet(Key)
    /\ NoKey \notin Key
    /\ MaxSlots \in Nat
    /\ Word \in Nat
    /\ MaxSlots < Word

NoSlot == -1

Slot == 0 .. MaxSlots - 1

NodeType ==
    [keyToNodeId : [Key -> Slot \cup {NoSlot}],
     keys        : Seq(Key \cup {NoKey}),
     deletedIds  : SUBSET Slot]

EmptyNodeType ==
    [keyToNodeId |-> [k \in Key |-> NoSlot], keys |-> <<>>, deletedIds |-> {}]

-----------------------------------------------------------------------------
(* Reading the columns *)

KeysHeld(t) == {k \in Key : t.keyToNodeId[k] # NoSlot}

\* key_to_node_id[type].size(): the entries of the hash map, not the length of the vectors.
MapSize(t) == Cardinality(KeysHeld(t))

SlotsOf(t) == 0 .. Len(t.keys) - 1

LiveSlots(t) == SlotsOf(t) \ t.deletedIds

KeyOf(t, i) == t.keys[i + 1]

HasRoom(t) == t.deletedIds # {} \/ Len(t.keys) < MaxSlots

\* uint64_t subtraction: it wraps around when more slots are freed than keys are held.
getCount(t) ==
    LET freed == Cardinality(t.deletedIds)
    IN  IF MapSize(t) >= freed THEN MapSize(t) - freed ELSE MapSize(t) - freed + Word

\* What the comment in ValidNodeId asks for, for comparison with what the code does.
WithinVectorAndNotDeleted(t, i) == i \in SlotsOf(t) /\ i \notin t.deletedIds

ValidNodeId_OffByOne(t, i) == i >= 0 /\ MapSize(t) >= i /\ i \notin t.deletedIds

ValidNodeId_ByCount(t, i) == i >= 0 /\ getCount(t) > i /\ i \notin t.deletedIds

ValidNodeId_IgnoresDeleted(t, i) == i >= 0 /\ MapSize(t) > i

ValidNodeId(t, i) == i >= 0 /\ MapSize(t) > i /\ i \notin t.deletedIds

getIds_ByCount(t, skip, limit) ==
    {i \in 0 .. getCount(t) - 1 : skip < i + 1 /\ i + 1 <= skip + limit /\ i \notin t.deletedIds}

\* getIds and getNodes: the loop counts slots, deleted ones too, and emits the live ones
\* among positions skip+1 .. skip+limit; it ends at the size of the hash map.
getIds(t, skip, limit) ==
    {i \in 0 .. MapSize(t) - 1 :
        skip < i + 1 /\ i + 1 <= (skip + limit) % Word /\ i \notin t.deletedIds}

\* The slots of a bitmap, in the order in which loops over a column or a bitmap meet them.
Ascending(slots) ==
    CHOOSE q \in [1 .. Cardinality(slots) -> slots] : \A m, n \in DOMAIN q : m < n => q[m] < q[n]

-----------------------------------------------------------------------------
(* Allocating and freeing a slot *)

\* A freed slot is reused, the smallest first; otherwise the new slot is getCount.
NextSlot_OneTooFar(t) == IF t.deletedIds # {} THEN Min(t.deletedIds) ELSE getCount(t) + 1

NextSlot(t) == IF t.deletedIds # {} THEN Min(t.deletedIds) ELSE getCount(t)

\* addId: the slot leaves deleted_ids (and its properties are cleared).
addId(t, i) == t.deletedIds \ {i}

NodeAdd_KeyNotReplaced(t, k) ==
    IF t.keyToNodeId[k] # NoSlot
    THEN t
    ELSE [keyToNodeId |-> [t.keyToNodeId EXCEPT ![k] = NextSlot(t)],
          keys        |-> IF t.deletedIds # {} THEN t.keys ELSE Append(t.keys, k),
          deletedIds  |-> addId(t, NextSlot(t))]

NodeAdd_IgnoresExistingKey(t, k) ==
    [keyToNodeId |-> [t.keyToNodeId EXCEPT ![k] = NextSlot(t)],
     keys        |-> IF t.deletedIds # {}
                     THEN [t.keys EXCEPT ![NextSlot(t) + 1] = k]
                     ELSE Append(t.keys, k),
     deletedIds  |-> addId(t, NextSlot(t))]

\* NodeAddEmpty and NodeAdd: nothing happens, and id 0 is returned, when the key is held.
NodeAdd(t, k) ==
    IF t.keyToNodeId[k] # NoSlot
    THEN t
    ELSE [keyToNodeId |-> [t.keyToNodeId EXCEPT ![k] = NextSlot(t)],
          keys        |-> IF t.deletedIds # {}
                          THEN [t.keys EXCEPT ![NextSlot(t) + 1] = k]
                          ELSE Append(t.keys, k),
          deletedIds  |-> addId(t, NextSlot(t))]

\* The part of NodeRemove that frees the slot: the key leaves the map, the key string is
\* cleared and the slot enters deleted_ids. The caller has checked ValidNodeId.
NodeRemove(t, i) ==
    [keyToNodeId |-> [k \in Key |-> IF k = KeyOf(t, i) THEN NoSlot ELSE t.keyToNodeId[k]],
     keys        |-> [t.keys EXCEPT ![i + 1] = NoKey],
     deletedIds  |-> t.deletedIds \cup {i}]

\* deleteTypeId lets the type go when getCount says 0.
DeletableType(t) == getCount(t) = 0

-----------------------------------------------------------------------------
(* What the columns must agree on *)

\* Every key held names a slot that is not freed and carries that key.
MapPointsIntoKeys(t) ==
    \A k \in KeysHeld(t) : t.keyToNodeId[k] \in LiveSlots(t) /\ KeyOf(t, t.keyToNodeId[k]) = k

\* Every slot that is not freed carries a key, and the map finds the slot from the key.
LiveSlotsAreNamed(t) ==
    \A i \in LiveSlots(t) : KeyOf(t, i) \in Key /\ t.keyToNodeId[KeyOf(t, i)] = i

\* Freed slots lie within the vectors, and carry no key.
DeletedSlotsAreCleared(t) ==
    /\ t.deletedIds \subseteq SlotsOf(t)
    /\ \A i \in t.deletedIds : KeyOf(t, i) = NoKey

SlotsAgree(t) ==
    /\ MapPointsIntoKeys(t)
    /\ LiveSlotsAreNamed(t)
    /\ DeletedSlotsAreCleared(t)

=============================================================================
