------------------------ MODULE NodeLifecycle_proofs ------------------------
(***************************************************************************)
(* What NodeLifecycle keeps for every set of keys and every bound. One      *)
(* inductive invariant carries all of it: the columns are well-formed.      *)
(***************************************************************************)
EXTENDS NodeLifecycle, NodeTypes_lemmas

\* The conjunction of TypeOK and SlotIntegrity: neither is inductive alone, since the
\* handlers find the slot and the key to clear through the columns themselves.
IInv == named \in BOOLEAN /\ WellFormed(node)

LEMMA InitIInv == Init => IInv
BY EmptyWellFormed DEF Init, IInv

\* No handler, in any order, breaks the columns.
LEMMA NextIInv == IInv /\ [Next]_vars => IInv'
<1> SUFFICES ASSUME IInv, [Next]_vars PROVE IInv'
  OBVIOUS
<1> USE DEF IInv
<1>1. ASSUME NEW k \in Key, NodeAddEmpty(k) PROVE IInv'
  BY <1>1, NodeAddPreserves DEF NodeAddEmpty
<1>2. ASSUME NEW k1 \in Key, NEW k2 \in Key, NodeAddMany(k1, k2) PROVE IInv'
  <2>1. WellFormed(NodeAdd(node, k1)) /\ HasRoom(NodeAdd(node, k1))
    BY <1>2, NodeAddPreserves DEF NodeAddMany
  <2>2. WellFormed(NodeAdd(NodeAdd(node, k1), k2))
    BY <2>1, NodeAddPreserves
  <2> QED  BY <1>2, <2>2 DEF NodeAddMany
<1>3. ASSUME NEW i \in Slot, NodeRemoveById(i) PROVE IInv'
  <2>1. i \in Int
    BY NodeTypesAssumption DEF Slot
  <2>2. i \in LiveSlots(node)
    BY <1>3, <2>1, ValidIsLive DEF NodeRemoveById
  <2> QED  BY <1>3, <2>2, NodeRemovePreserves DEF NodeRemoveById
<1>4. ASSUME NEW k \in Key, NodeRemoveByKey(k) PROVE IInv'
  <2>1. node.keyToNodeId[k] \in Slot
    BY <1>4 DEF NodeRemoveByKey, WellFormed, NodeType
  <2> QED  BY <1>3, <1>4, <2>1 DEF NodeRemoveByKey
<1>5. CASE DeleteNodeType
  BY <1>5, EmptyWellFormed DEF DeleteNodeType
<1>6. CASE UNCHANGED vars
  BY <1>6 DEF vars
<1> QED  BY <1>1, <1>2, <1>3, <1>4, <1>5, <1>6 DEF Next

THEOREM Invariance == Spec => []IInv
BY InitIInv, NextIInv, PTL DEF Spec

-----------------------------------------------------------------------------

\* The columns keep their types and their bound.
THEOREM TypeCorrect == Spec => []TypeOK
<1>1. IInv => TypeOK
  BY DEF IInv, TypeOK, WellFormed
<1> QED  BY Invariance, <1>1, PTL

\* Map, key vector and freed slots agree after any sequence of handlers.
THEOREM SlotIntegrityHolds == Spec => []SlotIntegrity
<1>1. IInv => SlotIntegrity
  BY DEF IInv, SlotIntegrity, WellFormed
<1> QED  BY Invariance, <1>1, PTL

\* No slot is leaked and none is counted twice.
THEOREM SlotAccountingHolds == Spec => []SlotAccounting
<1>1. IInv => SlotAccounting
  BY Accounting DEF IInv, SlotAccounting
<1> QED  BY Invariance, <1>1, PTL

\* An id that passes ValidNodeId leads to a node whose key leads back to it.
THEOREM ValidNodeHasKeyHolds == Spec => []ValidNodeHasKey
<1>1. IInv => ValidNodeHasKey
  <2> SUFFICES ASSUME IInv, NEW i \in Slot, ValidNodeId(node, i)
               PROVE  /\ i \in SlotsOf(node)
                      /\ KeyOf(node, i) \in KeysHeld(node)
                      /\ node.keyToNodeId[KeyOf(node, i)] = i
    BY DEF ValidNodeHasKey
  <2>1. i \in Int /\ i # NoSlot
    BY NodeTypesAssumption DEF Slot, NoSlot
  <2>2. i \in LiveSlots(node)
    BY <2>1, ValidIsLive DEF IInv
  <2>3. KeyOf(node, i) \in Key /\ node.keyToNodeId[KeyOf(node, i)] = i
    BY <2>2 DEF IInv, WellFormed, SlotsAgree, LiveSlotsAreNamed
  <2> QED  BY <2>1, <2>2, <2>3 DEF LiveSlots, KeysHeld
<1> QED  BY Invariance, <1>1, PTL

\* The nodes ValidNodeId hides are never more than the freed slots: they sit at the end of
\* the vectors, between the size of the map and the length of the vectors.
THEOREM HiddenBounded == Spec => []HiddenBoundedByDeleted
<1>1. IInv => HiddenBoundedByDeleted
  <2> SUFFICES ASSUME IInv PROVE HiddenBoundedByDeleted
    OBVIOUS
  <2> DEFINE m == MapSize(node)
             l == Len(node.keys)
             d == Cardinality(node.deletedIds)
  <2>1. m \in Nat /\ m + d = l
    BY Accounting DEF IInv
  <2>2. d \in Nat
    BY DeletedFinite DEF IInv
  <2>3. l \in Nat
    BY DEF IInv, WellFormed, NodeType
  <2>4. HiddenNodes \in SUBSET (m .. l - 1)
    <3>1. ASSUME NEW i \in HiddenNodes PROVE i \in m .. l - 1
      <4>1. i \in 0 .. l - 1 /\ i \notin node.deletedIds /\ ~ValidNodeId(node, i)
        BY <3>1 DEF HiddenNodes, LiveSlots, SlotsOf
      <4> QED  BY <2>1, <2>3, <4>1 DEF ValidNodeId
    <3> QED  BY <3>1
  <2> HIDE DEF m, l, d
  <2>5. m \in Int /\ l - 1 \in Int
    BY <2>1, <2>3
  <2>6. IsFiniteSet(m .. l - 1) /\ Cardinality(m .. l - 1) = d
    <3>1. Cardinality(m .. l - 1) = IF m > l - 1 THEN 0 ELSE l - 1 - m + 1
      BY <2>5, FS_Interval
    <3> QED  BY <2>1, <2>2, <2>3, <2>5, <3>1, FS_Interval
  <2>7. Cardinality(HiddenNodes) <= d
    BY <2>4, <2>6, FS_Subset
  <2> QED  BY <2>7 DEF HiddenBoundedByDeleted, d
<1> QED  BY Invariance, <1>1, PTL

\* A node keeps its id while its key is held.
THEOREM NodeIdStableHolds == Spec => NodeIdStable
<1> DEFINE A == \A k \in KeysHeld(node) \cap Key :
                    k \in KeysHeld(node)' => node'.keyToNodeId[k] = node.keyToNodeId[k]
<1>1. IInv /\ [Next]_vars => [A]_vars
  <2> SUFFICES ASSUME IInv, Next PROVE A
    OBVIOUS
  <2>1. ASSUME NEW t, WellFormed(t), NEW j \in Key, NEW k \in Key, t.keyToNodeId[k] # NoSlot
        PROVE  NodeAdd(t, j).keyToNodeId[k] = t.keyToNodeId[k]
    BY <2>1 DEF NodeAdd, WellFormed, NodeType
  <2>2. ASSUME NEW i, NEW k \in Key, NodeRemove(node, i).keyToNodeId[k] # NoSlot
        PROVE  NodeRemove(node, i).keyToNodeId[k] = node.keyToNodeId[k]
    BY <2>2 DEF NodeRemove
  <2> SUFFICES ASSUME NEW k \in Key, node.keyToNodeId[k] # NoSlot, node'.keyToNodeId[k] # NoSlot
               PROVE  node'.keyToNodeId[k] = node.keyToNodeId[k]
    BY DEF KeysHeld
  <2>3. ASSUME NEW j \in Key, NodeAddEmpty(j) PROVE node'.keyToNodeId[k] = node.keyToNodeId[k]
    BY <2>1, <2>3 DEF IInv, NodeAddEmpty
  <2>4. ASSUME NEW j1 \in Key, NEW j2 \in Key, NodeAddMany(j1, j2)
        PROVE  node'.keyToNodeId[k] = node.keyToNodeId[k]
    <3>1. NodeAdd(node, j1).keyToNodeId[k] = node.keyToNodeId[k]
      BY <2>1 DEF IInv
    <3>2. WellFormed(NodeAdd(node, j1))
      BY <2>4, NodeAddPreserves DEF IInv, NodeAddMany
    <3>3. NodeAdd(NodeAdd(node, j1), j2).keyToNodeId[k] = node.keyToNodeId[k]
      BY <2>1, <3>1, <3>2
    <3> QED  BY <2>4, <3>3 DEF NodeAddMany
  <2>5. ASSUME NEW i, NodeRemoveById(i) PROVE node'.keyToNodeId[k] = node.keyToNodeId[k]
    BY <2>2, <2>5 DEF NodeRemoveById
  <2>6. CASE DeleteNodeType
    BY <2>6 DEF DeleteNodeType, EmptyNodeType
  <2> QED  BY <2>3, <2>4, <2>5, <2>6 DEF Next, NodeRemoveByKey
<1> QED  BY Invariance, <1>1, PTL DEF Spec, NodeIdStable

-----------------------------------------------------------------------------
(* Paging *)

\* Vectors do not come near half of what a uint64_t counts: an id has 38 of its 64 bits for the
\* slot, next to those of the type and the shard (shard/Ids.cpp:24).
SlotsBelowHalfWord == 2 * MaxSlots <= Word

LEMMA SmallRemainder == ASSUME NEW a \in Nat, NEW w \in Nat, a < w PROVE a % w = a
OBVIOUS

LEMMA TimesGrows == ASSUME NEW a \in Nat, NEW b \in Nat, NEW l \in Nat, a <= b PROVE a * l <= b * l
OBVIOUS

\* A page is what is valid among limit consecutive slots: the end of the page is computed
\* modulo 2^64, but no page that begins within the vectors comes near it.
LEMMA PageIs ==
    ASSUME SlotsBelowHalfWord, WellFormed(node),
           NEW limit \in 1 .. MaxSlots, NEW q \in Nat, NEW i \in Int
    PROVE  i \in getIds(node, q, limit) <=> ValidNodeId(node, i) /\ q <= i /\ i < q + limit
<1> DEFINE m == MapSize(node)
           end == (q + limit) % Word
<1>1. MaxSlots \in Nat /\ Word \in Nat /\ 2 * MaxSlots <= Word /\ limit \in Nat \ {0}
  BY NodeTypesAssumption DEF SlotsBelowHalfWord
<1>2. m \in Nat /\ m <= MaxSlots
  <2>1. m \in Nat /\ m + Cardinality(node.deletedIds) = Len(node.keys)
    BY Accounting
  <2>2. Cardinality(node.deletedIds) \in Nat
    BY DeletedFinite
  <2>3. Len(node.keys) <= MaxSlots /\ Len(node.keys) \in Nat
    BY DEF WellFormed, NodeType
  <2> HIDE DEF m
  <2> QED  BY <1>1, <2>1, <2>2, <2>3
<1>3. i \in getIds(node, q, limit) <=>
         i \in 0 .. m - 1 /\ q < i + 1 /\ i + 1 <= end /\ i \notin node.deletedIds
  BY DEF getIds
<1>4. ValidNodeId(node, i) <=> i >= 0 /\ m > i /\ i \notin node.deletedIds
  BY DEF ValidNodeId
<1>5. q < MaxSlots => end = q + limit
  <2> SUFFICES ASSUME q < MaxSlots PROVE end = q + limit
    OBVIOUS
  <2>1. q + limit \in Nat /\ q + limit < Word
    BY <1>1
  <2> QED  BY <1>1, <2>1, SmallRemainder
<1> HIDE DEF m, end
<1>6. CASE q < MaxSlots
  <2>1. end = q + limit
    BY <1>5, <1>6
  <2>2. i \in 0 .. m - 1 /\ q < i + 1 /\ i + 1 <= end <=> i >= 0 /\ m > i /\ q <= i /\ i < q + limit
    BY <1>1, <1>2, <2>1
  <2> QED  BY <1>3, <1>4, <2>2
<1>7. CASE q >= MaxSlots
  <2>1. ~(i \in 0 .. m - 1 /\ q < i + 1) /\ ~(m > i /\ q <= i)
    BY <1>1, <1>2, <1>7
  <2> QED  BY <1>3, <1>4, <2>1
<1> QED  BY <1>1, <1>6, <1>7

\* Every slot lies on one page.
LEMMA OnSomePage ==
    ASSUME NEW limit \in 1 .. MaxSlots, NEW i \in Nat
    PROVE  \E n \in 0 .. i : n * limit <= i /\ i < n * limit + limit
<1> DEFINE S == {n \in Nat : i < n * limit + limit}
<1>1. limit \in Nat \ {0}
  BY NodeTypesAssumption
<1>2. i \in S
  <2>1. i * 1 <= i * limit
    BY <1>1
  <2> QED  BY <1>1, <2>1
<1>3. PICK n \in S : \A y \in S : n <= y
  <2>1. S \subseteq Nat /\ S # {}
    BY <1>2
  <2> HIDE DEF S
  <2> QED  BY <2>1, NatMin
<1>4. n \in Nat /\ n <= i /\ i < n * limit + limit
  BY <1>2, <1>3
<1>5. n * limit <= i
  <2>1. CASE n = 0
    BY <1>1, <2>1
  <2>2. CASE n # 0
    <3>1. n - 1 \in Nat /\ n - 1 \notin S
      BY <1>3, <1>4, <2>2
    <3>2. ~(i < (n - 1) * limit + limit)
      BY <3>1
    <3>3. (n - 1) * limit + limit = n * limit
      BY <1>1, <1>4
    <3>4. n * limit \in Nat
      BY <1>1, <1>4
    <3> QED  BY <3>2, <3>3, <3>4
  <2> QED  BY <2>1, <2>2
<1> QED  BY <1>4, <1>5

LEMMA OnOnePage ==
    ASSUME NEW limit \in 1 .. MaxSlots, NEW i \in Nat, NEW n \in Nat, NEW m \in Nat, n < m,
           i < n * limit + limit
    PROVE  ~(m * limit <= i)
<1>1. limit \in Nat
  BY NodeTypesAssumption
<1>2. (n + 1) * limit <= m * limit
  BY <1>1, TimesGrows
<1>3. (n + 1) * limit = n * limit + limit
  BY <1>1
<1>4. n * limit \in Nat /\ m * limit \in Nat
  BY <1>1
<1> QED  BY <1>1, <1>2, <1>3, <1>4

\* getIds, which counts slots and skips the freed ones, pages through the valid nodes of a shard
\* without a gap and without a repetition, whatever the size of the page.
THEOREM PagesListEveryValidNodeHolds ==
    ASSUME SlotsBelowHalfWord PROVE Spec => []PagesListEveryValidNode
<1>1. IInv => PagesListEveryValidNode
  <2> SUFFICES ASSUME IInv, NEW limit \in 1 .. MaxSlots
               PROVE  /\ UNION {getIds(node, n * limit, limit) : n \in 0 .. MaxSlots}
                            = {i \in Slot : ValidNodeId(node, i)}
                      /\ \A n, m \in 0 .. MaxSlots : n # m =>
                            getIds(node, n * limit, limit) \cap getIds(node, m * limit, limit) = {}
    BY DEF PagesListEveryValidNode
  <2> DEFINE Page(n) == getIds(node, n * limit, limit)
  <2>1. WellFormed(node) /\ limit \in Nat \ {0} /\ MaxSlots \in Nat
    BY NodeTypesAssumption DEF IInv
  <2>2. \A n \in 0 .. MaxSlots : n * limit \in Nat
    BY <2>1
  <2>3. \A n \in 0 .. MaxSlots : Page(n) \subseteq Int
    <3>1. MapSize(node) \in Nat
      BY <2>1, Accounting
    <3> QED  BY <3>1 DEF getIds
  <2>4. \A n \in 0 .. MaxSlots : \A i \in Int :
           i \in Page(n) <=> ValidNodeId(node, i) /\ n * limit <= i /\ i < n * limit + limit
    BY <2>1, <2>2, PageIs
  <2> HIDE DEF Page
  <2>5. ASSUME NEW i \in Int, ValidNodeId(node, i) PROVE i \in Slot /\ i \in Nat
    <3>1. i \in SlotsOf(node)
      BY <2>1, <2>5, ValidIsLive DEF LiveSlots
    <3>2. Len(node.keys) \in Nat /\ Len(node.keys) <= MaxSlots
      BY <2>1 DEF WellFormed, NodeType
    <3> QED  BY <2>1, <3>1, <3>2 DEF SlotsOf, Slot
  <2>6. \A i \in Slot : i \in Int /\ i < MaxSlots
    BY <2>1 DEF Slot
  <2>7. UNION {Page(n) : n \in 0 .. MaxSlots} = {i \in Slot : ValidNodeId(node, i)}
    <3>1. ASSUME NEW n \in 0 .. MaxSlots, NEW i \in Page(n) PROVE i \in Slot /\ ValidNodeId(node, i)
      BY <2>3, <2>4, <2>5
    <3>2. ASSUME NEW i \in Slot, ValidNodeId(node, i) PROVE \E n \in 0 .. MaxSlots : i \in Page(n)
      <4>1. i \in Nat /\ i \in Int /\ i < MaxSlots
        BY <2>5, <2>6, <3>2
      <4>2. PICK n \in 0 .. i : n * limit <= i /\ i < n * limit + limit
        BY <4>1, OnSomePage
      <4>3. n \in 0 .. MaxSlots
        BY <2>1, <4>1
      <4> QED  BY <2>4, <3>2, <4>1, <4>2, <4>3
    <3> QED  BY <3>1, <3>2
  <2>8. ASSUME NEW n \in 0 .. MaxSlots, NEW m \in 0 .. MaxSlots, n < m, NEW i \in Page(n), i \in Page(m)
        PROVE  FALSE
    <3>1. i \in Nat /\ n \in Nat /\ m \in Nat
      BY <2>1, <2>3, <2>4, <2>5
    <3>2. i < n * limit + limit /\ m * limit <= i
      BY <2>4, <2>8, <3>1
    <3> QED  BY <2>8, <3>1, <3>2, OnOnePage
  <2>9. \A n, m \in 0 .. MaxSlots : n # m => n < m \/ m < n
    BY <2>1
  <2>10. \A n, m \in 0 .. MaxSlots : n # m => Page(n) \cap Page(m) = {}
    BY <2>8, <2>9
  <2> QED  BY <2>7, <2>10 DEF Page
<1> QED  BY Invariance, <1>1, PTL

=============================================================================
