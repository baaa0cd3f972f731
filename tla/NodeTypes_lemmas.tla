-------------------------- MODULE NodeTypes_lemmas --------------------------
(***************************************************************************)
(* Lemmas about the operators of NodeTypes, for every set of keys and every *)
(* bound: what NodeAdd and NodeRemove preserve, and how the size of the key *)
(* map relates to the length of the vectors. The proofs of the modules      *)
(* that keep such columns cite them.                                        *)
(***************************************************************************)
EXTENDS NodeTypes, FiniteSetTheorems, WellFoundedInduction, TLAPS

\* A node type as the shard's handlers leave it.
WellFormed(t) == t \in NodeType /\ Len(t.keys) <= MaxSlots /\ SlotsAgree(t)

-----------------------------------------------------------------------------
(* Least elements *)

\* Roaring::minimum has something to return: a nonempty set of naturals has a least element.
\* (The sets 0 .. x are finite, and strict inclusion of finite sets is well-founded.)
LEMMA NatMin ==
    ASSUME NEW S, S \subseteq Nat, S # {}
    PROVE  \E m \in S : \A y \in S : m <= y
<1> DEFINE T == {0 .. x : x \in S}
<1>1. T \subseteq FiniteSubsetsOf(Nat)
  <2>1. ASSUME NEW x \in S PROVE IsFiniteSet(0 .. x) /\ 0 .. x \in SUBSET Nat
    <3>1. 0 \in Int /\ x \in Int
      OBVIOUS
    <3>2. IsFiniteSet(0 .. x)
      BY <3>1, FS_Interval
    <3> QED  BY <3>2
  <2> QED  BY <2>1 DEF FiniteSubsetsOf
<1>2. T # {}
  OBVIOUS
<1>3. PICK t \in T : \A u \in T : ~ (<<u, t>> \in StrictSubsetOrdering(Nat))
  <2> HIDE DEF T
  <2>1. IsWellFoundedOn(StrictSubsetOrdering(Nat), FiniteSubsetsOf(Nat))
    BY FS_StrictSubsetOrderingWellFounded
  <2> QED  BY <1>1, <1>2, <2>1, WFMin
<1>4. PICK m \in S : t = 0 .. m
  OBVIOUS
<1>5. ASSUME NEW y \in S PROVE m <= y
  <2>1. ~ (<<0 .. y, 0 .. m>> \in StrictSubsetOrdering(Nat))
    BY <1>3, <1>4
  <2>2. CASE y < m
    <3>1. m \in 0 .. m /\ m \notin 0 .. y
      BY <2>2
    <3>2. 0 .. y \subseteq 0 .. m
      BY <2>2
    <3>3. 0 .. y \in SUBSET Nat /\ 0 .. m \in SUBSET Nat
      OBVIOUS
    <3> QED  BY <2>1, <3>1, <3>2, <3>3 DEF StrictSubsetOrdering
  <2> QED  BY <2>2
<1> QED  BY <1>5

\* The smallest element is one of the elements.
LEMMA MinIsElement ==
    ASSUME NEW S, S \subseteq Nat, S # {}
    PROVE  Min(S) \in S /\ \A y \in S : Min(S) <= y
BY NatMin DEF Min

-----------------------------------------------------------------------------
(* Counting *)

\* The freed slots are finitely many, being within the vectors.
LEMMA DeletedFinite ==
    ASSUME NEW t, WellFormed(t)
    PROVE  /\ IsFiniteSet(t.deletedIds)
           /\ Cardinality(t.deletedIds) \in Nat
           /\ Cardinality(t.deletedIds) <= Len(t.keys)
           /\ IsFiniteSet(SlotsOf(t)) /\ Cardinality(SlotsOf(t)) = Len(t.keys)
<1>1. Len(t.keys) \in Nat
  BY DEF WellFormed, NodeType
<1>2. IsFiniteSet(SlotsOf(t)) /\ Cardinality(SlotsOf(t)) = Len(t.keys)
  <2>1. 0 \in Int /\ Len(t.keys) - 1 \in Int
    BY <1>1
  <2>2. IsFiniteSet(0 .. Len(t.keys) - 1)
        /\ Cardinality(0 .. Len(t.keys) - 1) =
             IF 0 > Len(t.keys) - 1 THEN 0 ELSE Len(t.keys) - 1 - 0 + 1
    BY <2>1, FS_Interval
  <2> QED  BY <1>1, <2>2 DEF SlotsOf
<1>3. t.deletedIds \in SUBSET SlotsOf(t)
  BY DEF WellFormed, SlotsAgree, DeletedSlotsAreCleared
<1>4. IsFiniteSet(t.deletedIds) /\ Cardinality(t.deletedIds) <= Cardinality(SlotsOf(t))
  BY <1>2, <1>3, FS_Subset
<1> QED  BY <1>1, <1>2, <1>4, FS_CardinalityType

\* The keys held are as many as the slots in use: the map and the vector are a bijection.
LEMMA MapSizeIsLiveSlots ==
    ASSUME NEW t, WellFormed(t)
    PROVE  /\ IsFiniteSet(KeysHeld(t))
           /\ MapSize(t) = Cardinality(LiveSlots(t))
<1> DEFINE f == [k \in KeysHeld(t) |-> t.keyToNodeId[k]]
<1>1. IsFiniteSet(KeysHeld(t))
  <2>1. KeysHeld(t) \in SUBSET Key
    BY DEF KeysHeld
  <2> QED  BY <2>1, NodeTypesAssumption, FS_Subset
<1>2. f \in [KeysHeld(t) -> LiveSlots(t)]
  BY DEF WellFormed, SlotsAgree, MapPointsIntoKeys
<1>3. ASSUME NEW a \in KeysHeld(t), NEW b \in KeysHeld(t), f[a] = f[b]
      PROVE  a = b
  BY <1>3 DEF WellFormed, SlotsAgree, MapPointsIntoKeys
<1>4. ASSUME NEW i \in LiveSlots(t)
      PROVE  \E k \in KeysHeld(t) : f[k] = i
  <2>1. KeyOf(t, i) \in Key /\ t.keyToNodeId[KeyOf(t, i)] = i
    BY DEF WellFormed, SlotsAgree, LiveSlotsAreNamed
  <2>2. i # NoSlot
    BY DEF LiveSlots, SlotsOf, NoSlot
  <2> QED  BY <2>1, <2>2 DEF KeysHeld
<1>5. f \in Bijection(KeysHeld(t), LiveSlots(t))
  BY <1>2, <1>3, <1>4 DEF Bijection, Injection, Surjection, IsInjective
<1>6. ExistsBijection(KeysHeld(t), LiveSlots(t))
  BY <1>5 DEF ExistsBijection
<1> QED  BY <1>1, <1>6, FS_Bijection DEF MapSize

\* Keys held and slots freed add up to the length of the vectors.
LEMMA Accounting ==
    ASSUME NEW t, WellFormed(t)
    PROVE  /\ MapSize(t) \in Nat
           /\ MapSize(t) + Cardinality(t.deletedIds) = Len(t.keys)
<1>1. t.deletedIds \in SUBSET SlotsOf(t)
  BY DEF WellFormed, SlotsAgree, DeletedSlotsAreCleared
<1>2. Cardinality(LiveSlots(t)) = Cardinality(SlotsOf(t)) - Cardinality(SlotsOf(t) \cap t.deletedIds)
  BY DeletedFinite, FS_Difference DEF LiveSlots
<1>3. SlotsOf(t) \cap t.deletedIds = t.deletedIds
  BY <1>1
<1>4. MapSize(t) \in Nat
  BY MapSizeIsLiveSlots, FS_CardinalityType DEF MapSize
<1>5. Len(t.keys) \in Nat
  BY DEF WellFormed, NodeType
<1>6. MapSize(t) = Cardinality(LiveSlots(t))
  BY MapSizeIsLiveSlots
<1>7. Cardinality(SlotsOf(t)) = Len(t.keys) /\ Cardinality(t.deletedIds) \in Nat
  BY DeletedFinite
<1>8. MapSize(t) = Len(t.keys) - Cardinality(t.deletedIds)
  BY <1>2, <1>3, <1>6, <1>7
<1> QED  BY <1>4, <1>5, <1>7, <1>8

-----------------------------------------------------------------------------
(* Allocation *)

\* The slot NodeAdd takes is the smallest freed one, or the end of the vectors: getCount is
\* the length of the vectors exactly because it is consulted when nothing is freed.
LEMMA NextSlotIsFree ==
    ASSUME NEW t, WellFormed(t), HasRoom(t)
    PROVE  /\ NextSlot(t) \in Slot
           /\ t.deletedIds # {} => NextSlot(t) \in t.deletedIds
           /\ t.deletedIds = {} => NextSlot(t) = Len(t.keys)
<1>1. CASE t.deletedIds # {}
  <2>1. t.deletedIds \subseteq Nat
    BY DEF WellFormed, NodeType, Slot
  <2>2. Min(t.deletedIds) \in t.deletedIds
    BY <1>1, <2>1, MinIsElement
  <2> QED  BY <1>1, <2>2 DEF NextSlot, WellFormed, NodeType
<1>2. CASE t.deletedIds = {}
  <2>1. Cardinality(t.deletedIds) = 0
    BY <1>2, FS_EmptySet
  <2>2. Len(t.keys) \in Nat /\ Len(t.keys) < MaxSlots
    BY <1>2 DEF WellFormed, NodeType, HasRoom
  <2>3. MapSize(t) = Len(t.keys)
    BY <2>1, <2>2, Accounting
  <2>4. getCount(t) = Len(t.keys)
    BY <2>1, <2>2, <2>3 DEF getCount
  <2>5. NextSlot(t) = Len(t.keys)
    BY <1>2, <2>4 DEF NextSlot
  <2>6. Len(t.keys) \in Slot
    BY <2>2, NodeTypesAssumption DEF Slot
  <2> QED  BY <1>2, <2>5, <2>6
<1> QED  BY <1>1, <1>2

-----------------------------------------------------------------------------
(* The two updates *)

\* Adding a key keeps the columns in agreement, whether the key is held, a freed slot is
\* recycled, or the vectors grow.
LEMMA NodeAddPreserves ==
    ASSUME NEW t, WellFormed(t), HasRoom(t), NEW k \in Key
    PROVE  WellFormed(NodeAdd(t, k))
<1>1. CASE t.keyToNodeId[k] # NoSlot
  BY <1>1 DEF NodeAdd
<1>2. CASE t.keyToNodeId[k] = NoSlot
  <2> DEFINE n == NextSlot(t)
             u == NodeAdd(t, k)
  <2> HIDE DEF n
  <2>1. t \in NodeType /\ Len(t.keys) \in Nat /\ Len(t.keys) <= MaxSlots
    BY DEF WellFormed, NodeType
  <2>2. n \in Slot /\ n # NoSlot
    BY NextSlotIsFree DEF n, Slot, NoSlot
  <2>3. u = [keyToNodeId |-> [t.keyToNodeId EXCEPT ![k] = n],
             keys        |-> IF t.deletedIds # {} THEN [t.keys EXCEPT ![n + 1] = k]
                                                  ELSE Append(t.keys, k),
             deletedIds  |-> t.deletedIds \ {n}]
    BY <1>2 DEF NodeAdd, addId, n
  <2> HIDE DEF u
  <2>4. k # NoKey /\ \A i \in LiveSlots(t) : KeyOf(t, i) # k
    BY <1>2, NodeTypesAssumption DEF WellFormed, SlotsAgree, LiveSlotsAreNamed, LiveSlots, SlotsOf, NoSlot
  <2>5. /\ u.keys \in Seq(Key \cup {NoKey}) /\ Len(u.keys) <= MaxSlots
        /\ n \in SlotsOf(u) /\ KeyOf(u, n) = k
        /\ n \notin LiveSlots(t)
        /\ SlotsOf(u) = SlotsOf(t) \cup {n}
        /\ \A i \in SlotsOf(t) : i # n => KeyOf(u, i) = KeyOf(t, i)
    <3>1. CASE t.deletedIds # {}
      <4>1. n \in t.deletedIds /\ n \in SlotsOf(t)
        BY <3>1, NextSlotIsFree DEF n, WellFormed, SlotsAgree, DeletedSlotsAreCleared
      <4>2. u.keys = [t.keys EXCEPT ![n + 1] = k]
        BY <2>3, <3>1
      <4>3. Len(u.keys) = Len(t.keys) /\ u.keys \in Seq(Key \cup {NoKey})
        BY <2>1, <4>1, <4>2 DEF NodeType, SlotsOf
      <4> QED  BY <2>1, <4>1, <4>2, <4>3 DEF NodeType, SlotsOf, KeyOf, LiveSlots
    <3>2. CASE t.deletedIds = {}
      <4>1. n = Len(t.keys) /\ Len(t.keys) < MaxSlots
        BY <2>1, <3>2, NextSlotIsFree DEF n, HasRoom
      <4>2. u.keys = Append(t.keys, k)
        BY <2>3, <3>2
      <4>3. Len(u.keys) = Len(t.keys) + 1 /\ u.keys \in Seq(Key \cup {NoKey})
        BY <2>1, <4>2 DEF NodeType
      <4> QED  BY <2>1, <4>1, <4>2, <4>3, NodeTypesAssumption DEF NodeType, SlotsOf, KeyOf, LiveSlots
    <3> QED  BY <3>1, <3>2
  <2>6. u \in NodeType
    BY <2>1, <2>2, <2>3, <2>5 DEF NodeType
  <2>7. LiveSlots(u) = LiveSlots(t) \cup {n}
    BY <2>3, <2>5 DEF LiveSlots
  <2>8. KeysHeld(u) = KeysHeld(t) \cup {k}
    BY <2>1, <2>2, <2>3 DEF KeysHeld, NodeType
  <2>9. u.keyToNodeId[k] = n /\ \A j \in Key \ {k} : u.keyToNodeId[j] = t.keyToNodeId[j]
    BY <2>1, <2>3 DEF NodeType
  <2>10. MapPointsIntoKeys(u)
    BY <1>2, <2>5, <2>7, <2>8, <2>9
       DEF WellFormed, SlotsAgree, MapPointsIntoKeys, LiveSlots, KeysHeld
  <2>11. LiveSlotsAreNamed(u)
    BY <2>4, <2>5, <2>7, <2>9 DEF WellFormed, SlotsAgree, LiveSlotsAreNamed, LiveSlots
  <2>12. DeletedSlotsAreCleared(u)
    BY <2>3, <2>5 DEF WellFormed, SlotsAgree, DeletedSlotsAreCleared
  <2> QED  BY <2>5, <2>6, <2>10, <2>11, <2>12 DEF WellFormed, SlotsAgree, u
<1> QED  BY <1>1, <1>2

\* Removing a node in use keeps them in agreement, and frees exactly its slot.
LEMMA NodeRemovePreserves ==
    ASSUME NEW t, WellFormed(t), NEW i \in LiveSlots(t)
    PROVE  WellFormed(NodeRemove(t, i))
<1> DEFINE u == NodeRemove(t, i)
           k == KeyOf(t, i)
<1>1. t \in NodeType /\ Len(t.keys) \in Nat /\ Len(t.keys) <= MaxSlots /\ i \in SlotsOf(t)
  BY DEF WellFormed, NodeType, LiveSlots
<1>2. k \in Key /\ t.keyToNodeId[k] = i
  BY DEF WellFormed, SlotsAgree, LiveSlotsAreNamed
<1>3. /\ u.keyToNodeId = [j \in Key |-> IF j = k THEN NoSlot ELSE t.keyToNodeId[j]]
      /\ u.keys = [t.keys EXCEPT ![i + 1] = NoKey]
      /\ u.deletedIds = t.deletedIds \cup {i}
  BY DEF NodeRemove
<1>4. /\ u.keys \in Seq(Key \cup {NoKey}) /\ Len(u.keys) = Len(t.keys)
      /\ KeyOf(u, i) = NoKey
      /\ \A j \in SlotsOf(t) : j # i => KeyOf(u, j) = KeyOf(t, j)
  BY <1>1, <1>3 DEF NodeType, SlotsOf, KeyOf
<1>5. i \in Slot
  BY <1>1, NodeTypesAssumption DEF SlotsOf, Slot
<1>6. u \in NodeType
  BY <1>1, <1>3, <1>4, <1>5 DEF NodeType, NodeRemove
<1>7. SlotsOf(u) = SlotsOf(t) /\ LiveSlots(u) = LiveSlots(t) \ {i}
  BY <1>3, <1>4 DEF SlotsOf, LiveSlots
<1>8. KeysHeld(u) = KeysHeld(t) \ {k}
  BY <1>2, <1>3 DEF KeysHeld
<1> HIDE DEF u, k
<1>9. \A j \in KeysHeld(t) : j # k => t.keyToNodeId[j] # i
  BY DEF WellFormed, SlotsAgree, MapPointsIntoKeys, k
<1>10. MapPointsIntoKeys(u)
  BY <1>3, <1>4, <1>7, <1>8, <1>9
     DEF WellFormed, SlotsAgree, MapPointsIntoKeys, LiveSlots, KeysHeld
<1>11. \A j \in LiveSlots(t) : j # i => KeyOf(t, j) # k
  BY <1>2 DEF WellFormed, SlotsAgree, LiveSlotsAreNamed
<1>12. LiveSlotsAreNamed(u)
  BY <1>3, <1>4, <1>7, <1>11 DEF WellFormed, SlotsAgree, LiveSlotsAreNamed, LiveSlots
<1>13. DeletedSlotsAreCleared(u)
  BY <1>1, <1>3, <1>4, <1>7 DEF WellFormed, SlotsAgree, DeletedSlotsAreCleared
<1> QED  BY <1>1, <1>4, <1>6, <1>10, <1>12, <1>13 DEF WellFormed, SlotsAgree, u

-----------------------------------------------------------------------------
(* Validity, and the empty type *)

\* A slot ValidNodeId accepts is in use, although the test reads the size of the map and
\* not the length of the vectors: the map is never the longer of the two.
LEMMA ValidIsLive ==
    ASSUME NEW t, WellFormed(t), NEW i \in Int, ValidNodeId(t, i)
    PROVE  i \in LiveSlots(t)
<1>1. MapSize(t) \in Nat /\ MapSize(t) + Cardinality(t.deletedIds) = Len(t.keys)
  BY Accounting
<1>2. Cardinality(t.deletedIds) \in Nat
  BY DeletedFinite
<1>3. Len(t.keys) \in Nat
  BY DEF WellFormed, NodeType
<1>4. i < Len(t.keys) /\ i >= 0 /\ i \notin t.deletedIds
  BY <1>1, <1>2, <1>3 DEF ValidNodeId
<1> QED  BY <1>3, <1>4 DEF LiveSlots, SlotsOf

\* A new type has empty columns, and they agree.
LEMMA EmptyWellFormed == WellFormed(EmptyNodeType)
<1>1. EmptyNodeType \in NodeType
  BY DEF EmptyNodeType, NodeType
<1>2. Len(EmptyNodeType.keys) = 0
  BY DEF EmptyNodeType
<1>3. SlotsOf(EmptyNodeType) = {}
  BY <1>2 DEF SlotsOf
<1>4. SlotsAgree(EmptyNodeType)
  BY <1>3 DEF SlotsAgree, MapPointsIntoKeys, LiveSlotsAreNamed, DeletedSlotsAreCleared,
              LiveSlots, KeysHeld, EmptyNodeType
<1> QED  BY <1>1, <1>2, <1>4, NodeTypesAssumption DEF WellFormed

\* A node added takes a slot that was free, and the slot is valid: all slots before it are in use.
LEMMA NodeAddDoes ==
    ASSUME NEW t, WellFormed(t), HasRoom(t), NEW k \in Key, t.keyToNodeId[k] = NoSlot
    PROVE  /\ WellFormed(NodeAdd(t, k))
           /\ NextSlot(t) \in Slot /\ NextSlot(t) \notin LiveSlots(t)
           /\ SlotsOf(NodeAdd(t, k)) = SlotsOf(t) \cup {NextSlot(t)}
           /\ LiveSlots(NodeAdd(t, k)) = LiveSlots(t) \cup {NextSlot(t)}
           /\ Len(t.keys) <= Len(NodeAdd(t, k).keys)
           /\ ValidNodeId(NodeAdd(t, k), NextSlot(t))
<1> DEFINE n == NextSlot(t)
           u == NodeAdd(t, k)
<1>1. WellFormed(u)
  BY NodeAddPreserves
<1>2. n \in Slot /\ (t.deletedIds # {} => n \in t.deletedIds) /\ (t.deletedIds = {} => n = Len(t.keys))
  BY NextSlotIsFree
<1>3. n \in Nat /\ t.deletedIds \subseteq SlotsOf(t) /\ t.deletedIds \subseteq Nat
      /\ Len(t.keys) \in Nat /\ t.keys \in Seq(Key \cup {NoKey})
  BY <1>2 DEF WellFormed, SlotsAgree, DeletedSlotsAreCleared, NodeType, Slot
<1>4. \A j \in t.deletedIds : n <= j
  BY <1>3, MinIsElement DEF NextSlot
<1> HIDE DEF n
<1>5. u = [keyToNodeId |-> [t.keyToNodeId EXCEPT ![k] = n],
           keys        |-> IF t.deletedIds # {} THEN [t.keys EXCEPT ![n + 1] = k] ELSE Append(t.keys, k),
           deletedIds  |-> t.deletedIds \ {n}]
  BY DEF NodeAdd, addId, n
<1>6. u.deletedIds = t.deletedIds \ {n}
      /\ u.keys = IF t.deletedIds # {} THEN [t.keys EXCEPT ![n + 1] = k] ELSE Append(t.keys, k)
  BY <1>5
<1> HIDE DEF u
<1>7. Len(u.keys) = IF t.deletedIds # {} THEN Len(t.keys) ELSE Len(t.keys) + 1
  BY <1>3, <1>6
<1>8. SlotsOf(u) = SlotsOf(t) \cup {n} /\ n \notin LiveSlots(t) /\ Len(t.keys) <= Len(u.keys)
  BY <1>2, <1>3, <1>7 DEF SlotsOf, LiveSlots
<1>9. LiveSlots(u) = LiveSlots(t) \cup {n}
  BY <1>6, <1>8 DEF LiveSlots
<1>10. 0 .. n \subseteq LiveSlots(u)
  <2>1. ASSUME NEW j \in 0 .. n PROVE j \in LiveSlots(t) \cup {n}
    <3>1. CASE j < n
      <4>1. j \notin t.deletedIds
        BY <1>3, <1>4, <3>1
      <4>2. n < Len(t.keys) \/ n = Len(t.keys)
        BY <1>2, <1>3 DEF SlotsOf
      <4> QED  BY <1>3, <3>1, <4>1, <4>2 DEF LiveSlots, SlotsOf
    <3> QED  BY <1>3, <3>1
  <2> QED  BY <1>9, <2>1
<1>11. MapSize(u) \in Nat /\ MapSize(u) > n
  <2>1. IsFiniteSet(KeysHeld(u)) /\ MapSize(u) = Cardinality(LiveSlots(u)) /\ MapSize(u) \in Nat
    BY <1>1, MapSizeIsLiveSlots, Accounting
  <2>2. IsFiniteSet(LiveSlots(u))
    <3>1. IsFiniteSet(SlotsOf(u)) /\ LiveSlots(u) \in SUBSET SlotsOf(u)
      BY <1>1, DeletedFinite DEF LiveSlots
    <3> QED  BY <3>1, FS_Subset
  <2>3. Cardinality(0 .. n) <= Cardinality(LiveSlots(u))
    <3>1. 0 .. n \in SUBSET LiveSlots(u)
      BY <1>10
    <3> QED  BY <2>2, <3>1, FS_Subset
  <2>4. Cardinality(0 .. n) = n + 1
    <3>1. 0 \in Int /\ n \in Int
      BY <1>3
    <3>2. Cardinality(0 .. n) = IF 0 > n THEN 0 ELSE n - 0 + 1
      BY <3>1, FS_Interval
    <3> QED  BY <1>3, <3>2
  <2> QED  BY <1>3, <2>1, <2>3, <2>4
<1>12. ValidNodeId(u, n)
  BY <1>3, <1>6, <1>11 DEF ValidNodeId
<1> QED  BY <1>1, <1>2, <1>8, <1>9, <1>12 DEF n, u

\* A node removed leaves its slot free and every other slot as it was.
LEMMA NodeRemoveDoes ==
    ASSUME NEW t, WellFormed(t), NEW i \in LiveSlots(t)
    PROVE  /\ WellFormed(NodeRemove(t, i))
           /\ SlotsOf(NodeRemove(t, i)) = SlotsOf(t)
           /\ LiveSlots(NodeRemove(t, i)) = LiveSlots(t) \ {i}
           /\ Len(NodeRemove(t, i).keys) = Len(t.keys)
<1>1. t.keys \in Seq(Key \cup {NoKey})
  BY DEF WellFormed, NodeType
<1>2. Len(NodeRemove(t, i).keys) = Len(t.keys) /\ NodeRemove(t, i).deletedIds = t.deletedIds \cup {i}
  BY <1>1 DEF NodeRemove
<1> QED  BY <1>2, NodeRemovePreserves DEF LiveSlots, SlotsOf

\* The slots of a type are within the bound.
LEMMA SlotsAreSlots ==
    ASSUME NEW t, WellFormed(t)
    PROVE  SlotsOf(t) \subseteq Slot /\ LiveSlots(t) \subseteq SlotsOf(t) /\ Slot \subseteq Nat
<1>1. Len(t.keys) \in Nat /\ Len(t.keys) <= MaxSlots /\ MaxSlots \in Nat
  BY NodeTypesAssumption DEF WellFormed, NodeType
<1> QED  BY <1>1 DEF SlotsOf, Slot, LiveSlots

-----------------------------------------------------------------------------
(* Slots in order *)

Ascends(q, S) == q \in [1 .. Cardinality(S) -> S] /\ \A m, n \in DOMAIN q : m < n => q[m] < q[n]

LEMMA SlotSetsFinite ==
    ASSUME NEW n \in Nat, NEW T, T \subseteq 0 .. n - 1
    PROVE  IsFiniteSet(T) /\ Cardinality(T) \in Nat
<1>1. 0 \in Int /\ n - 1 \in Int
  OBVIOUS
<1>2. IsFiniteSet(0 .. n - 1) /\ T \in SUBSET (0 .. n - 1)
  BY <1>1, FS_Interval
<1>3. IsFiniteSet(T)
  BY <1>2, FS_Subset
<1> QED  BY <1>3, FS_CardinalityType

\* Every set of slots can be put in order: the greatest goes to the end of the others.
LEMMA OrderExists ==
    ASSUME NEW N \in Nat, NEW S, S \subseteq 0 .. N - 1
    PROVE  \E q : Ascends(q, S)
<1> DEFINE Ordered(n) == \A T \in SUBSET (0 .. n - 1) : \E q : Ascends(q, T)
           Bad == {n \in Nat : ~Ordered(n)}
<1>1. CASE Bad = {}
  BY <1>1
<1>2. CASE Bad # {}
  <2>1. Bad \subseteq Nat
    OBVIOUS
  <2>2. PICK n \in Bad : \A j \in Bad : n <= j
    <3> HIDE DEF Bad
    <3> QED  BY <1>2, <2>1, NatMin
  <2>3. n \in Nat /\ ~Ordered(n)
    OBVIOUS
  <2>4. PICK T \in SUBSET (0 .. n - 1) : ~ \E q : Ascends(q, T)
    BY <2>3
  <2>5. CASE n = 0
    <3>1. T = {} /\ Cardinality(T) = 0
      <4>1. T = {}
        BY <2>5
      <4> QED  BY <4>1, FS_EmptySet
    <3>2. Ascends(<<>>, T)
      BY <3>1 DEF Ascends
    <3> QED  BY <2>4, <3>2
  <2>6. CASE n # 0
    <3> DEFINE U == T \ {n - 1}
    <3>1. n - 1 \in Nat /\ n - 1 \notin Bad
      <4>1. n - 1 \in Nat /\ ~ (n <= n - 1)
        BY <2>3, <2>6
      <4> HIDE DEF Bad
      <4> QED  BY <2>2, <4>1
    <3>2. U \subseteq 0 .. (n - 1) - 1
      BY <2>3
    <3>3. PICK q : Ascends(q, U)
      BY <3>1, <3>2
    <3>4. n - 1 \in T
      <4>1. SUFFICES ASSUME n - 1 \notin T PROVE FALSE
        OBVIOUS
      <4>2. U = T
        BY <4>1
      <4> QED  BY <2>4, <3>3, <4>2
    <3>5. IsFiniteSet(T) /\ Cardinality(U) \in Nat
      BY <2>3, <3>1, <3>2, SlotSetsFinite
    <3>6. Cardinality(T) = Cardinality(U) + 1
      <4>1. Cardinality(U) = IF n - 1 \in T THEN Cardinality(T) - 1 ELSE Cardinality(T)
        BY <3>5, FS_RemoveElement
      <4>2. Cardinality(T) \in Nat
        BY <3>5, FS_CardinalityType
      <4> QED  BY <3>4, <4>1, <4>2
    <3> DEFINE M == Cardinality(U)
               r == [j \in 1 .. M + 1 |-> IF j = M + 1 THEN n - 1 ELSE q[j]]
    <3>7. q \in [1 .. M -> U] /\ \A a, b \in 1 .. M : a < b => q[a] < q[b]
      BY <3>3 DEF Ascends
    <3>8. \A u \in U : u \in T /\ u < n - 1
      BY <2>3, <3>2
    <3> HIDE DEF U, M
    <3>9. M \in Nat /\ Cardinality(T) = M + 1
      BY <3>5, <3>6 DEF M
    <3>10. r \in [1 .. M + 1 -> T]
      BY <3>4, <3>7, <3>8, <3>9
    <3>11. ASSUME NEW a \in 1 .. M + 1, NEW b \in 1 .. M + 1, a < b PROVE r[a] < r[b]
      <4>1. a \in 1 .. M /\ r[a] = q[a] /\ q[a] \in U
        BY <3>7, <3>9, <3>11
      <4>2. CASE b = M + 1
        BY <3>8, <4>1, <4>2
      <4>3. CASE b # M + 1
        <5>1. b \in 1 .. M /\ r[b] = q[b]
          BY <3>9, <4>3
        <5> QED  BY <3>7, <3>11, <4>1, <5>1
      <4> QED  BY <4>2, <4>3
    <3>12. Ascends(r, T)
      BY <3>9, <3>10, <3>11 DEF Ascends
    <3> QED  BY <2>4, <3>12
  <2> QED  BY <2>5, <2>6
<1> QED  BY <1>1, <1>2

\* Ascending lists every slot once.
LEMMA AscendingLists ==
    ASSUME NEW N \in Nat, NEW S, S \subseteq 0 .. N - 1
    PROVE  /\ Cardinality(S) \in Nat
           /\ Ascending(S) \in [1 .. Cardinality(S) -> S]
           /\ \A i \in S : \E n \in 1 .. Cardinality(S) : Ascending(S)[n] = i
           /\ \A m, n \in 1 .. Cardinality(S) : Ascending(S)[m] = Ascending(S)[n] => m = n
<1> DEFINE M == Cardinality(S)
           q == Ascending(S)
<1>1. IsFiniteSet(S) /\ M \in Nat
  BY SlotSetsFinite
<1>2. q \in [1 .. M -> S] /\ \A m, n \in DOMAIN q : m < n => q[m] < q[n]
  <2>1. \E p \in [1 .. M -> S] : \A m, n \in DOMAIN p : m < n => p[m] < p[n]
    BY OrderExists DEF Ascends
  <2> QED  BY <2>1 DEF Ascending
<1> HIDE DEF q
<1>3. \A m, n \in 1 .. M : q[m] = q[n] => m = n
  <2>1. SUFFICES ASSUME NEW m \in 1 .. M, NEW n \in 1 .. M, q[m] = q[n], m # n PROVE FALSE
    OBVIOUS
  <2>2. q[m] \in S /\ q[n] \in S /\ DOMAIN q = 1 .. M
    BY <1>2
  <2>4. q[m] \in Int /\ q[n] \in Int
    <3>1. \A j \in S : j \in Int
      OBVIOUS
    <3> HIDE DEF M
    <3> QED  BY <2>2, <3>1
  <2>3. m < n \/ n < m
    BY <1>1, <2>1
  <2> QED  BY <1>2, <2>1, <2>2, <2>3, <2>4
<1>4. q \in Surjection(1 .. M, S)
  <2>1. q \in Injection(1 .. M, S)
    BY <1>2, <1>3 DEF Injection, IsInjective
  <2>2. Cardinality(1 .. M) = M
    <3>1. 1 \in Int /\ M \in Int
      BY <1>1
    <3>2. Cardinality(1 .. M) = IF 1 > M THEN 0 ELSE M - 1 + 1
      BY <3>1, FS_Interval
    <3> QED  BY <1>1, <3>2
  <2> QED  BY <1>1, <2>1, <2>2, FS_Injection
<1>5. \A i \in S : \E n \in 1 .. M : q[n] = i
  BY <1>4 DEF Surjection
<1> QED  BY <1>1, <1>2, <1>3, <1>5 DEF q

=============================================================================
