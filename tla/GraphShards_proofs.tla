-------------------------- MODULE GraphShards_proofs --------------------------
(***************************************************************************)
(* What GraphShards keeps for every number of shards, keys, slots and       *)
(* clients, with operations interleaved handler by handler.                 *)
(*                                                                         *)
(* First with operations of every kind: the types, the node columns and the *)
(* relationship columns of each shard.                                      *)
(*                                                                         *)
(* Then while nodes are only added: the two records the owning shard has of *)
(* a relationship are one to one, a relationship has nodes at both ends,    *)
(* and the whole implements PropertyGraph. Removing nodes across shards     *)
(* breaks all three, as TLC shows.                                          *)
(*                                                                         *)
(* Then the other side of the links while operations only add. A            *)
(* relationship across shards is written in two halves, by two handlers:    *)
(* first on the shard of its starting node, then on the shard of its ending *)
(* node. No half is lost or made up.                                        *)
(*                                                                         *)
(* Then operations of every kind, one at a time. A removal of a node runs   *)
(* through five handlers and finds what it frees by the links of its own    *)
(* shard; when the node has no neighbour on another shard, that is exactly  *)
(* its own relationships. Both directions of the links agree whenever no    *)
(* operation is under way, and the whole is a property graph. With two      *)
(* operations at a time, or neighbours on other shards, none of this holds, *)
(* as TLC shows.                                                            *)
(***************************************************************************)
EXTENDS GraphShards, NodeTypes_lemmas

\* What RelStoreAgrees says of a shard's relationship columns, with their bound.
RelColumns(r, s) ==
    /\ r \in RelationshipType
    /\ Len(r.ends) <= MaxRels
    /\ \A i \in r.deletedIds : i \in RelSlotsOf(r) /\ EndsOf(r, i) = NoEnds
    /\ \A i \in RelSlotsOf(r) :
          /\ EndsOf(r, i).from = NoId <=> EndsOf(r, i).to = NoId
          /\ EndsOf(r, i).from # NoId => EndsOf(r, i).from[1] = s

\* What an operation in progress may rely on: the ids its next handler uses are ids, and the
\* slot of a relationship about to be removed stays within its vectors.
Carries(x, stores) ==
    /\ x.step \in {"checkNewType", "addOutgoing", "addIncoming", "removeIncoming"} =>
          x.other \in NodeId
    /\ x.step \in {"addIncoming", "checkNode", "getIncoming", "deleteIncoming",
                   "deleteOutgoing"} => x.node \in NodeId
    /\ x.step \in {"addIncoming", "removeOutgoing", "removeIncoming"} => x.rel \in RelId
    /\ x.step = "removeOutgoing" => x.rel[2] \in RelSlotsOf(stores[x.rel[1]])

NodesOK == nodes \in [Shard -> NodeType] /\ \A s \in Shard : WellFormed(nodes[s])

RelsOK == rels \in [Shard -> RelationshipType] /\ \A s \in Shard : RelColumns(rels[s], s)

LinksOK ==
    /\ outgoing \in [Shard -> [Slot -> SUBSET Link]]
    /\ incoming \in [Shard -> [Slot -> SUBSET Link]]
    /\ grouped \in [Shard -> SUBSET Slot]
    /\ typed \in BOOLEAN

OpsOK == op \in [Client -> Context] /\ \A c \in Client : Carries(op[c], rels)

IInv == NodesOK /\ RelsOK /\ LinksOK /\ OpsOK

-----------------------------------------------------------------------------
(* The relationship columns *)

\* A bounded set of numbers that is not empty has a largest one, which Max picks.
LEMMA MaxIsElement ==
    ASSUME NEW n \in Nat, NEW S, S \subseteq 0 .. n, S # {}
    PROVE  Max(S) \in S /\ \A y \in S : y <= Max(S)
<1> DEFINE D == {n - x : x \in S}
<1>1. D \subseteq Nat /\ D # {}
  <2>1. \A x \in S : n - x \in Nat
    OBVIOUS
  <2>2. \E x \in S : n - x \in D
    OBVIOUS
  <2> QED  BY <2>1, <2>2
<1>2. PICK m \in D : \A y \in D : m <= y
  BY <1>1, NatMin
<1>3. PICK x \in S : m = n - x
  BY <1>2
<1>4. \A y \in S : n - x <= n - y
  BY <1>2, <1>3
<1>5. \A y \in S : x >= y
  BY <1>4
<1> QED  BY <1>3, <1>5, Zenon DEF Max

LEMMA EmptyRelColumns == ASSUME NEW s \in Shard PROVE RelColumns(EmptyRelationshipType, s)
BY RelationshipTypesAssumption
   DEF RelColumns, EmptyRelationshipType, RelationshipType, RelSlotsOf

\* The next relationship goes to a freed slot, or to the end of the vectors.
LEMMA NextRelIsFree ==
    ASSUME NEW s \in Shard, NEW r, RelColumns(r, s), HasRelRoom(r)
    PROVE  /\ NextRel(r) \in RelSlot
           /\ r.deletedIds # {} => NextRel(r) \in r.deletedIds
           /\ r.deletedIds = {} => NextRel(r) = Len(r.ends)
<1>1. r.deletedIds \subseteq RelSlot /\ Len(r.ends) \in Nat
  BY DEF RelColumns, RelationshipType
<1>2. CASE r.deletedIds # {}
  <2>1. r.deletedIds \subseteq Nat
    BY <1>1, RelationshipTypesAssumption DEF RelSlot
  <2>2. Min(r.deletedIds) \in r.deletedIds
    BY <1>2, <2>1, MinIsElement
  <2> QED  BY <1>1, <1>2, <2>2 DEF NextRel
<1>3. CASE r.deletedIds = {}
  <2>1. NextRel(r) = Len(r.ends)
    BY <1>1, <1>3, FS_EmptySet DEF NextRel, RelCount
  <2>2. Len(r.ends) < MaxRels
    BY <1>3 DEF HasRelRoom
  <2> QED  BY <1>1, <1>3, <2>1, <2>2, RelationshipTypesAssumption DEF RelSlot
<1> QED  BY <1>2, <1>3

\* Storing a relationship from a node of the shard keeps the columns, and shortens nothing.
LEMMA RelationshipAddKeeps ==
    ASSUME NEW s \in Shard, NEW r, RelColumns(r, s), HasRelRoom(r),
           NEW n1 \in NodeId, n1[1] = s, NEW n2 \in NodeId
    PROVE  /\ RelColumns(RelationshipAdd(r, n1, n2), s)
           /\ RelSlotsOf(r) \subseteq RelSlotsOf(RelationshipAdd(r, n1, n2))
<1> DEFINE pair == [from |-> n1, to |-> n2]
           u == RelationshipAdd(r, n1, n2)
           i0 == NextRel(r)
<1>1. pair \in Ends /\ n1 # NoId /\ n2 # NoId
  BY RelationshipTypesAssumption, GraphShardsAssumption DEF Ends, NodeId
<1>2. r.ends \in Seq(Ends) /\ r.deletedIds \subseteq RelSlot /\ Len(r.ends) <= MaxRels
  BY DEF RelColumns, RelationshipType
<1>3. /\ i0 \in RelSlot
      /\ r.deletedIds # {} => i0 \in r.deletedIds
      /\ r.deletedIds = {} => i0 = Len(r.ends)
  BY NextRelIsFree
<1>4. CASE r.deletedIds # {}
  <2>1. i0 \in RelSlotsOf(r) /\ i0 + 1 \in 1 .. Len(r.ends)
    BY <1>2, <1>3, <1>4 DEF RelColumns, RelSlotsOf
  <2>2. u.ends = [r.ends EXCEPT ![i0 + 1] = pair] /\ u.deletedIds = r.deletedIds \ {i0}
    BY <1>4 DEF RelationshipAdd
  <2>3. u.ends \in Seq(Ends) /\ Len(u.ends) = Len(r.ends)
    BY <1>1, <1>2, <2>1, <2>2
  <2>4. RelSlotsOf(u) = RelSlotsOf(r)
    BY <2>3 DEF RelSlotsOf
  <2>5. \A i \in RelSlotsOf(r) : EndsOf(u, i) = IF i = i0 THEN pair ELSE EndsOf(r, i)
    BY <1>2, <2>1, <2>2 DEF EndsOf, RelSlotsOf
  <2>6. u \in RelationshipType
    BY <1>2, <2>2, <2>3 DEF RelationshipAdd, RelationshipType
  <2> QED  BY <1>1, <1>2, <2>2, <2>3, <2>4, <2>5, <2>6 DEF RelColumns
<1>5. CASE r.deletedIds = {}
  <2>1. u.ends = Append(r.ends, pair) /\ u.deletedIds = {}
    BY <1>5 DEF RelationshipAdd
  <2>2. u.ends \in Seq(Ends) /\ Len(u.ends) = Len(r.ends) + 1
    BY <1>1, <1>2, <2>1
  <2>3. Len(r.ends) + 1 <= MaxRels
    BY <1>2, <1>3, <1>5, RelationshipTypesAssumption DEF RelSlot
  <2>4. RelSlotsOf(u) = RelSlotsOf(r) \cup {Len(r.ends)}
    BY <1>2, <2>2 DEF RelSlotsOf
  <2>5. /\ \A i \in RelSlotsOf(r) : EndsOf(u, i) = EndsOf(r, i)
        /\ EndsOf(u, Len(r.ends)) = pair
    BY <1>2, <2>1 DEF EndsOf, RelSlotsOf
  <2>6. u \in RelationshipType
    BY <2>1, <2>2 DEF RelationshipAdd, RelationshipType
  <2> QED  BY <1>1, <1>2, <2>1, <2>2, <2>3, <2>4, <2>5, <2>6 DEF RelColumns
<1> QED  BY <1>4, <1>5

\* Freeing any slots, beyond the vectors too, keeps the columns, and shortens nothing.
LEMMA RelationshipFreeKeeps ==
    ASSUME NEW s \in Shard, NEW r, RelColumns(r, s), NEW I, I \subseteq RelSlot
    PROVE  /\ RelColumns(RelationshipFree(r, I), s)
           /\ RelSlotsOf(r) \subseteq RelSlotsOf(RelationshipFree(r, I))
<1> DEFINE u == RelationshipFree(r, I)
           S == {Len(r.ends)} \cup {i + 1 : i \in I}
           m == Max(S)
<1>1. r.ends \in Seq(Ends) /\ r.deletedIds \subseteq RelSlot /\ Len(r.ends) <= MaxRels
  BY DEF RelColumns, RelationshipType
<1>2. Len(r.ends) \in Nat /\ MaxRels \in Nat
  BY <1>1, RelationshipTypesAssumption
<1>3. S \subseteq 0 .. MaxRels /\ S # {}
  BY <1>1, <1>2 DEF RelSlot
<1>4. m \in S /\ \A y \in S : y <= m
  BY <1>2, <1>3, MaxIsElement
<1>5. m \in Nat /\ m <= MaxRels /\ Len(r.ends) <= m /\ \A i \in I : i + 1 <= m
  BY <1>2, <1>3, <1>4
<1>6. /\ u.ends = [j \in 1 .. m |->
                      IF j <= Len(r.ends) /\ j - 1 \notin I THEN r.ends[j] ELSE NoEnds]
      /\ u.deletedIds = r.deletedIds \cup I
      /\ u = [ends |-> u.ends, deletedIds |-> u.deletedIds]
  BY DEF RelationshipFree
<1> HIDE DEF m, u
<1>7. NoEnds \in Ends /\ NoEnds.from = NoId /\ NoEnds.to = NoId
  BY DEF NoEnds, Ends
<1>8. \A j \in 1 .. m :
         (IF j <= Len(r.ends) /\ j - 1 \notin I THEN r.ends[j] ELSE NoEnds) \in Ends
  BY <1>1, <1>2, <1>5, <1>7
<1>9. u.ends \in Seq(Ends) /\ Len(u.ends) = m
  BY <1>5, <1>6, <1>8
<1>10. RelSlotsOf(u) = 0 .. m - 1 /\ RelSlotsOf(r) = 0 .. Len(r.ends) - 1
  BY <1>9 DEF RelSlotsOf
<1>11. RelSlotsOf(r) \subseteq RelSlotsOf(u)
  BY <1>2, <1>5, <1>10
<1>12. \A i \in RelSlotsOf(u) :
          EndsOf(u, i) = IF i \in RelSlotsOf(r) /\ i \notin I THEN EndsOf(r, i) ELSE NoEnds
  BY <1>2, <1>5, <1>6, <1>10 DEF EndsOf
<1>13. u \in RelationshipType
  BY <1>1, <1>6, <1>9 DEF RelationshipType
<1>14. I \subseteq RelSlotsOf(u)
  BY <1>5, <1>10, <1>2 DEF RelSlot
<1>15. \A i \in u.deletedIds : i \in RelSlotsOf(u) /\ EndsOf(u, i) = NoEnds
  BY <1>6, <1>11, <1>12, <1>14 DEF RelColumns
<1>16. \A i \in RelSlotsOf(u) :
          /\ EndsOf(u, i).from = NoId <=> EndsOf(u, i).to = NoId
          /\ EndsOf(u, i).from # NoId => EndsOf(u, i).from[1] = s
  BY <1>7, <1>12 DEF RelColumns
<1>17. RelColumns(u, s)
  BY <1>5, <1>9, <1>13, <1>15, <1>16 DEF RelColumns
<1> QED  BY <1>11, <1>17 DEF u

-----------------------------------------------------------------------------
(* The inductive invariant *)

LEMMA InitIInv == Init => IInv
<1> SUFFICES ASSUME Init PROVE IInv
  OBVIOUS
<1>1. NodesOK
  BY EmptyWellFormed DEF Init, NodesOK, WellFormed
<1>2. RelsOK
  BY EmptyRelColumns DEF Init, RelsOK, RelColumns
<1>3. LinksOK
  BY GraphShardsAssumption DEF Init, LinksOK
<1>4. Idle \in Context
  BY DEF Idle, Context, Step
<1>5. OpsOK
  BY <1>4 DEF Init, OpsOK, Carries, Idle
<1> QED  BY <1>1, <1>2, <1>3, <1>5 DEF IInv

\* The id a key leads to is an id, and its slot is in use.
LEMMA NodeGetIDIsNode ==
    ASSUME NodesOK, NEW k \in Key, NodeGetID(k) # NoId
    PROVE  NodeGetID(k) \in NodeId
<1>1. ShardOf[k] \in Shard
  BY GraphShardsAssumption
<1>2. nodes[ShardOf[k]].keyToNodeId[k] \in Slot \cup {NoSlot}
  BY <1>1 DEF NodesOK, NodeType
<1> QED  BY <1>1, <1>2 DEF NodeGetID, NodeId

LEMMA NodeIdParts ==
    /\ \A n \in NodeId : n[1] \in Shard /\ n[2] \in Slot /\ n[2] \in Int
    /\ \A r \in RelId : r[1] \in Shard /\ r[2] \in RelSlot
    /\ NodeRef = NodeId /\ NoId \notin NodeId
BY GraphShardsAssumption, RelationshipTypesAssumption DEF NodeId, RelId, Slot

\* The relationship id a store is about to give is an id.
LEMMA NewRelIsRel ==
    ASSUME RelsOK, NEW n \in NodeId, HasRelRoom(rels[n[1]])
    PROVE  NewRel(n) \in RelId
BY NodeIdParts, NextRelIsFree DEF RelsOK, NewRel, RelId

\* Storing a relationship keeps the columns of every shard, and shortens none.
LEMMA StoreRelKeeps ==
    ASSUME RelsOK, NEW n1 \in NodeId, NEW n2 \in NodeId, HasRelRoom(rels[n1[1]]),
           StoreRel(n1, n2)
    PROVE  /\ RelsOK'
           /\ \A s \in Shard : RelSlotsOf(rels[s]) \subseteq RelSlotsOf(rels'[s])
<1> DEFINE s0 == n1[1]
           u == RelationshipAdd(rels[s0], n1, n2)
<1>1. s0 \in Shard /\ RelColumns(rels[s0], s0)
  BY NodeIdParts DEF RelsOK
<1>2. RelColumns(u, s0) /\ RelSlotsOf(rels[s0]) \subseteq RelSlotsOf(u)
  BY <1>1, RelationshipAddKeeps
<1>3. rels' = [rels EXCEPT ![s0] = u]
  BY DEF StoreRel
<1>4. u \in RelationshipType
  BY <1>2 DEF RelColumns
<1> HIDE DEF u, s0
<1>5. \A s \in Shard : rels'[s] = IF s = s0 THEN u ELSE rels[s]
  BY <1>3 DEF RelsOK
<1>6. rels' \in [Shard -> RelationshipType]
  BY <1>3, <1>4 DEF RelsOK
<1> QED  BY <1>1, <1>2, <1>5, <1>6 DEF RelsOK

\* So does freeing relationship slots of one shard.
LEMMA FreeRelsKeeps ==
    ASSUME RelsOK, NEW s0 \in Shard, NEW I, I \subseteq RelSlot,
           rels' = [rels EXCEPT ![s0] = RelationshipFree(@, I)]
    PROVE  /\ RelsOK'
           /\ \A s \in Shard : RelSlotsOf(rels[s]) \subseteq RelSlotsOf(rels'[s])
<1> DEFINE u == RelationshipFree(rels[s0], I)
<1>1. RelColumns(rels[s0], s0)
  BY DEF RelsOK
<1>2. RelColumns(u, s0) /\ RelSlotsOf(rels[s0]) \subseteq RelSlotsOf(u)
  BY <1>1, RelationshipFreeKeeps
<1>3. rels' = [rels EXCEPT ![s0] = u]
  OBVIOUS
<1>4. u \in RelationshipType
  BY <1>2 DEF RelColumns
<1> HIDE DEF u
<1>5. \A s \in Shard : rels'[s] = IF s = s0 THEN u ELSE rels[s]
  BY <1>3 DEF RelsOK
<1>6. rels' \in [Shard -> RelationshipType]
  BY <1>3, <1>4 DEF RelsOK
<1> QED  BY <1>1, <1>2, <1>5, <1>6 DEF RelsOK

\* An operation moves on: its new context carries what it needs, the others keep theirs as
\* long as no column has become shorter.
LEMMA BecomeKeeps ==
    ASSUME OpsOK, NEW c \in Client, NEW x \in Context, Become(c, x), Carries(x, rels'),
           RelsOK, \A s \in Shard : RelSlotsOf(rels[s]) \subseteq RelSlotsOf(rels'[s])
    PROVE  OpsOK'
<1>1. op' \in [Client -> Context]
  BY DEF OpsOK, Become
<1>2. ASSUME NEW d \in Client PROVE Carries(op'[d], rels')
  <2>1. CASE d = c
    BY <2>1 DEF OpsOK, Become
  <2>2. CASE d # c
    <3>1. op'[d] = op[d] /\ Carries(op[d], rels)
      BY <2>2 DEF OpsOK, Become
    <3>2. op[d].rel \in RelId => op[d].rel[1] \in Shard
      BY NodeIdParts
    <3> QED  BY <3>1, <3>2 DEF Carries
  <2> QED  BY <2>1, <2>2
<1> QED  BY <1>1, <1>2 DEF OpsOK

\* An operation that stays where it is.
LEMMA OpsKept ==
    ASSUME OpsOK, RelsOK, op' = op,
           \A s \in Shard : RelSlotsOf(rels[s]) \subseteq RelSlotsOf(rels'[s])
    PROVE  OpsOK'
<1> SUFFICES ASSUME NEW d \in Client PROVE Carries(op[d], rels')
  BY DEF OpsOK
<1>1. Carries(op[d], rels)
  BY DEF OpsOK
<1>2. op[d].rel \in RelId => op[d].rel[1] \in Shard
  BY NodeIdParts
<1> QED  BY <1>1, <1>2 DEF Carries

LEMMA IdleCarries == Idle \in Context /\ \A stores : Carries(Idle, stores)
BY DEF Idle, Context, Step, Carries

\* Handlers that change no data of the graph.
LEMMA GraphKept ==
    ASSUME NodesOK, RelsOK, LinksOK, UNCHANGED graph
    PROVE  /\ NodesOK' /\ RelsOK' /\ LinksOK'
           /\ \A s \in Shard : RelSlotsOf(rels[s]) \subseteq RelSlotsOf(rels'[s])
BY DEF graph, NodesOK, RelsOK, LinksOK

\* The handlers that add.
LEMMA AddNodeKeeps ==
    ASSUME IInv, NEW c \in Client, NEW k \in Key, AddNode(c, k)
    PROVE  IInv'
<1> USE DEF IInv
<1>1. ShardOf[k] \in Shard
  BY GraphShardsAssumption
<1>2. WellFormed(NodeAdd(nodes[ShardOf[k]], k))
  BY <1>1, NodeAddPreserves DEF AddNode, NodesOK
<1>3. NodesOK'
  BY <1>1, <1>2 DEF AddNode, NodesOK, WellFormed
<1> QED  BY <1>3, OpsKept DEF AddNode, RelsOK, LinksOK

LEMMA InsertTypeKeeps ==
    ASSUME IInv, NEW c \in Client, RelationshipTypeInsert(c)
    PROVE  IInv'
BY OpsKept DEF IInv, RelationshipTypeInsert, NodesOK, RelsOK, LinksOK

\* The links a store writes are links.
LEMMA LinkOutOK ==
    ASSUME LinksOK, NEW n \in NodeId, NEW l \in Link, LinkOut(n, l)
    PROVE  outgoing' \in [Shard -> [Slot -> SUBSET Link]]
BY NodeIdParts DEF LinksOK, LinkOut

LEMMA LinkInOK ==
    ASSUME LinksOK, NEW n \in NodeId, NEW l \in Link, LinkIn(n, l)
    PROVE  incoming' \in [Shard -> [Slot -> SUBSET Link]] /\ grouped' \in [Shard -> SUBSET Slot]
BY NodeIdParts DEF LinksOK, LinkIn

LEMMA AddSameShardKeeps ==
    ASSUME IInv, NEW c \in Client, NEW n1 \in NodeId, NEW n2 \in NodeId,
           RelationshipAddSameShard(c, n1, n2)
    PROVE  IInv'
<1> USE DEF IInv, RelationshipAddSameShard
<1>1. /\ RelsOK'
      /\ \A s \in Shard : RelSlotsOf(rels[s]) \subseteq RelSlotsOf(rels'[s])
  BY StoreRelKeeps
<1>2. [rel |-> NewRel(n1), node |-> n2] \in Link /\ [rel |-> NewRel(n1), node |-> n1] \in Link
  BY NewRelIsRel DEF Link
<1>3. LinksOK'
  BY <1>2, LinkOutOK, LinkInOK DEF LinksOK
<1>4. OpsOK'
  BY <1>1, OpsKept
<1> QED  BY <1>1, <1>3, <1>4 DEF NodesOK

LEMMA AddByIdKeeps ==
    ASSUME IInv, NEW c \in Client, NEW n1 \in NodeId, NEW n2 \in NodeId,
           RelationshipAddById(c, n1, n2)
    PROVE  IInv'
<1> DEFINE x == [Idle EXCEPT !.step = "addOutgoing", !.node = n1, !.other = n2]
<1>1. x \in Context /\ Carries(x, rels')
  BY DEF Idle, Context, Step, Carries
<1> QED  BY <1>1, GraphKept, BecomeKeeps DEF IInv, RelationshipAddById

LEMMA AddByKeyKeeps ==
    ASSUME IInv, NEW c \in Client, NEW k1 \in Key, NEW k2 \in Key,
           RelationshipAddByKey(c, k1, k2)
    PROVE  IInv'
<1> DEFINE x == [Idle EXCEPT !.step = "addOutgoing", !.key = k1, !.other = NodeGetID(k2)]
<1>1. NodeGetID(k2) \in NodeId
  BY NodeGetIDIsNode DEF IInv, RelationshipAddByKey
<1>2. x \in Context /\ Carries(x, rels')
  BY <1>1 DEF Idle, Context, Step, Carries
<1> QED  BY <1>2, GraphKept, BecomeKeeps DEF IInv, RelationshipAddByKey

LEMMA AddNewTypeKeeps ==
    ASSUME IInv, NEW c \in Client, NEW n1 \in NodeId, NEW n2 \in NodeId,
           RelationshipAddNewType(c, n1, n2)
    PROVE  IInv'
<1> DEFINE x == [Idle EXCEPT !.step = "checkNewType", !.node = n1, !.other = n2]
<1>1. x \in Context /\ Carries(x, rels')
  BY DEF Idle, Context, Step, Carries
<1> QED  BY <1>1, BecomeKeeps
         DEF IInv, RelationshipAddNewType, NodesOK, RelsOK, LinksOK

LEMMA CheckNewTypeKeeps ==
    ASSUME IInv, NEW c \in Client, CheckNewType(c)
    PROVE  IInv'
<1> DEFINE x == [op[c] EXCEPT !.step = "addOutgoing"]
<1>1. x \in Context /\ Carries(x, rels')
  BY DEF IInv, OpsOK, CheckNewType, At, Context, Step, Carries
<1>2. Become(c, x) \/ Become(c, Idle)
  BY DEF CheckNewType
<1> QED  BY <1>1, <1>2, IdleCarries, GraphKept, BecomeKeeps DEF IInv, CheckNewType

LEMMA AddToOutgoingKeeps ==
    ASSUME IInv, NEW c \in Client, RelationshipAddToOutgoing(c)
    PROVE  IInv'
<1> DEFINE n1 == IF op[c].key = NoKey THEN op[c].node ELSE NodeGetID(op[c].key)
           n2 == op[c].other
           accepted == /\ IF op[c].key = NoKey THEN Valid(n1) ELSE n1 # NoId
                       /\ HasRelRoom(rels[n1[1]])
           x == [op[c] EXCEPT !.step = "addIncoming", !.node = n1, !.rel = NewRel(n1)]
<1>1. op[c] \in Context /\ op[c].step = "addOutgoing" /\ n2 \in NodeId
  BY DEF IInv, OpsOK, RelationshipAddToOutgoing, At, Carries
<1>2. CASE accepted /\ StoreRel(n1, n2) /\ LinkOut(n1, [rel |-> NewRel(n1), node |-> n2])
           /\ Become(c, x)
  <2>1. n1 \in NodeId
    <3>1. CASE op[c].key = NoKey
      BY <1>1, <1>2, <3>1 DEF Valid, Context
    <3>2. CASE op[c].key # NoKey
      BY <1>1, <1>2, <3>2, NodeGetIDIsNode DEF Context, IInv
    <3> QED  BY <3>1, <3>2
  <2> HIDE DEF n1, n2
  <2>2. RelsOK' /\ \A s \in Shard : RelSlotsOf(rels[s]) \subseteq RelSlotsOf(rels'[s])
    BY <1>1, <1>2, <2>1, StoreRelKeeps DEF IInv
  <2>3. NewRel(n1) \in RelId
    BY <1>2, <2>1, NewRelIsRel DEF IInv
  <2>4. x \in Context /\ Carries(x, rels')
    BY <1>1, <2>1, <2>3 DEF Context, Step, Carries, n2
  <2>5. OpsOK'
    BY <1>2, <2>2, <2>4, BecomeKeeps DEF IInv
  <2>6. LinksOK'
    BY <1>1, <1>2, <2>1, <2>3, LinkOutOK DEF IInv, LinksOK, Link, RelationshipAddToOutgoing
  <2> QED  BY <2>2, <2>5, <2>6 DEF IInv, NodesOK, RelationshipAddToOutgoing
<1>3. CASE Become(c, Idle) /\ UNCHANGED <<rels, outgoing>>
  <2>1. UNCHANGED graph
    BY <1>3 DEF RelationshipAddToOutgoing, graph
  <2> QED  BY <1>3, <2>1, IdleCarries, GraphKept, BecomeKeeps DEF IInv
<1> QED  BY <1>2, <1>3 DEF RelationshipAddToOutgoing

LEMMA AddToIncomingKeeps ==
    ASSUME IInv, NEW c \in Client, RelationshipAddToIncoming(c)
    PROVE  IInv'
<1> DEFINE l == [rel |-> op[c].rel, node |-> op[c].node]
<1>1. l \in Link /\ op[c].other \in NodeId
  BY DEF IInv, OpsOK, RelationshipAddToIncoming, At, Carries, Link
<1>2. LinksOK'
  BY <1>1, LinkInOK DEF IInv, LinksOK, RelationshipAddToIncoming
<1>3. OpsOK' /\ RelsOK'
  BY IdleCarries, BecomeKeeps DEF IInv, RelationshipAddToIncoming, RelsOK
<1> QED  BY <1>2, <1>3 DEF IInv, NodesOK, RelationshipAddToIncoming

\* The handlers that remove a relationship.
LEMMA RemoveRelationshipKeeps ==
    ASSUME IInv, NEW c \in Client, NEW r \in RelId, RemoveRelationship(c, r)
    PROVE  IInv'
<1> DEFINE x == [Idle EXCEPT !.step = "removeOutgoing", !.rel = r]
<1>1. Len(rels[r[1]].ends) \in Nat /\ r[2] \in Int
  BY NodeIdParts, RelationshipTypesAssumption
     DEF IInv, RelsOK, RelColumns, RelationshipType, RelSlot
<1>2. r[2] \in RelSlotsOf(rels[r[1]])
  BY <1>1 DEF RemoveRelationship, ValidRelationshipId, RelSlotsOf
<1>3. UNCHANGED graph
  BY DEF RemoveRelationship
<1>4. x \in Context /\ Carries(x, rels')
  BY <1>2, <1>3 DEF Idle, Context, Step, Carries, graph
<1> QED  BY <1>3, <1>4, GraphKept, BecomeKeeps DEF IInv, RemoveRelationship

LEMMA RemoveGetIncomingKeeps ==
    ASSUME IInv, NEW c \in Client, RelationshipRemoveGetIncoming(c)
    PROVE  IInv'
<1> DEFINE r == op[c].rel
           s0 == r[1]
           i == r[2]
           ends == EndsOf(rels[s0], i)
<1>1. op[c] \in Context /\ op[c].step = "removeOutgoing" /\ r \in RelId
  BY Zenon DEF IInv, OpsOK, RelationshipRemoveGetIncoming, At, Carries
<1>2. s0 \in Shard /\ i \in RelSlot /\ i \in RelSlotsOf(rels[s0]) /\ RelColumns(rels[s0], s0)
  BY <1>1, NodeIdParts DEF IInv, OpsOK, RelsOK, Carries
<1>3. ends \in Ends
  <2> DEFINE stored == rels[s0].ends
  <2>1. stored \in Seq(Ends)
    <3>1. rels[s0] \in RelationshipType
      BY <1>2, Zenon DEF RelColumns
    <3> QED  BY <3>1 DEF RelationshipType
  <2>2. i \in 0 .. Len(stored) - 1
    BY <1>2, Zenon DEF RelSlotsOf
  <2>3. ends = stored[i + 1]
    BY Zenon DEF EndsOf
  <2> HIDE DEF stored, ends, i
  <2>4. i + 1 \in 1 .. Len(stored)
    BY <2>1, <2>2
  <2> QED  BY <2>1, <2>3, <2>4
<1>4. CASE /\ ends.from = NoId
           /\ rels' = [rels EXCEPT ![s0].deletedIds = @ \cup {i}]
           /\ Become(c, Idle)
           /\ UNCHANGED outgoing
  <2> DEFINE u == [rels[s0] EXCEPT !.deletedIds = @ \cup {i}]
  <2>1. ends = NoEnds
    BY <1>2, <1>3, <1>4, Zenon DEF RelColumns, Ends, NoEnds
  <2>2. u \in RelationshipType /\ u.ends = rels[s0].ends /\ u.deletedIds = rels[s0].deletedIds \cup {i}
    BY <1>2, Zenon DEF RelColumns, RelationshipType
  <2>3. RelColumns(u, s0) /\ RelSlotsOf(u) = RelSlotsOf(rels[s0])
    <3>1. RelSlotsOf(u) = RelSlotsOf(rels[s0]) /\ \A j : EndsOf(u, j) = EndsOf(rels[s0], j)
      BY <2>2 DEF RelSlotsOf, EndsOf
    <3>2. EndsOf(u, i) = NoEnds
      BY <2>1, <3>1
    <3> HIDE DEF u, s0, i
    <3> QED  BY <1>2, <2>2, <3>1, <3>2 DEF RelColumns
  <2>4. rels' = [rels EXCEPT ![s0] = u]
    BY <1>4
  <2> HIDE DEF u, s0, i, ends
  <2>5. \A s \in Shard : rels'[s] = IF s = s0 THEN u ELSE rels[s]
    BY <2>4 DEF IInv, RelsOK
  <2>6. RelsOK'
    BY <1>2, <2>2, <2>3, <2>4, <2>5 DEF IInv, RelsOK
  <2>7. OpsOK'
    BY <1>4, <2>3, <2>5, IdleCarries, BecomeKeeps DEF IInv
  <2> QED  BY <1>4, <2>6, <2>7, Zenon DEF IInv, NodesOK, LinksOK, RelationshipRemoveGetIncoming
<1>5. CASE /\ ends.from # NoId
           /\ rels' = [rels EXCEPT ![s0] = RelationshipFree(@, {i})]
           /\ outgoing' = [outgoing EXCEPT ![s0][ends.from[2]] = {l \in @ : l.rel # r}]
           /\ Become(c, [op[c] EXCEPT !.step = "removeIncoming", !.other = ends.to])
  <2> DEFINE x == [op[c] EXCEPT !.step = "removeIncoming", !.other = ends.to]
  <2>1. ends.to # NoId
    BY <1>2, <1>5, Zenon DEF RelColumns
  <2>2. ends.to \in NodeId /\ ends.from \in NodeId
    BY <1>3, <1>5, <2>1, NodeIdParts, Zenon DEF Ends
  <2>3. RelsOK' /\ \A s \in Shard : RelSlotsOf(rels[s]) \subseteq RelSlotsOf(rels'[s])
    <3>1. {i} \subseteq RelSlot
      BY <1>2
    <3>2. rels' = [rels EXCEPT ![s0] = RelationshipFree(@, {i})]
      BY <1>5, Zenon
    <3>3. s0 \in Shard /\ RelsOK
      BY <1>2 DEF IInv
    <3> HIDE DEF s0, i
    <3> DEFINE I == {i}
    <3>4. I \subseteq RelSlot /\ rels' = [rels EXCEPT ![s0] = RelationshipFree(@, I)]
      BY <3>1, <3>2, Zenon
    <3> HIDE DEF I
    <3> QED  BY <3>3, <3>4, FreeRelsKeeps
  <2>4. x \in Context /\ Carries(x, rels')
    BY <1>1, <2>2, Zenon DEF Context, Step, Carries
  <2>5. OpsOK'
    BY <1>5, <2>3, <2>4, BecomeKeeps, Zenon DEF IInv
  <2>6. UNCHANGED <<nodes, incoming, grouped, typed>>
    BY Zenon DEF RelationshipRemoveGetIncoming
  <2>7. ends.from[2] \in Slot
    BY <2>2, NodeIdParts
  <2>8. outgoing' = [outgoing EXCEPT ![s0][ends.from[2]] = {l \in @ : l.rel # r}]
    BY <1>5, Zenon
  <2>9. LinksOK'
    <3> HIDE DEF s0, r, ends
    <3> QED  BY <1>2, <2>6, <2>7, <2>8 DEF IInv, LinksOK
  <2> QED  BY <2>3, <2>5, <2>6, <2>9 DEF IInv, NodesOK
<1> QED  BY <1>4, <1>5, Zenon DEF RelationshipRemoveGetIncoming

LEMMA RemoveIncomingKeeps ==
    ASSUME IInv, NEW c \in Client, RelationshipRemoveIncoming(c)
    PROVE  IInv'
<1>1. op[c].other \in NodeId
  BY DEF IInv, OpsOK, RelationshipRemoveIncoming, At, Carries
<1>2. LinksOK'
  BY <1>1, NodeIdParts DEF IInv, LinksOK, RelationshipRemoveIncoming
<1>3. OpsOK' /\ RelsOK'
  BY IdleCarries, BecomeKeeps DEF IInv, RelationshipRemoveIncoming, RelsOK
<1> QED  BY <1>2, <1>3 DEF IInv, NodesOK, RelationshipRemoveIncoming

\* The handlers that remove a node.
LEMMA StartRemovalKeeps ==
    ASSUME IInv, NEW c \in Client, NEW n \in NodeId,
           RemoveNodeById(c, n) \/ \E k \in Key : RemoveNodeByKey(c, k)
    PROVE  IInv'
<1>1. UNCHANGED graph
  BY DEF RemoveNodeById, RemoveNodeByKey
<1>2. CASE RemoveNodeById(c, n)
  <2> DEFINE x == [Idle EXCEPT !.step = "checkNode", !.node = n]
  <2>1. x \in Context /\ Carries(x, rels')
    BY DEF Idle, Context, Step, Carries
  <2> QED  BY <1>1, <1>2, <2>1, GraphKept, BecomeKeeps DEF IInv, RemoveNodeById
<1>3. ASSUME NEW k \in Key, RemoveNodeByKey(c, k) PROVE IInv'
  <2> DEFINE x == [Idle EXCEPT !.step = "checkNode", !.key = k, !.node = NodeGetID(k)]
  <2>1. NodeGetID(k) \in NodeId
    BY <1>3, NodeGetIDIsNode DEF IInv, RemoveNodeByKey
  <2>2. x \in Context /\ Carries(x, rels')
    BY <2>1 DEF Idle, Context, Step, Carries
  <2> QED  BY <1>1, <1>3, <2>2, GraphKept, BecomeKeeps DEF IInv, RemoveNodeByKey
<1> QED  BY <1>2, <1>3

LEMMA CheckNodeKeeps ==
    ASSUME IInv, NEW c \in Client, CheckNode(c)
    PROVE  IInv'
<1> DEFINE x == [op[c] EXCEPT !.step = "getIncoming"]
<1>1. x \in Context /\ Carries(x, rels')
  BY DEF IInv, OpsOK, CheckNode, At, Context, Step, Carries
<1>2. Become(c, x) \/ Become(c, Idle)
  BY DEF CheckNode
<1> QED  BY <1>1, <1>2, IdleCarries, GraphKept, BecomeKeeps DEF IInv, CheckNode

LEMMA FarNeighboursAreNodes ==
    ASSUME NEW n, NEW links \in SUBSET Link
    PROVE  FarNeighbours(n, links) \subseteq NodeId
BY DEF FarNeighbours, Link

LEMMA GetNeighboursKeeps ==
    ASSUME IInv, NEW c \in Client, NodeRemoveGetIncoming(c) \/ NodeRemoveGetOutgoing(c)
    PROVE  IInv'
<1> DEFINE n == op[c].node
           x == [op[c] EXCEPT !.step = "deleteIncoming",
                              !.ids = FarNeighbours(n, outgoing[n[1]][n[2]])]
           y == [op[c] EXCEPT !.step = "deleteOutgoing",
                              !.ids = FarNeighbours(n, incoming[n[1]][n[2]])]
<1>1. op[c] \in Context /\ n \in NodeId
  BY DEF IInv, OpsOK, NodeRemoveGetIncoming, NodeRemoveGetOutgoing, At, Carries
<1>2. /\ FarNeighbours(n, outgoing[n[1]][n[2]]) \subseteq NodeId
      /\ FarNeighbours(n, incoming[n[1]][n[2]]) \subseteq NodeId
  BY <1>1, NodeIdParts, FarNeighboursAreNodes DEF IInv, LinksOK
<1> HIDE DEF n
<1>3. x \in Context /\ y \in Context
  BY <1>1, <1>2 DEF Context, Step
<1>4. Carries(x, rels') /\ Carries(y, rels')
  BY <1>1 DEF Carries, Context, n
<1>5. UNCHANGED graph /\ (Become(c, x) \/ Become(c, y) \/ Become(c, Idle))
  BY DEF NodeRemoveGetIncoming, NodeRemoveGetOutgoing, n
<1> QED  BY <1>3, <1>4, <1>5, IdleCarries, GraphKept, BecomeKeeps DEF IInv

\* Taking one neighbour off the list.
LEMMA OneLessCarries ==
    ASSUME IInv, NEW c \in Client, NEW m \in NodeId, NEW stores, NEW x, Told(c, m), Become(c, x),
           op[c].step \in {"deleteIncoming", "deleteOutgoing"}
    PROVE  x \in Context /\ Carries(x, stores)
<1> DEFINE y == [op[c] EXCEPT !.ids = @ \ {m}, !.other = IF m[2] \in SlotsOf(nodes[m[1]]) THEN @ ELSE m]
<1>1. x = y
  BY DEF IInv, OpsOK, Told, Become
<1>2. y \in Context /\ Carries(y, stores)
  BY DEF IInv, OpsOK, Context, Carries
<1> QED  BY <1>1, <1>2

LEMMA DeleteIncomingKeeps ==
    ASSUME IInv, NEW c \in Client, NEW m \in NodeId, NodeRemoveDeleteIncoming(c, m)
    PROVE  IInv'
<1>1. LinksOK'
  BY NodeIdParts DEF IInv, LinksOK, NodeRemoveDeleteIncoming
<1>2. RelsOK'
  BY DEF IInv, NodeRemoveDeleteIncoming, RelsOK
<1>3. PICK x : Become(c, x) /\ Told(c, m) /\ op[c].step = "deleteIncoming"
  BY DEF NodeRemoveDeleteIncoming, Told, At
<1>4. OpsOK'
  BY <1>3, OneLessCarries, BecomeKeeps DEF IInv, NodeRemoveDeleteIncoming
<1> QED  BY <1>1, <1>2, <1>4 DEF IInv, NodesOK, NodeRemoveDeleteIncoming

LEMMA DeleteOutgoingKeeps ==
    ASSUME IInv, NEW c \in Client, NEW m \in NodeId, NodeRemoveDeleteOutgoing(c, m)
    PROVE  IInv'
<1> DEFINE toNode == {l \in outgoing[m[1]][m[2]] : l.node = op[c].node}
           I == {l.rel[2] : l \in toNode}
<1>1. toNode \subseteq Link /\ m[1] \in Shard
  BY NodeIdParts DEF IInv, LinksOK
<1>2. I \subseteq RelSlot
  BY <1>1, NodeIdParts DEF Link
<1>3. rels' = [rels EXCEPT ![m[1]] = RelationshipFree(@, I)]
  BY DEF NodeRemoveDeleteOutgoing
<1> HIDE DEF I
<1>4. RelsOK' /\ \A s \in Shard : RelSlotsOf(rels[s]) \subseteq RelSlotsOf(rels'[s])
  BY <1>1, <1>2, <1>3, FreeRelsKeeps DEF IInv
<1>5. LinksOK'
  BY NodeIdParts DEF IInv, LinksOK, NodeRemoveDeleteOutgoing
<1>6. OpsOK'
  <2>1. PICK x : Become(c, x) /\ Told(c, m) /\ op[c].step = "deleteOutgoing"
    BY DEF NodeRemoveDeleteOutgoing, Told, At
  <2>2. x \in Context /\ Carries(x, rels')
    BY <2>1, OneLessCarries
  <2> QED  BY <1>4, <2>1, <2>2, BecomeKeeps DEF IInv
<1> QED  BY <1>4, <1>5, <1>6 DEF IInv, NodesOK, NodeRemoveDeleteOutgoing

LEMMA RemoveNodeKeeps ==
    ASSUME IInv, NEW c \in Client, RemoveNode(c)
    PROVE  IInv'
<1> DEFINE n == op[c].node
           s0 == n[1]
           i == n[2]
           outs == outgoing[s0][i]
           ins == incoming[s0][i]
           I == FreedSlots(outs \cup ins)
<1>1. n \in NodeId
  BY Zenon DEF IInv, OpsOK, RemoveNode, At, Carries
<1>2. s0 \in Shard /\ i \in Slot /\ i \in Int
  BY <1>1, NodeIdParts
<1>3. CASE /\ Valid(n)
           /\ nodes' = [nodes EXCEPT ![s0] = NodeRemove(@, i)]
           /\ rels' = [rels EXCEPT ![s0] = RelationshipFree(@, I)]
           /\ outgoing' = [outgoing EXCEPT ![s0] = WithoutLinksOf(@, i, s0, ins)]
           /\ incoming' = [incoming EXCEPT ![s0] = WithoutLinksOf(@, i, s0, outs)]
           /\ grouped' = [grouped EXCEPT ![s0] = @ \ {i}]
  <2>1. WellFormed(nodes[s0]) /\ ValidNodeId(nodes[s0], i)
    BY <1>2, <1>3, Zenon DEF IInv, NodesOK, Valid
  <2>2. i \in LiveSlots(nodes[s0])
    BY <1>2, <2>1, ValidIsLive
  <2>3. WellFormed(NodeRemove(nodes[s0], i))
    BY <2>1, <2>2, NodeRemovePreserves
  <2>4. NodesOK'
    BY <1>2, <1>3, <2>3, Zenon DEF IInv, NodesOK, WellFormed
  <2>5. outs \subseteq Link /\ ins \subseteq Link
    BY <1>2 DEF IInv, LinksOK
  <2>6. I \subseteq RelSlot
    BY <2>5, NodeIdParts DEF FreedSlots, Link
  <2>7. \A slots \in [Slot -> SUBSET Link] : \A counterparts :
           WithoutLinksOf(slots, i, s0, counterparts) \in [Slot -> SUBSET Link]
    BY DEF WithoutLinksOf
  <2>8. typed' = typed
    BY Zenon DEF RemoveNode
  <2> HIDE DEF I, s0, i, outs, ins
  <2>9. LinksOK'
    BY <1>2, <1>3, <2>7, <2>8 DEF IInv, LinksOK
  <2>10. RelsOK' /\ \A s \in Shard : RelSlotsOf(rels[s]) \subseteq RelSlotsOf(rels'[s])
    BY <1>2, <1>3, <2>6, FreeRelsKeeps DEF IInv
  <2>11. OpsOK'
    BY <2>10, IdleCarries, BecomeKeeps, Zenon DEF IInv, RemoveNode
  <2> QED  BY <2>4, <2>9, <2>10, <2>11 DEF IInv
<1>4. CASE UNCHANGED <<nodes, rels, outgoing, incoming, grouped>>
  <2>1. UNCHANGED graph
    BY <1>4, Zenon DEF RemoveNode, graph
  <2> QED  BY <2>1, IdleCarries, GraphKept, BecomeKeeps, Zenon DEF IInv, RemoveNode
<1> QED  BY <1>3, <1>4, Zenon DEF RemoveNode

-----------------------------------------------------------------------------
(* The theorems *)

\* No handler breaks the invariant, whatever has happened between it and the one before.
LEMMA NextIInv == IInv /\ [Next]_vars => IInv'
<1> SUFFICES ASSUME IInv, [Next]_vars PROVE IInv'
  OBVIOUS
<1>1. CASE UNCHANGED vars
  <2>1. UNCHANGED graph /\ op' = op
    BY <1>1 DEF vars, graph
  <2> QED  BY <2>1, GraphKept, OpsKept DEF IInv
<1>2. ASSUME NEW c \in Client, NEW k \in Key, RemoveNodeByKey(c, k) PROVE IInv'
  BY <1>2, NodeGetIDIsNode, StartRemovalKeeps DEF RemoveNodeByKey, IInv
<1> QED
  BY <1>1, <1>2, StartRemovalKeeps, AddNodeKeeps, InsertTypeKeeps, AddSameShardKeeps, AddByIdKeeps,
     AddByKeyKeeps, AddNewTypeKeeps, CheckNewTypeKeeps, AddToOutgoingKeeps,
     AddToIncomingKeeps, RemoveRelationshipKeeps, RemoveGetIncomingKeeps,
     RemoveIncomingKeeps, CheckNodeKeeps, GetNeighboursKeeps, DeleteIncomingKeeps,
     DeleteOutgoingKeeps, RemoveNodeKeeps
     DEF Next

THEOREM Invariance == Spec => []IInv
BY InitIInv, NextIInv, PTL DEF Spec

\* Every variable keeps its type: handlers only ever use ids that are ids, on columns that
\* stay within their bounds.
THEOREM TypeCorrect == Spec => []TypeOK
<1>1. IInv => TypeOK
  BY DEF IInv, NodesOK, RelsOK, LinksOK, OpsOK, TypeOK
<1> QED  BY Invariance, <1>1, PTL

\* On every shard, map, key vector and freed slots of the nodes agree.
THEOREM ColumnsAgreeHolds == Spec => []ColumnsAgree
<1>1. IInv => ColumnsAgree
  BY DEF IInv, NodesOK, WellFormed, ColumnsAgree
<1> QED  BY Invariance, <1>1, PTL

\* On every shard, freed relationship slots are cleared and lie within the vectors, and a
\* relationship leads from a node of the shard.
THEOREM RelStoresAgreeHolds == Spec => []RelStoresAgree
<1>1. IInv => RelStoresAgree
  BY DEF IInv, RelsOK, RelColumns, RelStoresAgree, RelStoreAgrees
<1> QED  BY Invariance, <1>1, PTL

-----------------------------------------------------------------------------
(* While nodes are only added *)

\* Nobody removes nodes.
NodesStay == "removeNode" \notin Ops

\* OwnerSide on one shard, of its relationship columns r and its outgoing links out.
OwnerAt(r, out, s) ==
    /\ \A i \in LiveRels(r) :
          /\ EndsOf(r, i) \in [from : {s} \X Slot, to : NodeId]
          /\ [rel |-> <<s, i>>, node |-> EndsOf(r, i).to] \in out[EndsOf(r, i).from[2]]
    /\ \A j \in Slot : \A l \in out[j] :
          /\ l.rel[1] = s
          /\ l.rel[2] \in LiveRels(r)
          /\ EndsOf(r, l.rel[2]) = [from |-> <<s, j>>, to |-> l.node]

\* No operation in progress removes a node.
AddsAndRemovesRels ==
    \A c \in Client : op[c].step \in {"idle", "checkNewType", "addOutgoing", "addIncoming",
                                      "removeOutgoing", "removeIncoming"}

-----------------------------------------------------------------------------
(* Live relationships *)

LEMMA LiveRelsAre ==
    ASSUME NEW s, NEW r, RelColumns(r, s)
    PROVE  LiveRels(r) = RelSlotsOf(r) \ r.deletedIds
<1>1. Len(r.ends) \in Nat
  BY DEF RelColumns, RelationshipType
<1> QED  BY <1>1 DEF LiveRels, RelSlotsOf, ValidRelationshipId

\* A store makes one slot live that was not, and leaves the live ones alone.
LEMMA StoreMakesOneLive ==
    ASSUME NEW s \in Shard, NEW r, RelColumns(r, s), HasRelRoom(r),
           NEW n1 \in NodeId, n1[1] = s, NEW n2 \in NodeId
    PROVE  LET u == RelationshipAdd(r, n1, n2)
               i0 == NextRel(r)
           IN  /\ i0 \notin LiveRels(r)
               /\ LiveRels(u) = LiveRels(r) \cup {i0}
               /\ EndsOf(u, i0) = [from |-> n1, to |-> n2]
               /\ \A i \in LiveRels(r) : EndsOf(u, i) = EndsOf(r, i)
<1> DEFINE pair == [from |-> n1, to |-> n2]
           u == RelationshipAdd(r, n1, n2)
           i0 == NextRel(r)
<1>1. RelColumns(u, s)
  BY RelationshipAddKeeps
<1>2. LiveRels(r) = RelSlotsOf(r) \ r.deletedIds /\ LiveRels(u) = RelSlotsOf(u) \ u.deletedIds
  BY <1>1, LiveRelsAre
<1>3. r.ends \in Seq(Ends) /\ Len(r.ends) \in Nat /\ r.deletedIds \subseteq RelSlotsOf(r)
  BY DEF RelColumns, RelationshipType
<1>4. /\ i0 \in RelSlot
      /\ r.deletedIds # {} => i0 \in r.deletedIds
      /\ r.deletedIds = {} => i0 = Len(r.ends)
  BY NextRelIsFree
<1>5. CASE r.deletedIds # {}
  <2>1. u.ends = [r.ends EXCEPT ![i0 + 1] = pair] /\ u.deletedIds = r.deletedIds \ {i0}
    BY <1>5 DEF RelationshipAdd
  <2>2. i0 \in RelSlotsOf(r) /\ i0 + 1 \in 1 .. Len(r.ends)
    BY <1>3, <1>4, <1>5 DEF RelSlotsOf
  <2>3. Len(u.ends) = Len(r.ends)
    BY <1>3, <2>1, <2>2
  <2>4. RelSlotsOf(u) = RelSlotsOf(r)
    BY <2>3 DEF RelSlotsOf
  <2>5. \A i \in RelSlotsOf(r) : EndsOf(u, i) = IF i = i0 THEN pair ELSE EndsOf(r, i)
    BY <1>3, <2>1, <2>2 DEF EndsOf, RelSlotsOf
  <2> QED  BY <1>2, <1>4, <1>5, <2>1, <2>2, <2>4, <2>5
<1>6. CASE r.deletedIds = {}
  <2>1. u.ends = Append(r.ends, pair) /\ u.deletedIds = {}
    BY <1>6 DEF RelationshipAdd
  <2>2. Len(u.ends) = Len(r.ends) + 1
    BY <1>3, <2>1
  <2>3. RelSlotsOf(u) = RelSlotsOf(r) \cup {i0} /\ i0 \notin RelSlotsOf(r)
    BY <1>3, <1>4, <1>6, <2>2 DEF RelSlotsOf
  <2>4. (\A i \in RelSlotsOf(r) : EndsOf(u, i) = EndsOf(r, i)) /\ EndsOf(u, i0) = pair
    BY <1>3, <1>4, <1>6, <2>1 DEF EndsOf, RelSlotsOf
  <2> QED  BY <1>2, <1>6, <2>1, <2>3, <2>4
<1> QED  BY <1>5, <1>6

\* Freeing slots of the vectors takes them from the live ones, and leaves the others alone.
LEMMA FreeTakes ==
    ASSUME NEW s \in Shard, NEW r, RelColumns(r, s), NEW I, I \subseteq RelSlotsOf(r) \cap RelSlot
    PROVE  LET u == RelationshipFree(r, I)
           IN  /\ LiveRels(u) = LiveRels(r) \ I
               /\ \A i \in LiveRels(u) : EndsOf(u, i) = EndsOf(r, i)
<1> DEFINE u == RelationshipFree(r, I)
           S == {Len(r.ends)} \cup {i + 1 : i \in I}
<1>1. RelColumns(u, s)
  BY RelationshipFreeKeeps
<1>2. LiveRels(r) = RelSlotsOf(r) \ r.deletedIds /\ LiveRels(u) = RelSlotsOf(u) \ u.deletedIds
  BY <1>1, LiveRelsAre
<1>3. Len(r.ends) \in Nat /\ I \subseteq 0 .. Len(r.ends) - 1
  BY DEF RelColumns, RelationshipType, RelSlotsOf
<1>4. S \subseteq 0 .. Len(r.ends) /\ Len(r.ends) \in S
  BY <1>3
<1>5. Max(S) \in S /\ \A y \in S : y <= Max(S)
  <2> HIDE DEF S
  <2> QED  BY <1>3, <1>4, MaxIsElement
<1>6. Max(S) = Len(r.ends)
  <2> DEFINE m == Max(S)
  <2>1. m \in 0 .. Len(r.ends) /\ Len(r.ends) <= m
    BY <1>4, <1>5
  <2> HIDE DEF m
  <2>2. m = Len(r.ends)
    BY <1>3, <2>1
  <2> QED  BY <2>2 DEF m
<1>7. /\ u.ends = [j \in 1 .. Max(S) |->
                      IF j <= Len(r.ends) /\ j - 1 \notin I THEN r.ends[j] ELSE NoEnds]
      /\ u.deletedIds = r.deletedIds \cup I
  BY DEF RelationshipFree
<1> HIDE DEF u, S
<1>8. u.ends = [j \in 1 .. Len(r.ends) |-> IF j - 1 \notin I THEN r.ends[j] ELSE NoEnds]
  BY <1>3, <1>6, <1>7
<1>9. Len(u.ends) = Len(r.ends)
  BY <1>3, <1>8
<1>10. RelSlotsOf(u) = RelSlotsOf(r)
  BY <1>9 DEF RelSlotsOf
<1>11. \A i \in RelSlotsOf(r) \ I : EndsOf(u, i) = EndsOf(r, i)
  BY <1>3, <1>8 DEF EndsOf, RelSlotsOf
<1>12. LiveRels(u) = LiveRels(r) \ I /\ \A i \in LiveRels(u) : EndsOf(u, i) = EndsOf(r, i)
  BY <1>2, <1>7, <1>10, <1>11
<1> QED  BY <1>12 DEF u

LEMMA FreeTakesOne ==
    ASSUME NEW s \in Shard, NEW r, RelColumns(r, s), NEW i0 \in RelSlotsOf(r), i0 \in RelSlot
    PROVE  LET u == RelationshipFree(r, {i0})
           IN  /\ LiveRels(u) = LiveRels(r) \ {i0}
               /\ \A i \in LiveRels(u) : EndsOf(u, i) = EndsOf(r, i)
<1>1. {i0} \subseteq RelSlotsOf(r) \cap RelSlot
  OBVIOUS
<1> QED  BY <1>1, FreeTakes

-----------------------------------------------------------------------------
(* The owning shard's two records *)

LEMMA OwnerSideIs ==
    OwnerSide <=> \A s \in Shard : OwnerAt(rels[s], outgoing[s], s)
BY DEF OwnerSide, OwnerAt, RelsAreLinked, LinksAreRels

LEMMA OwnerKept == ASSUME OwnerSide, UNCHANGED <<rels, outgoing>> PROVE OwnerSide'
BY DEF OwnerSide, RelsAreLinked, LinksAreRels

LEMMA StoreKeepsOwner ==
    ASSUME NEW s \in Shard, NEW r, RelColumns(r, s), HasRelRoom(r),
           NEW out \in [Slot -> SUBSET Link], OwnerAt(r, out, s),
           NEW n1 \in NodeId, n1[1] = s, NEW n2 \in NodeId
    PROVE  OwnerAt(RelationshipAdd(r, n1, n2),
                   [out EXCEPT ![n1[2]] = @ \cup {[rel |-> <<s, NextRel(r)>>, node |-> n2]}],
                   s)
<1> DEFINE u == RelationshipAdd(r, n1, n2)
           i0 == NextRel(r)
           link == [rel |-> <<s, i0>>, node |-> n2]
           after == [out EXCEPT ![n1[2]] = @ \cup {link}]
<1>1. /\ i0 \notin LiveRels(r)
      /\ LiveRels(u) = LiveRels(r) \cup {i0}
      /\ EndsOf(u, i0) = [from |-> n1, to |-> n2]
      /\ \A i \in LiveRels(r) : EndsOf(u, i) = EndsOf(r, i)
  BY StoreMakesOneLive
<1>2. n1 = <<s, n1[2]>> /\ n1[2] \in Slot
  BY DEF NodeId
<1>3. \A j \in Slot : after[j] = IF j = n1[2] THEN out[j] \cup {link} ELSE out[j]
  OBVIOUS
<1> HIDE DEF u, i0, after
<1>4. ASSUME NEW i \in LiveRels(u)
      PROVE  /\ EndsOf(u, i) \in [from : {s} \X Slot, to : NodeId]
             /\ [rel |-> <<s, i>>, node |-> EndsOf(u, i).to] \in after[EndsOf(u, i).from[2]]
  <2>1. CASE i = i0
    <3>1. EndsOf(u, i).from = <<s, n1[2]>> /\ EndsOf(u, i).to = n2
      BY <1>1, <1>2, <2>1
    <3>2. EndsOf(u, i) \in [from : {s} \X Slot, to : NodeId]
      BY <1>1, <1>2, <2>1
    <3>3. [rel |-> <<s, i>>, node |-> EndsOf(u, i).to] = link
      BY <2>1, <3>1, Zenon DEF i0
    <3>4. EndsOf(u, i).from[2] = n1[2]
      BY <3>1
    <3>5. link \in after[n1[2]]
      BY <1>2, <1>3
    <3> QED  BY <3>2, <3>3, <3>4, <3>5, Zenon
  <2>2. CASE i # i0
    <3>1. EndsOf(u, i) = EndsOf(r, i) /\ i \in LiveRels(r)
      BY <1>1, <2>2
    <3>2. /\ EndsOf(r, i) \in [from : {s} \X Slot, to : NodeId]
          /\ [rel |-> <<s, i>>, node |-> EndsOf(r, i).to] \in out[EndsOf(r, i).from[2]]
      BY <3>1 DEF OwnerAt
    <3>3. EndsOf(r, i).from[2] \in Slot
      BY <3>2
    <3> QED  BY <1>3, <3>1, <3>2, <3>3
  <2> QED  BY <2>1, <2>2
<1>5. ASSUME NEW j \in Slot, NEW l \in after[j]
      PROVE  /\ l.rel[1] = s
             /\ l.rel[2] \in LiveRels(u)
             /\ EndsOf(u, l.rel[2]) = [from |-> <<s, j>>, to |-> l.node]
  <2>1. CASE l \in out[j]
    BY <1>1, <2>1 DEF OwnerAt
  <2>2. CASE l = link /\ j = n1[2]
    BY <1>1, <1>2, <2>2
  <2> QED  BY <1>3, <2>1, <2>2
<1>6. OwnerAt(u, after, s)
  BY <1>4, <1>5 DEF OwnerAt
<1> QED  BY <1>6 DEF u, after, i0

LEMMA FreeKeepsOwner ==
    ASSUME NEW s \in Shard, NEW r, RelColumns(r, s),
           NEW out \in [Slot -> SUBSET Link], OwnerAt(r, out, s),
           NEW i0 \in RelSlotsOf(r), i0 \in RelSlot, EndsOf(r, i0).from # NoId
    PROVE  /\ i0 \in LiveRels(r)
           /\ OwnerAt(RelationshipFree(r, {i0}),
                      [out EXCEPT ![EndsOf(r, i0).from[2]] = {l \in @ : l.rel # <<s, i0>>}],
                      s)
<1> DEFINE u == RelationshipFree(r, {i0})
           j0 == EndsOf(r, i0).from[2]
           after == [out EXCEPT ![j0] = {l \in @ : l.rel # <<s, i0>>}]
<1>1. i0 \in LiveRels(r)
  BY LiveRelsAre DEF RelColumns, NoEnds
<1>2. LiveRels(u) = LiveRels(r) \ {i0} /\ \A i \in LiveRels(u) : EndsOf(u, i) = EndsOf(r, i)
  BY FreeTakesOne
<1>3. j0 \in Slot
  BY <1>1 DEF OwnerAt
<1>4. \A j \in Slot : after[j] = IF j = j0 THEN {l \in out[j] : l.rel # <<s, i0>>} ELSE out[j]
  OBVIOUS
<1> HIDE DEF u, after
<1>5. ASSUME NEW i \in LiveRels(u)
      PROVE  /\ EndsOf(u, i) \in [from : {s} \X Slot, to : NodeId]
             /\ [rel |-> <<s, i>>, node |-> EndsOf(u, i).to] \in after[EndsOf(u, i).from[2]]
  <2>1. EndsOf(u, i) = EndsOf(r, i) /\ i \in LiveRels(r) /\ i # i0
    BY <1>2
  <2>2. /\ EndsOf(r, i) \in [from : {s} \X Slot, to : NodeId]
        /\ [rel |-> <<s, i>>, node |-> EndsOf(r, i).to] \in out[EndsOf(r, i).from[2]]
    BY <2>1 DEF OwnerAt
  <2>3. EndsOf(r, i).from[2] \in Slot
    BY <2>2
  <2> QED  BY <1>4, <2>1, <2>2, <2>3
<1>6. ASSUME NEW j \in Slot, NEW l \in after[j]
      PROVE  /\ l.rel[1] = s
             /\ l.rel[2] \in LiveRels(u)
             /\ EndsOf(u, l.rel[2]) = [from |-> <<s, j>>, to |-> l.node]
  <2>1. l \in out[j] /\ (j = j0 => l.rel # <<s, i0>>)
    BY <1>4
  <2>2. /\ l.rel[1] = s /\ l.rel[2] \in LiveRels(r)
        /\ EndsOf(r, l.rel[2]) = [from |-> <<s, j>>, to |-> l.node]
    BY <2>1 DEF OwnerAt
  <2>3. l.rel = <<s, l.rel[2]>>
    BY <2>1, <2>2 DEF Link, RelId
  <2>4. l.rel[2] # i0
    BY <2>1, <2>2, <2>3
  <2> QED  BY <1>2, <2>2, <2>4
<1>7. OwnerAt(u, after, s)
  BY <1>5, <1>6 DEF OwnerAt
<1> QED  BY <1>1, <1>7 DEF u, after

\* Two records of one operation: the relationship is stored and its starting node linked.
LEMMA StoreAndLinkKeepsOwner ==
    ASSUME IInv, OwnerSide, NEW n1 \in NodeId, NEW n2 \in NodeId, HasRelRoom(rels[n1[1]]),
           StoreRel(n1, n2), LinkOut(n1, [rel |-> NewRel(n1), node |-> n2])
    PROVE  OwnerSide'
<1> DEFINE s0 == n1[1]
           u == RelationshipAdd(rels[s0], n1, n2)
           after == [outgoing[s0] EXCEPT
                        ![n1[2]] = @ \cup {[rel |-> <<s0, NextRel(rels[s0])>>, node |-> n2]}]
<1>1. /\ s0 \in Shard /\ RelColumns(rels[s0], s0)
      /\ outgoing[s0] \in [Slot -> SUBSET Link]
  BY NodeIdParts DEF IInv, RelsOK, LinksOK
<1>2. OwnerAt(rels[s0], outgoing[s0], s0)
  BY <1>1, OwnerSideIs
<1>3. OwnerAt(u, after, s0)
  BY <1>1, <1>2, StoreKeepsOwner
<1>4. \A s \in Shard : /\ rels'[s] = IF s = s0 THEN u ELSE rels[s]
                      /\ outgoing'[s] = IF s = s0 THEN after ELSE outgoing[s]
  BY DEF StoreRel, LinkOut, NewRel, IInv, RelsOK, LinksOK
<1> HIDE DEF u, after, s0
<1>5. \A s \in Shard : OwnerAt(rels'[s], outgoing'[s], s)
  BY <1>3, <1>4, OwnerSideIs
<1> QED  BY <1>5 DEF OwnerAt, OwnerSide, RelsAreLinked, LinksAreRels

\* The handler that removes a relationship was given an id, and its slot is in the vectors.
LEMMA RemovesARelId ==
    ASSUME IInv, NEW c \in Client, RelationshipRemoveGetIncoming(c)
    PROVE  LET r == op[c].rel
           IN  /\ r \in RelId /\ r = <<r[1], r[2]>>
               /\ r[1] \in Shard /\ r[2] \in RelSlot /\ r[2] \in RelSlotsOf(rels[r[1]])
<1> DEFINE r == op[c].rel
<1>1. r \in RelId /\ r[2] \in RelSlotsOf(rels[r[1]])
  BY Zenon DEF IInv, OpsOK, RelationshipRemoveGetIncoming, At, Carries
<1> HIDE DEF r
<1>2. r = <<r[1], r[2]>> /\ r[1] \in Shard /\ r[2] \in RelSlot
  BY <1>1, NodeIdParts DEF RelId
<1> QED  BY <1>1, <1>2 DEF r

\* A relationship without a starting node is not live: its slot has been freed already.
LEMMA FreedTwiceIsKept ==
    ASSUME IInv, OwnerSide, NEW c \in Client, RelationshipRemoveGetIncoming(c),
           EndsOf(rels[op[c].rel[1]], op[c].rel[2]).from = NoId
    PROVE  UNCHANGED <<rels, outgoing>>
<1> DEFINE r == op[c].rel
           s0 == r[1]
           i == r[2]
           u == [rels[s0] EXCEPT !.deletedIds = @ \cup {i}]
<1>1. s0 \in Shard /\ i \in RelSlot /\ i \in RelSlotsOf(rels[s0])
  BY RemovesARelId
<1>2. RelColumns(rels[s0], s0) /\ OwnerAt(rels[s0], outgoing[s0], s0)
  BY <1>1, OwnerSideIs DEF IInv, RelsOK
<1>3. i \notin LiveRels(rels[s0])
  <2>1. NoId \notin {s0} \X Slot
    BY <1>1, NodeIdParts DEF NodeId
  <2> QED  BY <1>2, <2>1, Zenon DEF OwnerAt
<1>4. rels[s0].deletedIds \cup {i} = rels[s0].deletedIds
  BY <1>1, <1>2, <1>3, LiveRelsAre
<1>5. rels[s0] \in RelationshipType /\ rels \in [Shard -> RelationshipType]
  BY <1>1 DEF IInv, RelsOK
<1>6. rels' = [rels EXCEPT ![s0] = u] /\ outgoing' = outgoing
  BY DEF RelationshipRemoveGetIncoming
<1>7. u = rels[s0]
  <2> HIDE DEF s0, i
  <2> QED  BY <1>4, <1>5 DEF RelationshipType
<1> HIDE DEF u, s0
<1> QED  BY <1>5, <1>6, <1>7

\* A relationship is taken out on its own shard, from the columns and from its starting node.
LEMMA RemoveKeepsOwner ==
    ASSUME IInv, OwnerSide, NEW c \in Client, RelationshipRemoveGetIncoming(c)
    PROVE  OwnerSide'
<1> DEFINE r == op[c].rel
           s0 == r[1]
           i == r[2]
           ends == EndsOf(rels[s0], i)
<1>1. r \in RelId /\ r = <<s0, i>> /\ s0 \in Shard /\ i \in RelSlot /\ i \in RelSlotsOf(rels[s0])
  BY RemovesARelId
<1>2. RelColumns(rels[s0], s0) /\ outgoing[s0] \in [Slot -> SUBSET Link]
  BY <1>1 DEF IInv, RelsOK, LinksOK
<1>3. OwnerAt(rels[s0], outgoing[s0], s0)
  BY <1>1, OwnerSideIs
<1>4. CASE ends.from = NoId
  BY <1>4, FreedTwiceIsKept, OwnerKept
<1>5. CASE /\ ends.from # NoId
           /\ rels' = [rels EXCEPT ![s0] = RelationshipFree(@, {i})]
           /\ outgoing' = [outgoing EXCEPT ![s0][ends.from[2]] = {l \in @ : l.rel # r}]
  <2> DEFINE u == RelationshipFree(rels[s0], {i})
             after == [outgoing[s0] EXCEPT ![ends.from[2]] = {l \in @ : l.rel # <<s0, i>>}]
  <2>1. OwnerAt(u, after, s0)
    BY <1>1, <1>2, <1>3, <1>5, FreeKeepsOwner, Zenon
  <2>2. \A s \in Shard : rels'[s] = IF s = s0 THEN u ELSE rels[s]
    BY <1>5, Zenon DEF IInv, RelsOK
  <2>3. \A s \in Shard : outgoing'[s] = IF s = s0 THEN after ELSE outgoing[s]
    <3> HIDE DEF s0, r, i, ends
    <3> QED  BY <1>1, <1>5 DEF IInv, LinksOK
  <2> HIDE DEF u, after, s0, r, i, ends
  <2>4. \A s \in Shard : OwnerAt(rels'[s], outgoing'[s], s)
    BY <2>1, <2>2, <2>3, OwnerSideIs
  <2> QED  BY <2>4 DEF OwnerAt, OwnerSide, RelsAreLinked, LinksAreRels
<1> QED  BY <1>4, <1>5, Zenon DEF RelationshipRemoveGetIncoming

-----------------------------------------------------------------------------
(* The owner-side theorem *)

OInv == IInv /\ AddsAndRemovesRels /\ OwnerSide

LEMMA InitOInv == Init => OInv
<1> SUFFICES ASSUME Init PROVE OInv
  OBVIOUS
<1>1. AddsAndRemovesRels
  BY DEF Init, AddsAndRemovesRels, Idle
<1>2. OwnerSide
  BY DEF Init, OwnerSide, RelsAreLinked, LinksAreRels, LiveRels, RelSlotsOf,
         ValidRelationshipId, EmptyRelationshipType
<1> QED  BY <1>1, <1>2, InitIInv DEF OInv

\* A client that has not started to remove a node does not come to a handler that does.
LEMMA StepsStay ==
    ASSUME NodesStay, AddsAndRemovesRels, OpsOK, [Next]_vars
    PROVE  AddsAndRemovesRels'
<1>1. CASE op' = op
  BY <1>1 DEF AddsAndRemovesRels
<1>2. ASSUME NEW c \in Client, NEW x, Become(c, x),
             x.step \in {"idle", "checkNewType", "addOutgoing", "addIncoming",
                         "removeOutgoing", "removeIncoming"}
      PROVE  AddsAndRemovesRels'
  BY <1>2 DEF AddsAndRemovesRels, OpsOK, Become
<1>3. Idle.step = "idle"
  BY DEF Idle
<1>4. \A c \in Client : op[c] \in Context
  BY DEF OpsOK
<1>5. ASSUME NEW c \in Client PROVE ~Starts(c, "removeNode")
  BY DEF NodesStay, Starts
<1>6. ASSUME NEW c \in Client,
             \/ \E k \in Key : AddNode(c, k)
             \/ RelationshipTypeInsert(c)
             \/ \E n1, n2 \in NodeId : RelationshipAddSameShard(c, n1, n2)
      PROVE  op' = op
  BY <1>6 DEF AddNode, RelationshipTypeInsert, RelationshipAddSameShard
<1>7. ASSUME NEW c \in Client,
             \/ \E n1, n2 \in NodeId : \/ RelationshipAddById(c, n1, n2)
                                     \/ RelationshipAddNewType(c, n1, n2)
             \/ \E k1, k2 \in Key : RelationshipAddByKey(c, k1, k2)
             \/ \E r \in RelId : RemoveRelationship(c, r)
      PROVE  AddsAndRemovesRels'
  BY <1>2, <1>7, Zenon
     DEF RelationshipAddById, RelationshipAddNewType, RelationshipAddByKey, RemoveRelationship, Idle
<1>8. ASSUME NEW c \in Client,
             \/ CheckNewType(c) \/ RelationshipAddToOutgoing(c) \/ RelationshipAddToIncoming(c)
             \/ RelationshipRemoveGetIncoming(c) \/ RelationshipRemoveIncoming(c)
      PROVE  AddsAndRemovesRels'
  BY <1>2, <1>3, <1>4, <1>8, Zenon
     DEF CheckNewType, RelationshipAddToOutgoing, RelationshipAddToIncoming,
         RelationshipRemoveGetIncoming, RelationshipRemoveIncoming, Context
<1>9. ASSUME NEW c \in Client
      PROVE  /\ \A k \in Key : ~RemoveNodeByKey(c, k)
             /\ \A n \in NodeId : ~RemoveNodeById(c, n)
             /\ ~CheckNode(c) /\ ~NodeRemoveGetIncoming(c) /\ ~NodeRemoveGetOutgoing(c)
             /\ \A m \in NodeId : ~NodeRemoveDeleteIncoming(c, m) /\ ~NodeRemoveDeleteOutgoing(c, m)
             /\ ~RemoveNode(c)
  BY <1>5, Zenon DEF AddsAndRemovesRels, At, RemoveNodeByKey, RemoveNodeById, CheckNode,
              NodeRemoveGetIncoming, NodeRemoveDeleteIncoming, NodeRemoveGetOutgoing,
              NodeRemoveDeleteOutgoing, RemoveNode
<1>10. CASE UNCHANGED vars
  BY <1>1, <1>10 DEF vars
<1>11. CASE Next
  BY <1>1, <1>6, <1>7, <1>8, <1>9, <1>11 DEF Next
<1> QED  BY <1>10, <1>11

\* The other handlers write neither record.
LEMMA NeitherRecordChanges ==
    ASSUME NodesStay, AddsAndRemovesRels, NEW c \in Client,
           \/ \E k \in Key : AddNode(c, k) \/ RemoveNodeByKey(c, k)
           \/ RelationshipTypeInsert(c)
           \/ \E n1, n2 \in NodeId : \/ RelationshipAddById(c, n1, n2)
                                   \/ RelationshipAddNewType(c, n1, n2)
           \/ \E k1, k2 \in Key : RelationshipAddByKey(c, k1, k2)
           \/ CheckNewType(c)
           \/ RelationshipAddToIncoming(c)
           \/ \E r \in RelId : RemoveRelationship(c, r)
           \/ RelationshipRemoveIncoming(c)
           \/ \E n \in NodeId : RemoveNodeById(c, n)
           \/ CheckNode(c)
           \/ NodeRemoveGetIncoming(c)
           \/ \E m \in NodeId : NodeRemoveDeleteIncoming(c, m) \/ NodeRemoveDeleteOutgoing(c, m)
           \/ NodeRemoveGetOutgoing(c)
           \/ RemoveNode(c)
    PROVE  UNCHANGED <<rels, outgoing>>
<1>1. ~RemoveNode(c) /\ \A m \in NodeId : ~NodeRemoveDeleteOutgoing(c, m)
  BY Zenon DEF AddsAndRemovesRels, At, RemoveNode, NodeRemoveDeleteOutgoing
<1> QED
  BY <1>1, Zenon
     DEF graph, AddNode, RemoveNodeByKey, RelationshipTypeInsert, RelationshipAddById,
         RelationshipAddNewType, RelationshipAddByKey, CheckNewType, RelationshipAddToIncoming,
         RemoveRelationship, RelationshipRemoveIncoming, RemoveNodeById, CheckNode,
         NodeRemoveGetIncoming, NodeRemoveDeleteIncoming, NodeRemoveGetOutgoing

\* The first half of an add writes both records of its shard, or neither.
LEMMA FirstHalfKeepsOwner ==
    ASSUME IInv, OwnerSide, NEW c \in Client, RelationshipAddToOutgoing(c)
    PROVE  OwnerSide'
<1> DEFINE n1 == IF op[c].key = NoKey THEN op[c].node ELSE NodeGetID(op[c].key)
           n2 == op[c].other
<1>1. CASE UNCHANGED <<rels, outgoing>>
  BY <1>1, OwnerKept
<1>2. CASE /\ IF op[c].key = NoKey THEN Valid(n1) ELSE n1 # NoId
           /\ HasRelRoom(rels[n1[1]])
           /\ StoreRel(n1, n2)
           /\ LinkOut(n1, [rel |-> NewRel(n1), node |-> n2])
  <2>1. op[c] \in Context /\ n2 \in NodeId
    BY DEF IInv, OpsOK, RelationshipAddToOutgoing, At, Carries
  <2>2. n1 \in NodeId
    <3>1. CASE op[c].key = NoKey
      BY <1>2, <2>1, <3>1 DEF Valid, Context
    <3>2. CASE op[c].key # NoKey
      BY <1>2, <2>1, <3>2, NodeGetIDIsNode DEF Context, IInv
    <3> QED  BY <3>1, <3>2
  <2> HIDE DEF n1, n2
  <2> QED  BY <1>2, <2>1, <2>2, StoreAndLinkKeepsOwner
<1> QED  BY <1>1, <1>2 DEF RelationshipAddToOutgoing

\* Only the two handlers that store relationships and the one that frees them touch either record.
LEMMA NextOInv == ASSUME NodesStay PROVE OInv /\ [Next]_vars => OInv'
<1> SUFFICES ASSUME OInv, [Next]_vars PROVE OInv'
  OBVIOUS
<1>1. IInv' /\ AddsAndRemovesRels'
  BY NextIInv, StepsStay DEF OInv, IInv
<1>2. CASE UNCHANGED <<rels, outgoing>>
  <2>1. OwnerSide'
    BY <1>2, OwnerKept DEF OInv
  <2> QED  BY <1>1, <2>1 DEF OInv
<1>3. ASSUME NEW c \in Client, NEW n1 \in NodeId, NEW n2 \in NodeId,
             RelationshipAddSameShard(c, n1, n2)
      PROVE  OwnerSide'
  BY <1>3, StoreAndLinkKeepsOwner DEF RelationshipAddSameShard, OInv
<1>4. ASSUME NEW c \in Client, RelationshipAddToOutgoing(c)
      PROVE  OwnerSide'
  BY <1>4, FirstHalfKeepsOwner DEF OInv
<1>5. ASSUME NEW c \in Client, RelationshipRemoveGetIncoming(c)
      PROVE  OwnerSide'
  BY <1>5, RemoveKeepsOwner DEF OInv
<1>6. CASE UNCHANGED vars
  BY <1>2, <1>6 DEF vars
<1>7. CASE Next /\ ~UNCHANGED <<rels, outgoing>>
  <2>1. \E c \in Client :
           \/ \E n1, n2 \in NodeId : RelationshipAddSameShard(c, n1, n2)
           \/ RelationshipAddToOutgoing(c)
           \/ RelationshipRemoveGetIncoming(c)
    BY <1>7, NeitherRecordChanges DEF Next, OInv
  <2> QED  BY <1>1, <1>3, <1>4, <1>5, <1>7, <2>1 DEF OInv
<1> QED  BY <1>2, <1>6, <1>7

\* While nodes are only added, the columns and the links of every shard tell of the same
\* relationships, whatever handlers interleave and however often slots are reused.
THEOREM OwnerSideHolds == ASSUME NodesStay PROVE Spec => []OwnerSide
<1>1. OInv => OwnerSide
  BY DEF OInv
<1> QED  BY InitOInv, NextOInv, <1>1, PTL DEF Spec

-----------------------------------------------------------------------------
(* Both ends are nodes *)

\* The relationship type exists from the start: the overload that asks the wrong question
\* of a new type (CheckNewType) is never taken.
TypedThroughout == NodesStay /\ TypeAtStart

\* Keys are held by the shard they hash to.
KeysAtHome == \A s \in Shard : \A k \in KeysHeld(nodes[s]) : ShardOf[k] = s

\* An operation about to store a relationship has found the ending node.
TargetsAreNodes ==
    \A c \in Client : /\ op[c].step # "checkNewType"
                      /\ op[c].step = "addOutgoing" => IsLive(op[c].other)

\* What the shards hold is a graph, whatever operations are under way.
IsGraph == IInv /\ OwnerSide /\ KeysAtHome /\ EndsAreNodes

PInv == OInv /\ typed /\ KeysAtHome /\ TargetsAreNodes /\ EndsAreNodes

LEMMA PInvIsGraph == PInv => IsGraph
BY DEF PInv, OInv, IsGraph

\* Adding a node leaves the nodes there are where they are.
LEMMA NodeAddExtends ==
    ASSUME NEW t, WellFormed(t), HasRoom(t), NEW k \in Key
    PROVE  LET u == NodeAdd(t, k)
           IN  /\ LiveSlots(t) \subseteq LiveSlots(u)
               /\ \A i \in LiveSlots(t) : KeyOf(u, i) = KeyOf(t, i)
               /\ KeysHeld(u) = KeysHeld(t) \cup {k}
<1> DEFINE n == NextSlot(t)
           u == NodeAdd(t, k)
<1>1. CASE t.keyToNodeId[k] # NoSlot
  BY <1>1 DEF NodeAdd, KeysHeld
<1>2. CASE t.keyToNodeId[k] = NoSlot
  <2>1. u = [keyToNodeId |-> [t.keyToNodeId EXCEPT ![k] = n],
             keys        |-> IF t.deletedIds # {} THEN [t.keys EXCEPT ![n + 1] = k]
                                                  ELSE Append(t.keys, k),
             deletedIds  |-> t.deletedIds \ {n}]
    BY <1>2 DEF NodeAdd, addId
  <2>2. t \in NodeType /\ Len(t.keys) \in Nat /\ t.deletedIds \subseteq SlotsOf(t)
    BY DEF WellFormed, NodeType, SlotsAgree, DeletedSlotsAreCleared
  <2>3. /\ n \in Slot /\ n # NoSlot
        /\ t.deletedIds # {} => n \in t.deletedIds
        /\ t.deletedIds = {} => n = Len(t.keys)
    BY NextSlotIsFree DEF Slot, NoSlot
  <2> HIDE DEF u, n
  <2>4. KeysHeld(u) = KeysHeld(t) \cup {k}
    BY <2>1, <2>2, <2>3 DEF KeysHeld, NodeType
  <2>5. CASE t.deletedIds # {}
    <3>1. u.keys = [t.keys EXCEPT ![n + 1] = k] /\ Len(u.keys) = Len(t.keys)
      BY <2>1, <2>2, <2>5 DEF NodeType
    <3>2. \A i \in SlotsOf(t) \ {n} : KeyOf(u, i) = KeyOf(t, i)
      BY <2>2, <2>3, <3>1 DEF NodeType, SlotsOf, KeyOf, Slot
    <3>3. SlotsOf(u) = SlotsOf(t)
      BY <3>1 DEF SlotsOf
    <3>4. LiveSlots(t) \subseteq LiveSlots(u) /\ n \notin LiveSlots(t)
      BY <2>1, <2>3, <2>5, <3>3 DEF LiveSlots
    <3>5. \A i \in LiveSlots(t) : KeyOf(u, i) = KeyOf(t, i)
      BY <3>2, <3>4 DEF LiveSlots
    <3> QED  BY <2>4, <3>4, <3>5 DEF u
  <2>6. CASE t.deletedIds = {}
    <3>1. u.keys = Append(t.keys, k) /\ Len(u.keys) = Len(t.keys) + 1
      BY <2>1, <2>2, <2>6 DEF NodeType
    <3>2. \A i \in SlotsOf(t) : i \in SlotsOf(u) /\ KeyOf(u, i) = KeyOf(t, i)
      BY <2>2, <3>1 DEF NodeType, SlotsOf, KeyOf
    <3>3. LiveSlots(t) \subseteq LiveSlots(u) /\ \A i \in LiveSlots(t) : KeyOf(u, i) = KeyOf(t, i)
      BY <2>1, <2>6, <3>2 DEF LiveSlots
    <3> QED  BY <2>4, <3>3 DEF u
  <2> QED  BY <2>5, <2>6
<1> QED  BY <1>1, <1>2

\* An id that is valid, or that a key leads to, is a node.
LEMMA ValidIsNode ==
    ASSUME NodesOK, NEW n \in NodeId, Valid(n)
    PROVE  IsLive(n)
BY NodeIdParts, ValidIsLive DEF NodesOK, Valid, IsLive

LEMMA FoundIsNode ==
    ASSUME NodesOK, NEW k \in Key, NodeGetID(k) # NoId
    PROVE  IsLive(NodeGetID(k))
<1> DEFINE s == ShardOf[k]
           i == nodes[s].keyToNodeId[k]
<1>1. s \in Shard /\ WellFormed(nodes[s])
  BY GraphShardsAssumption DEF NodesOK
<1>2. i # NoSlot /\ NodeGetID(k) = <<s, i>>
  BY DEF NodeGetID
<1>3. i \in LiveSlots(nodes[s])
  BY <1>1, <1>2 DEF WellFormed, SlotsAgree, MapPointsIntoKeys, KeysHeld
<1> QED  BY <1>2, <1>3 DEF IsLive

\* The key of a node is held by the node's shard.
LEMMA LiveNodeHasKey ==
    ASSUME NodesOK, NEW n \in NodeId, IsLive(n)
    PROVE  KeyOf(nodes[n[1]], n[2]) \in KeysHeld(nodes[n[1]]) \cap Key
<1>1. n[1] \in Shard /\ WellFormed(nodes[n[1]])
  BY NodeIdParts DEF NodesOK
<1>2. n[2] \in LiveSlots(nodes[n[1]])
  BY DEF IsLive
<1>3. /\ KeyOf(nodes[n[1]], n[2]) \in Key
      /\ nodes[n[1]].keyToNodeId[KeyOf(nodes[n[1]], n[2])] = n[2]
  BY <1>1, <1>2 DEF WellFormed, SlotsAgree, LiveSlotsAreNamed
<1>4. n[2] # NoSlot
  BY NodeIdParts DEF Slot, NoSlot
<1> QED  BY <1>3, <1>4 DEF KeysHeld

\* What storing a relationship makes of all shards' relationships.
LEMMA StoreDoes ==
    ASSUME IInv, NEW n1 \in NodeId, NEW n2 \in NodeId, HasRelRoom(rels[n1[1]]),
           StoreRel(n1, n2)
    PROVE  LET s0 == n1[1]
               i0 == NextRel(rels[s0])
           IN  /\ i0 \notin LiveRels(rels[s0])
               /\ \A s \in Shard :
                     LiveRels(rels'[s]) = IF s = s0 THEN LiveRels(rels[s]) \cup {i0}
                                                   ELSE LiveRels(rels[s])
               /\ EndsOf(rels'[s0], i0) = [from |-> n1, to |-> n2]
               /\ \A s \in Shard : \A i \in LiveRels(rels[s]) :
                     EndsOf(rels'[s], i) = EndsOf(rels[s], i)
<1> DEFINE s0 == n1[1]
           u == RelationshipAdd(rels[s0], n1, n2)
<1>1. s0 \in Shard /\ RelColumns(rels[s0], s0)
  BY NodeIdParts DEF IInv, RelsOK
<1>2. LET i0 == NextRel(rels[s0])
      IN  /\ i0 \notin LiveRels(rels[s0])
          /\ LiveRels(u) = LiveRels(rels[s0]) \cup {i0}
          /\ EndsOf(u, i0) = [from |-> n1, to |-> n2]
          /\ \A i \in LiveRels(rels[s0]) : EndsOf(u, i) = EndsOf(rels[s0], i)
  BY <1>1, StoreMakesOneLive
<1>3. \A s \in Shard : rels'[s] = IF s = s0 THEN u ELSE rels[s]
  BY DEF StoreRel, IInv, RelsOK
<1> HIDE DEF u
<1> QED  BY <1>1, <1>2, <1>3

\* What removing one makes of them: nothing when the slot had been freed already.
LEMMA RemoveDoes ==
    ASSUME IInv, OwnerSide, NEW c \in Client, RelationshipRemoveGetIncoming(c),
           ~UNCHANGED <<rels, outgoing>>
    PROVE  LET s0 == op[c].rel[1]
               i0 == op[c].rel[2]
           IN  /\ op[c].rel \in RelId /\ op[c].rel = <<s0, i0>>
               /\ i0 \in LiveRels(rels[s0])
               /\ \A s \in Shard :
                     LiveRels(rels'[s]) = IF s = s0 THEN LiveRels(rels[s]) \ {i0}
                                                   ELSE LiveRels(rels[s])
               /\ \A s \in Shard : \A i \in LiveRels(rels'[s]) :
                     EndsOf(rels'[s], i) = EndsOf(rels[s], i)
<1> DEFINE r == op[c].rel
           s0 == r[1]
           i0 == r[2]
           ends == EndsOf(rels[s0], i0)
           u == RelationshipFree(rels[s0], {i0})
<1>1. r \in RelId /\ r = <<s0, i0>> /\ s0 \in Shard /\ i0 \in RelSlot /\ i0 \in RelSlotsOf(rels[s0])
  BY RemovesARelId
<1>2. RelColumns(rels[s0], s0) /\ OwnerAt(rels[s0], outgoing[s0], s0)
  BY <1>1, OwnerSideIs DEF IInv, RelsOK
<1>3. ends.from # NoId /\ rels' = [rels EXCEPT ![s0] = u]
  BY FreedTwiceIsKept, Zenon DEF RelationshipRemoveGetIncoming
<1>4. i0 \in LiveRels(rels[s0])
  <2>1. i0 \in rels[s0].deletedIds => ends = NoEnds
    BY <1>2, Zenon DEF RelColumns
  <2>2. NoEnds.from = NoId
    BY DEF NoEnds
  <2>3. LiveRels(rels[s0]) = RelSlotsOf(rels[s0]) \ rels[s0].deletedIds
    BY <1>2, LiveRelsAre
  <2> QED  BY <1>1, <1>3, <2>1, <2>2, <2>3
<1>5. LiveRels(u) = LiveRels(rels[s0]) \ {i0}
      /\ \A i \in LiveRels(u) : EndsOf(u, i) = EndsOf(rels[s0], i)
  BY <1>1, <1>2, FreeTakesOne
<1>6. \A s \in Shard : rels'[s] = IF s = s0 THEN u ELSE rels[s]
  BY <1>3 DEF IInv, RelsOK
<1> HIDE DEF u
<1> QED  BY <1>1, <1>4, <1>5, <1>6

\* IsLive in the next state, of an id taken from this one.
StillLive(n) == n[2] \in LiveSlots(nodes'[n[1]])

\* What adding a node makes of all shards' nodes.
LEMMA AddNodeDoes ==
    ASSUME IInv, NEW c \in Client, NEW k \in Key, AddNode(c, k)
    PROVE  /\ \A n \in NodeId : IsLive(n) =>
                 StillLive(n) /\ KeyOf(nodes'[n[1]], n[2]) = KeyOf(nodes[n[1]], n[2])
           /\ \A s \in Shard : KeysHeld(nodes'[s]) =
                 IF s = ShardOf[k] THEN KeysHeld(nodes[s]) \cup {k} ELSE KeysHeld(nodes[s])
           /\ UNCHANGED <<rels, outgoing, typed, op>>
<1> DEFINE s0 == ShardOf[k]
           u == NodeAdd(nodes[s0], k)
<1>1. s0 \in Shard /\ WellFormed(nodes[s0]) /\ HasRoom(nodes[s0])
  BY GraphShardsAssumption DEF IInv, NodesOK, AddNode
<1>2. /\ LiveSlots(nodes[s0]) \subseteq LiveSlots(u)
      /\ \A i \in LiveSlots(nodes[s0]) : KeyOf(u, i) = KeyOf(nodes[s0], i)
      /\ KeysHeld(u) = KeysHeld(nodes[s0]) \cup {k}
  BY <1>1, NodeAddExtends
<1>3. \A s \in Shard : nodes'[s] = IF s = s0 THEN u ELSE nodes[s]
  BY DEF AddNode, IInv, NodesOK
<1>4. UNCHANGED <<rels, outgoing, typed, op>>
  BY DEF AddNode
<1> HIDE DEF u, s0
<1>5. ASSUME NEW n \in NodeId, IsLive(n)
      PROVE  StillLive(n) /\ KeyOf(nodes'[n[1]], n[2]) = KeyOf(nodes[n[1]], n[2])
  <2>1. n[1] \in Shard /\ n[2] \in LiveSlots(nodes[n[1]])
    BY <1>5, NodeIdParts DEF IsLive
  <2> QED  BY <1>2, <1>3, <2>1 DEF IsLive, StillLive
<1>6. \A s \in Shard : KeysHeld(nodes'[s]) =
         IF s = s0 THEN KeysHeld(nodes[s]) \cup {k} ELSE KeysHeld(nodes[s])
  BY <1>2, <1>3
<1> QED  BY <1>4, <1>5, <1>6 DEF s0

\* A step adds a node, stores a relationship between two nodes, takes a live one out, or
\* changes neither nodes nor relationships.
StoresBetweenNodes ==
    \E n1, n2 \in NodeId :
        /\ IsLive(n1) /\ IsLive(n2) /\ HasRelRoom(rels[n1[1]])
        /\ StoreRel(n1, n2)
        /\ UNCHANGED <<nodes, typed>>

TakesOut == \E c \in Client : RelationshipRemoveGetIncoming(c) /\ ~UNCHANGED <<rels, outgoing>>

\* The first half of an add finds its starting node, or stores nothing.
LEMMA FirstHalfStores ==
    ASSUME IInv, NEW c \in Client, RelationshipAddToOutgoing(c), IsLive(op[c].other)
    PROVE  StoresBetweenNodes \/ UNCHANGED <<nodes, rels>>
<1> DEFINE n1 == IF op[c].key = NoKey THEN op[c].node ELSE NodeGetID(op[c].key)
           n2 == op[c].other
<1>1. op[c] \in Context /\ n2 \in NodeId
  BY DEF IInv, OpsOK, RelationshipAddToOutgoing, At, Carries
<1>2. CASE /\ IF op[c].key = NoKey THEN Valid(n1) ELSE n1 # NoId
           /\ HasRelRoom(rels[n1[1]])
           /\ StoreRel(n1, n2)
  <2>1. n1 \in NodeId /\ IsLive(n1)
    <3>1. CASE op[c].key = NoKey
      BY <1>1, <1>2, <3>1, ValidIsNode DEF Valid, Context, IInv
    <3>2. CASE op[c].key # NoKey
      BY <1>1, <1>2, <3>2, NodeGetIDIsNode, FoundIsNode DEF Context, IInv
    <3> QED  BY <3>1, <3>2
  <2>2. UNCHANGED <<nodes, typed>>
    BY DEF RelationshipAddToOutgoing
  <2>3. IsLive(n2)
    OBVIOUS
  <2> HIDE DEF n1, n2
  <2> QED  BY <1>1, <1>2, <2>1, <2>2, <2>3 DEF StoresBetweenNodes
<1>3. CASE UNCHANGED rels
  BY <1>3 DEF RelationshipAddToOutgoing
<1> QED  BY <1>2, <1>3 DEF RelationshipAddToOutgoing

LEMMA StepKinds ==
    ASSUME TypedThroughout, PInv, [Next]_vars
    PROVE  \/ \E c \in Client : \E k \in Key : AddNode(c, k)
           \/ UNCHANGED <<nodes, rels>>
           \/ StoresBetweenNodes
           \/ TakesOut
<1>1. CASE UNCHANGED vars
  BY <1>1 DEF vars
<1>2. ASSUME NEW c \in Client, NEW n1 \in NodeId, NEW n2 \in NodeId,
             RelationshipAddSameShard(c, n1, n2)
      PROVE  StoresBetweenNodes
  BY <1>2, ValidIsNode DEF RelationshipAddSameShard, StoresBetweenNodes, PInv, OInv, IInv
<1>3. ASSUME NEW c \in Client, RelationshipAddToOutgoing(c)
      PROVE  StoresBetweenNodes \/ UNCHANGED <<nodes, rels>>
  <2>1. IsLive(op[c].other)
    BY <1>3 DEF PInv, RelationshipAddToOutgoing, At, TargetsAreNodes
  <2> QED  BY <1>3, <2>1, FirstHalfStores DEF PInv, OInv
<1>4. ASSUME NEW c \in Client, RelationshipRemoveGetIncoming(c)
      PROVE  TakesOut \/ UNCHANGED <<nodes, rels>>
  BY <1>4, Zenon DEF RelationshipRemoveGetIncoming, TakesOut
<1>5. ASSUME NEW c \in Client,
             \/ \E k \in Key : RemoveNodeByKey(c, k)
             \/ RelationshipTypeInsert(c)
             \/ \E n1, n2 \in NodeId : \/ RelationshipAddById(c, n1, n2)
                                     \/ RelationshipAddNewType(c, n1, n2)
             \/ \E k1, k2 \in Key : RelationshipAddByKey(c, k1, k2)
             \/ CheckNewType(c)
             \/ RelationshipAddToIncoming(c)
             \/ \E r \in RelId : RemoveRelationship(c, r)
             \/ RelationshipRemoveIncoming(c)
             \/ \E n \in NodeId : RemoveNodeById(c, n)
             \/ CheckNode(c)
             \/ NodeRemoveGetIncoming(c)
             \/ \E m \in NodeId : NodeRemoveDeleteIncoming(c, m)
             \/ NodeRemoveGetOutgoing(c)
      PROVE  UNCHANGED <<nodes, rels>>
  BY <1>5, Zenon
     DEF graph, RemoveNodeByKey, RelationshipTypeInsert, RelationshipAddById,
         RelationshipAddNewType, RelationshipAddByKey, CheckNewType, RelationshipAddToIncoming,
         RemoveRelationship, RelationshipRemoveIncoming, RemoveNodeById, CheckNode,
         NodeRemoveGetIncoming, NodeRemoveDeleteIncoming, NodeRemoveGetOutgoing
<1>6. ASSUME NEW c \in Client
      PROVE  ~RemoveNode(c) /\ \A m \in NodeId : ~NodeRemoveDeleteOutgoing(c, m)
  BY Zenon DEF PInv, OInv, AddsAndRemovesRels, At, RemoveNode, NodeRemoveDeleteOutgoing
<1>7. CASE Next
  BY <1>2, <1>3, <1>4, <1>5, <1>6, <1>7 DEF Next
<1> QED  BY <1>1, <1>7

LEMMA NodesOnlyGrow ==
    ASSUME TypedThroughout, PInv, [Next]_vars
    PROVE  /\ \A n \in NodeId : IsLive(n) => StillLive(n)
           /\ KeysAtHome'
<1>1. CASE UNCHANGED nodes
  BY <1>1 DEF IsLive, StillLive, PInv, KeysAtHome
<1>2. ASSUME NEW c \in Client, NEW k \in Key, AddNode(c, k)
      PROVE  (\A n \in NodeId : IsLive(n) => StillLive(n)) /\ KeysAtHome'
  <2>1. /\ \A n \in NodeId : IsLive(n) => StillLive(n)
        /\ \A s \in Shard : KeysHeld(nodes'[s]) =
              IF s = ShardOf[k] THEN KeysHeld(nodes[s]) \cup {k} ELSE KeysHeld(nodes[s])
    BY <1>2, AddNodeDoes DEF PInv, OInv
  <2>2. \A s \in Shard : \A j \in KeysHeld(nodes'[s]) : ShardOf[j] = s
    BY <2>1 DEF PInv, KeysAtHome
  <2> QED  BY <2>1, <2>2 DEF KeysAtHome
<1>3. CASE TakesOut
  BY <1>1, <1>3, Zenon DEF TakesOut, RelationshipRemoveGetIncoming
<1>4. CASE StoresBetweenNodes
  BY <1>1, <1>4 DEF StoresBetweenNodes
<1> QED  BY <1>1, <1>2, <1>3, <1>4, StepKinds

\* An operation reaches the handler that stores only once the ending node has been found, and
\* nodes do not go away while it waits.
LEMMA TargetsStay ==
    ASSUME TypedThroughout, PInv, [Next]_vars
    PROVE  typed' /\ TargetsAreNodes'
<1> DEFINE Fine(x) == x.step # "checkNewType" /\ (x.step = "addOutgoing" => StillLive(x.other))
<1>1. ASSUME NEW d \in Client PROVE Fine(op[d])
  <2>1. op[d].step = "addOutgoing" => op[d].other \in NodeId /\ IsLive(op[d].other)
    BY DEF PInv, OInv, IInv, OpsOK, Carries, TargetsAreNodes
  <2> QED  BY <2>1, NodesOnlyGrow DEF PInv, TargetsAreNodes
<1>2. ASSUME op' = op PROVE TargetsAreNodes'
  BY <1>1, <1>2 DEF TargetsAreNodes, IsLive, StillLive
<1>3. ASSUME NEW c \in Client, NEW x, Become(c, x), Fine(x)
      PROVE  TargetsAreNodes'
  <2>1. \A d \in Client : op'[d] = IF d = c THEN x ELSE op[d]
    BY <1>3 DEF PInv, OInv, IInv, OpsOK, Become
  <2> HIDE DEF Fine
  <2>2. \A d \in Client : Fine(op'[d])
    BY <1>1, <1>3, <2>1
  <2> QED  BY <2>2 DEF TargetsAreNodes, Fine, IsLive, StillLive
<1>4. Fine(Idle)
  BY DEF Idle
<1>5. typed /\ IInv /\ NodesOK
  BY DEF PInv, OInv, IInv
<1>6. ASSUME NEW c \in Client,
             \/ \E k \in Key : AddNode(c, k)
             \/ RelationshipTypeInsert(c)
             \/ \E n1, n2 \in NodeId : RelationshipAddSameShard(c, n1, n2)
      PROVE  op' = op
  BY <1>6 DEF AddNode, RelationshipTypeInsert, RelationshipAddSameShard
<1>7. ASSUME NEW c \in Client, NEW n1 \in NodeId, NEW n2 \in NodeId, RelationshipAddById(c, n1, n2)
      PROVE  TargetsAreNodes'
  <2> DEFINE x == [Idle EXCEPT !.step = "addOutgoing", !.node = n1, !.other = n2]
  <2>1. Become(c, x) /\ x.step = "addOutgoing" /\ x.other = n2
    BY <1>7 DEF RelationshipAddById, Idle
  <2>2. StillLive(n2)
    BY <1>5, <1>7, ValidIsNode, NodesOnlyGrow DEF RelationshipAddById
  <2> HIDE DEF x
  <2> QED  BY <1>3, <2>1, <2>2
<1>8. ASSUME NEW c \in Client, NEW k1 \in Key, NEW k2 \in Key, RelationshipAddByKey(c, k1, k2)
      PROVE  TargetsAreNodes'
  <2> DEFINE x == [Idle EXCEPT !.step = "addOutgoing", !.key = k1, !.other = NodeGetID(k2)]
  <2>1. Become(c, x) /\ x.step = "addOutgoing" /\ x.other = NodeGetID(k2)
    BY <1>8 DEF RelationshipAddByKey, Idle
  <2>2. UNCHANGED nodes /\ IsLive(NodeGetID(k2))
    BY <1>5, <1>8, FoundIsNode DEF RelationshipAddByKey, graph
  <2>3. StillLive(x.other)
    BY <2>1, <2>2 DEF IsLive, StillLive
  <2> HIDE DEF x
  <2> QED  BY <1>3, <2>1, <2>3
<1>9. ASSUME NEW c \in Client,
             \/ RelationshipAddToOutgoing(c) \/ RelationshipAddToIncoming(c)
             \/ \E r \in RelId : RemoveRelationship(c, r)
             \/ RelationshipRemoveGetIncoming(c) \/ RelationshipRemoveIncoming(c)
      PROVE  TargetsAreNodes'
  <2>1. op[c] \in Context
    BY DEF PInv, OInv, IInv, OpsOK
  <2>2. ASSUME NEW x, Become(c, x), x.step \in {"idle", "addIncoming", "removeOutgoing", "removeIncoming"}
        PROVE  TargetsAreNodes'
    BY <1>3, <2>2
  <2>3. CASE \E r \in RelId : RemoveRelationship(c, r)
    BY <2>2, <2>3 DEF RemoveRelationship, Idle
  <2>4. Idle.step = "idle"
    BY DEF Idle
  <2> QED
    BY <1>9, <2>1, <2>2, <2>3, <2>4, Zenon
       DEF RelationshipAddToOutgoing, RelationshipAddToIncoming, RelationshipRemoveGetIncoming,
           RelationshipRemoveIncoming, Context
<1>10. ASSUME NEW c \in Client
       PROVE  /\ \A k \in Key : ~RemoveNodeByKey(c, k)
              /\ \A n \in NodeId : ~RemoveNodeById(c, n)
              /\ \A n1, n2 \in NodeId : ~RelationshipAddNewType(c, n1, n2)
              /\ ~CheckNewType(c)
              /\ ~CheckNode(c) /\ ~NodeRemoveGetIncoming(c) /\ ~NodeRemoveGetOutgoing(c)
              /\ \A m \in NodeId : ~NodeRemoveDeleteIncoming(c, m) /\ ~NodeRemoveDeleteOutgoing(c, m)
              /\ ~RemoveNode(c)
  BY Zenon DEF PInv, OInv, TypedThroughout, NodesStay, Starts, AddsAndRemovesRels, TargetsAreNodes, At,
         RelationshipAddNewType, CheckNewType, RemoveNodeByKey, RemoveNodeById, CheckNode,
         NodeRemoveGetIncoming, NodeRemoveDeleteIncoming, NodeRemoveGetOutgoing,
         NodeRemoveDeleteOutgoing, RemoveNode
<1>11. typed'
  <2>1. ASSUME NEW c \in Client,
               \/ \E n1, n2 \in NodeId : RelationshipAddById(c, n1, n2)
               \/ \E k1, k2 \in Key : RelationshipAddByKey(c, k1, k2)
               \/ \E r \in RelId : RemoveRelationship(c, r)
        PROVE  typed' = typed
    BY <2>1, Zenon DEF graph, RelationshipAddById, RelationshipAddByKey, RemoveRelationship
  <2>2. ASSUME NEW c \in Client,
               \/ \E k \in Key : AddNode(c, k)
               \/ \E n1, n2 \in NodeId : RelationshipAddSameShard(c, n1, n2)
               \/ RelationshipAddToOutgoing(c) \/ RelationshipAddToIncoming(c)
               \/ RelationshipRemoveGetIncoming(c) \/ RelationshipRemoveIncoming(c)
        PROVE  typed' = typed
    BY <2>2, Zenon
       DEF AddNode, RelationshipAddSameShard, RelationshipAddToOutgoing, RelationshipAddToIncoming,
           RelationshipRemoveGetIncoming, RelationshipRemoveIncoming
  <2>3. \A c \in Client : ~RelationshipTypeInsert(c)
    BY <1>5 DEF RelationshipTypeInsert
  <2>4. CASE UNCHANGED vars
    BY <1>5, <2>4 DEF vars
  <2> HIDE DEF Fine
  <2>5. CASE Next
    BY <1>5, <1>10, <2>1, <2>2, <2>3, <2>5 DEF Next
  <2> QED  BY <2>4, <2>5
<1> HIDE DEF Fine
<1>12. CASE UNCHANGED vars
  BY <1>2, <1>11, <1>12 DEF vars
<1>13. CASE Next
  BY <1>2, <1>6, <1>7, <1>8, <1>9, <1>10, <1>11, <1>13 DEF Next
<1> QED  BY <1>12, <1>13

\* A relationship keeps its nodes while they stay where they are and none is stored without them.
LEMMA EndsKept ==
    ASSUME IsGraph, \A n \in NodeId : IsLive(n) => StillLive(n),
           UNCHANGED rels \/ StoresBetweenNodes \/ TakesOut
    PROVE  EndsAreNodes'
<1> DEFINE Joined(ends) == ends.from # NoId /\ StillLive(ends.from) /\ ends.to # NoId /\ StillLive(ends.to)
<1>1. ASSUME NEW s \in Shard, NEW i \in LiveRels(rels[s]) PROVE Joined(EndsOf(rels[s], i))
  <2> DEFINE ends == EndsOf(rels[s], i)
  <2>1. ends.from \in NodeId /\ ends.to \in NodeId
    <3>1. ends \in [from : {s} \X Slot, to : NodeId]
      BY DEF IsGraph, OwnerSide, RelsAreLinked
    <3> QED  BY <3>1 DEF NodeId
  <2>2. ends.from # NoId /\ IsLive(ends.from) /\ ends.to # NoId /\ IsLive(ends.to)
    BY DEF IsGraph, EndsAreNodes
  <2> QED  BY <2>1, <2>2
<1>2. ASSUME NEW n1 \in NodeId, NEW n2 \in NodeId, IsLive(n1), IsLive(n2)
      PROVE  Joined([from |-> n1, to |-> n2])
  BY <1>2, NodeIdParts
<1> HIDE DEF Joined
<1>3. ASSUME \A s \in Shard : \A i \in LiveRels(rels'[s]) : Joined(EndsOf(rels'[s], i))
      PROVE  EndsAreNodes'
  BY <1>3 DEF Joined, EndsAreNodes, StillLive, IsLive
<1>4. CASE UNCHANGED rels
  BY <1>1, <1>3, <1>4
<1>5. CASE StoresBetweenNodes
  <2>1. PICK n1 \in NodeId, n2 \in NodeId :
           IsLive(n1) /\ IsLive(n2) /\ HasRelRoom(rels[n1[1]]) /\ StoreRel(n1, n2)
    BY <1>5 DEF StoresBetweenNodes
  <2> DEFINE s0 == n1[1]
             i0 == NextRel(rels[s0])
  <2>2. /\ \A s \in Shard :
              LiveRels(rels'[s]) = IF s = s0 THEN LiveRels(rels[s]) \cup {i0} ELSE LiveRels(rels[s])
        /\ EndsOf(rels'[s0], i0) = [from |-> n1, to |-> n2]
        /\ \A s \in Shard : \A i \in LiveRels(rels[s]) : EndsOf(rels'[s], i) = EndsOf(rels[s], i)
    BY <2>1, StoreDoes DEF IsGraph
  <2>3. Joined(EndsOf(rels'[s0], i0))
    BY <1>2, <2>1, <2>2
  <2> HIDE DEF s0, i0
  <2>4. ASSUME NEW s \in Shard, NEW i \in LiveRels(rels'[s]) PROVE Joined(EndsOf(rels'[s], i))
    <3>1. CASE i \in LiveRels(rels[s])
      BY <1>1, <2>2, <3>1
    <3>2. CASE s = s0 /\ i = i0
      BY <2>3, <3>2
    <3> QED  BY <2>2, <3>1, <3>2
  <2> QED  BY <1>3, <2>4
<1>6. CASE TakesOut
  <2>1. PICK c \in Client : RelationshipRemoveGetIncoming(c) /\ ~UNCHANGED <<rels, outgoing>>
    BY <1>6 DEF TakesOut
  <2>2. \A s \in Shard : \A i \in LiveRels(rels'[s]) : Joined(EndsOf(rels'[s], i))
    BY <1>1, <2>1, RemoveDoes DEF IsGraph
  <2> QED  BY <1>3, <2>2
<1> QED  BY <1>4, <1>5, <1>6

LEMMA EndsStay ==
    ASSUME TypedThroughout, PInv, [Next]_vars
    PROVE  EndsAreNodes'
<1>1. ASSUME NEW c \in Client, NEW k \in Key, AddNode(c, k) PROVE UNCHANGED rels
  BY <1>1 DEF AddNode
<1> QED  BY <1>1, PInvIsGraph, NodesOnlyGrow, StepKinds, EndsKept

LEMMA InitPInv == ASSUME TypedThroughout PROVE Init => PInv
<1> SUFFICES ASSUME Init PROVE PInv
  OBVIOUS
<1>1. typed
  BY DEF Init, TypedThroughout
<1>2. KeysAtHome
  BY DEF Init, KeysAtHome, KeysHeld, EmptyNodeType
<1>3. TargetsAreNodes
  BY DEF Init, TargetsAreNodes, Idle
<1>4. EndsAreNodes
  BY DEF Init, EndsAreNodes, LiveRels, RelSlotsOf, EmptyRelationshipType
<1> QED  BY <1>1, <1>2, <1>3, <1>4, InitOInv DEF PInv

LEMMA NextPInv == ASSUME TypedThroughout PROVE PInv /\ [Next]_vars => PInv'
<1> SUFFICES ASSUME PInv, [Next]_vars PROVE PInv'
  OBVIOUS
<1>1. OInv'
  BY NextOInv DEF TypedThroughout, PInv
<1> QED  BY <1>1, NodesOnlyGrow, TargetsStay, EndsStay DEF PInv

LEMMA PInvHolds == ASSUME TypedThroughout PROVE Spec => []PInv
BY InitPInv, NextPInv, PTL DEF Spec

\* While nodes are only added, to a type that exists from the start, every relationship has
\* a node at both ends, although the check of the ending node and the store are two handlers
\* on two shards.
THEOREM EndsAreNodesHolds == ASSUME TypedThroughout PROVE Spec => []EndsAreNodes
<1>1. PInv => EndsAreNodes
  BY DEF PInv
<1> QED  BY PInvHolds, <1>1, PTL

-----------------------------------------------------------------------------
(* The refinement *)

\* Edges by their members, in this state and in the next.
EdgeIn(ns, rs, s, i) ==
    LET ends == EndsOf(rs[s], i)
    IN  [id   |-> <<s, i>>,
         from |-> KeyOf(ns[ends.from[1]], ends.from[2]),
         to   |-> KeyOf(ns[ends.to[1]], ends.to[2])]

LEMMA EdgesAre ==
    /\ \A e : e \in Edges <=>
          \E s \in Shard : \E i \in LiveRels(rels[s]) : e = EdgeIn(nodes, rels, s, i)
    /\ \A e : e \in Edges' <=>
          \E s \in Shard : \E i \in LiveRels(rels'[s]) : e = EdgeIn(nodes', rels', s, i)
BY DEF Edges, EdgeOf, EdgeIn

LEMMA VerticesAre ==
    /\ \A k : k \in Vertices <=> \E s \in Shard : k \in KeysHeld(nodes[s])
    /\ \A k : k \in Vertices' <=> \E s \in Shard : k \in KeysHeld(nodes'[s])
BY DEF Vertices

\* As long as no node moves, an edge keeps its form.
LEMMA EdgeKept ==
    ASSUME IsGraph, NEW s \in Shard, NEW i \in LiveRels(rels[s]),
           EndsOf(rels'[s], i) = EndsOf(rels[s], i),
           \A n \in NodeId : IsLive(n) => KeyOf(nodes'[n[1]], n[2]) = KeyOf(nodes[n[1]], n[2])
    PROVE  EdgeIn(nodes', rels', s, i) = EdgeIn(nodes, rels, s, i)
<1> DEFINE ends == EndsOf(rels[s], i)
<1>1. ends \in [from : {s} \X Slot, to : NodeId]
  BY DEF IsGraph, OwnerSide, RelsAreLinked
<1>2. ends.from \in NodeId /\ ends.to \in NodeId
  BY <1>1 DEF NodeId
<1>3. IsLive(ends.from) /\ IsLive(ends.to)
  BY DEF IsGraph, EndsAreNodes
<1>4. /\ KeyOf(nodes'[ends.from[1]], ends.from[2]) = KeyOf(nodes[ends.from[1]], ends.from[2])
      /\ KeyOf(nodes'[ends.to[1]], ends.to[2]) = KeyOf(nodes[ends.to[1]], ends.to[2])
  BY <1>2, <1>3
<1> QED  BY <1>4 DEF EdgeIn

\* A new node is a new vertex, unless its key was there; the edges stay.
LEMMA AddNodeIsAddVertex ==
    ASSUME IsGraph, NEW c \in Client, NEW k \in Key, AddNode(c, k)
    PROVE  [Graph!Next]_(Graph!vars)
<1>1. /\ \A n \in NodeId : IsLive(n) => KeyOf(nodes'[n[1]], n[2]) = KeyOf(nodes[n[1]], n[2])
      /\ \A s \in Shard : KeysHeld(nodes'[s]) =
            IF s = ShardOf[k] THEN KeysHeld(nodes[s]) \cup {k} ELSE KeysHeld(nodes[s])
      /\ rels' = rels
  BY AddNodeDoes DEF IsGraph
<1>2. ShardOf[k] \in Shard
  BY GraphShardsAssumption
<1>3. Vertices' = Vertices \cup {k}
  BY <1>1, <1>2, VerticesAre
<1>4. \A s \in Shard : \A i \in LiveRels(rels[s]) :
         EdgeIn(nodes', rels', s, i) = EdgeIn(nodes, rels, s, i)
  BY <1>1, EdgeKept
<1>5. Edges' = Edges
  <2>1. \A e : e \in Edges' <=> e \in Edges
    BY <1>1, <1>4, EdgesAre
  <2> QED  BY <2>1
<1>6. CASE k \in Vertices
  BY <1>3, <1>5, <1>6 DEF Graph!vars
<1>7. CASE k \notin Vertices
  BY <1>3, <1>5, <1>7 DEF Graph!Next, Graph!AddVertex
<1> QED  BY <1>6, <1>7

\* Storing a relationship between two nodes is adding an edge with an identity not in use.
LEMMA StoreIsAddEdge ==
    ASSUME IsGraph, StoresBetweenNodes
    PROVE  Graph!Next
<1>1. PICK n1 \in NodeId, n2 \in NodeId :
         /\ IsLive(n1) /\ IsLive(n2) /\ HasRelRoom(rels[n1[1]])
         /\ StoreRel(n1, n2)
         /\ UNCHANGED nodes
  BY DEF StoresBetweenNodes
<1> DEFINE s0 == n1[1]
           i0 == NextRel(rels[s0])
           k1 == KeyOf(nodes[n1[1]], n1[2])
           k2 == KeyOf(nodes[n2[1]], n2[2])
           new == [id |-> <<s0, i0>>, from |-> k1, to |-> k2]
<1>2. /\ i0 \notin LiveRels(rels[s0])
      /\ \A s \in Shard :
            LiveRels(rels'[s]) = IF s = s0 THEN LiveRels(rels[s]) \cup {i0} ELSE LiveRels(rels[s])
      /\ EndsOf(rels'[s0], i0) = [from |-> n1, to |-> n2]
      /\ \A s \in Shard : \A i \in LiveRels(rels[s]) : EndsOf(rels'[s], i) = EndsOf(rels[s], i)
  BY <1>1, StoreDoes DEF IsGraph
<1>3. s0 \in Shard /\ <<s0, i0>> \in RelId
  BY <1>1, NodeIdParts, NewRelIsRel DEF IsGraph, IInv, NewRel
<1>4. k1 \in Key /\ k1 \in Vertices /\ k2 \in Key /\ k2 \in Vertices
  BY <1>1, LiveNodeHasKey, NodeIdParts, VerticesAre DEF IsGraph, IInv
<1>5. EdgeIn(nodes', rels', s0, i0) = new
  BY <1>1, <1>2 DEF EdgeIn
<1>6. \A s \in Shard : \A i \in LiveRels(rels[s]) :
         EdgeIn(nodes', rels', s, i) = EdgeIn(nodes, rels, s, i)
  BY <1>1, <1>2, EdgeKept
<1> HIDE DEF s0, i0, k1, k2, new
<1>7. Edges' = Edges \cup {new}
  <2>1. ASSUME NEW e \in Edges' PROVE e \in Edges \/ e = new
    <3>1. PICK s \in Shard : \E i \in LiveRels(rels'[s]) : e = EdgeIn(nodes', rels', s, i)
      BY EdgesAre
    <3>2. PICK i \in LiveRels(rels'[s]) : e = EdgeIn(nodes', rels', s, i)
      BY <3>1
    <3>3. CASE i \in LiveRels(rels[s])
      BY <1>6, <3>2, <3>3, EdgesAre
    <3>4. CASE s = s0 /\ i = i0
      BY <1>5, <3>2, <3>4
    <3> QED  BY <1>2, <3>3, <3>4
  <2>2. ASSUME NEW e \in Edges PROVE e \in Edges'
    <3>1. PICK s \in Shard : \E i \in LiveRels(rels[s]) : e = EdgeIn(nodes, rels, s, i)
      BY EdgesAre
    <3>2. PICK i \in LiveRels(rels[s]) : e = EdgeIn(nodes, rels, s, i)
      BY <3>1
    <3>3. i \in LiveRels(rels'[s])
      BY <1>2, <3>2
    <3> QED  BY <1>6, <3>2, <3>3, EdgesAre
  <2>3. new \in Edges'
    <3>1. i0 \in LiveRels(rels'[s0])
      BY <1>2, <1>3
    <3> QED  BY <1>3, <1>5, <3>1, EdgesAre
  <2> QED  BY <2>1, <2>2, <2>3
<1>8. Vertices' = Vertices
  BY <1>1, VerticesAre
<1>9. <<s0, i0>> \notin {e.id : e \in Edges}
  <2> SUFFICES ASSUME NEW e \in Edges PROVE e.id # <<s0, i0>>
    OBVIOUS
  <2>1. PICK s \in Shard : \E i \in LiveRels(rels[s]) : e = EdgeIn(nodes, rels, s, i)
    BY EdgesAre
  <2>2. PICK i \in LiveRels(rels[s]) : e = EdgeIn(nodes, rels, s, i)
    BY <2>1
  <2>3. e.id = <<s, i>>
    BY <2>2 DEF EdgeIn
  <2> QED  BY <1>2, <2>3
<1> QED  BY <1>3, <1>4, <1>7, <1>8, <1>9 DEF Graph!Next, Graph!AddEdge, Graph!Ids, new

\* Taking a relationship out is removing its edge, and only that one.
LEMMA TakeOutIsRemoveEdge ==
    ASSUME IsGraph, TakesOut
    PROVE  Graph!Next
<1>1. PICK c \in Client : RelationshipRemoveGetIncoming(c) /\ ~UNCHANGED <<rels, outgoing>>
  BY DEF TakesOut
<1> DEFINE s0 == op[c].rel[1]
           i0 == op[c].rel[2]
<1>2. /\ <<s0, i0>> \in RelId
      /\ i0 \in LiveRels(rels[s0])
      /\ \A s \in Shard :
            LiveRels(rels'[s]) = IF s = s0 THEN LiveRels(rels[s]) \ {i0} ELSE LiveRels(rels[s])
      /\ \A s \in Shard : \A i \in LiveRels(rels'[s]) : EndsOf(rels'[s], i) = EndsOf(rels[s], i)
  BY <1>1, RemoveDoes DEF IsGraph
<1>3. UNCHANGED nodes
  BY <1>1, Zenon DEF RelationshipRemoveGetIncoming
<1> HIDE DEF s0, i0
<1>4. s0 \in Shard
  BY <1>2 DEF RelId
<1>5. \A s \in Shard : \A i \in LiveRels(rels'[s]) :
         i \in LiveRels(rels[s]) /\ EdgeIn(nodes', rels', s, i) = EdgeIn(nodes, rels, s, i)
  BY <1>2, <1>3, EdgeKept
<1>6. \A s, i : EdgeIn(nodes, rels, s, i).id = <<s, i>>
  BY DEF EdgeIn
<1>7. Edges' = {e \in Edges : e.id # <<s0, i0>>}
  <2>1. ASSUME NEW e \in Edges' PROVE e \in Edges /\ e.id # <<s0, i0>>
    <3>1. PICK s \in Shard : \E i \in LiveRels(rels'[s]) : e = EdgeIn(nodes', rels', s, i)
      BY EdgesAre
    <3>2. PICK i \in LiveRels(rels'[s]) : e = EdgeIn(nodes', rels', s, i)
      BY <3>1
    <3>3. e = EdgeIn(nodes, rels, s, i) /\ i \in LiveRels(rels[s]) /\ e.id = <<s, i>>
      BY <1>5, <1>6, <3>2
    <3>4. s # s0 \/ i # i0
      BY <1>2, <3>2
    <3> QED  BY <3>3, <3>4, EdgesAre
  <2>2. ASSUME NEW e \in Edges, e.id # <<s0, i0>> PROVE e \in Edges'
    <3>1. PICK s \in Shard : \E i \in LiveRels(rels[s]) : e = EdgeIn(nodes, rels, s, i)
      BY EdgesAre
    <3>2. PICK i \in LiveRels(rels[s]) : e = EdgeIn(nodes, rels, s, i)
      BY <3>1
    <3>3. e.id = <<s, i>>
      BY <1>6, <3>2
    <3>4. i \in LiveRels(rels'[s])
      BY <1>2, <2>2, <3>2, <3>3
    <3> QED  BY <1>5, <3>2, <3>4, EdgesAre
  <2> QED  BY <2>1, <2>2
<1>8. <<s0, i0>> \in {e.id : e \in Edges}
  <2>1. EdgeIn(nodes, rels, s0, i0) \in Edges
    BY <1>2, <1>4, EdgesAre
  <2> QED  BY <1>6, <2>1
<1>9. Vertices' = Vertices
  BY <1>3, VerticesAre
<1> QED  BY <1>2, <1>7, <1>8, <1>9 DEF Graph!Next, Graph!RemoveEdge, Graph!Ids

\* While nodes are only added, to a type that exists from the start, the shards together are
\* a property graph: every handler is one abstract step or none, and the steps take effect
\* one at a time.
THEOREM Refinement == ASSUME TypedThroughout PROVE Spec => ImplementsPropertyGraph
<1>1. Init => Graph!Init
  <2> SUFFICES ASSUME Init PROVE Vertices = {} /\ Edges = {}
    BY DEF Graph!Init
  <2>1. Vertices = {}
    BY DEF Init, Vertices, KeysHeld, EmptyNodeType
  <2>2. Edges = {}
    BY DEF Init, Edges, LiveRels, RelSlotsOf, EmptyRelationshipType
  <2> QED  BY <2>1, <2>2
<1>2. PInv /\ [Next]_vars => [Graph!Next]_(Graph!vars)
  <2> SUFFICES ASSUME PInv, [Next]_vars PROVE [Graph!Next]_(Graph!vars)
    OBVIOUS
  <2>1. CASE UNCHANGED <<nodes, rels>>
    <3>1. Vertices' = Vertices
      BY <2>1, VerticesAre
    <3>2. Edges' = Edges
      BY <2>1, EdgesAre
    <3> QED  BY <3>1, <3>2 DEF Graph!vars
  <2> QED  BY <2>1, PInvIsGraph, StepKinds, AddNodeIsAddVertex, StoreIsAddEdge, TakeOutIsRemoveEdge
<1> QED  BY PInvHolds, <1>1, <1>2, PTL DEF Spec, ImplementsPropertyGraph, Graph!Spec


-----------------------------------------------------------------------------
(* While operations only add *)

\* Clients add nodes and relationships, of a type that exists from the start.
AddsOnly == Ops \subseteq {"addNode", "addRel"} /\ TypeAtStart

OnlyAddsUnderWay == \A c \in Client : op[c].step \in {"idle", "addOutgoing", "addIncoming"}

\* The second half of an add, x, is about the relationship the first half stored.
SecondHalfOf(x, stores) ==
    x.step = "addIncoming" =>
        /\ x.rel[2] \in LiveRels(stores[x.rel[1]])
        /\ EndsOf(stores[x.rel[1]], x.rel[2]) = [from |-> x.node, to |-> x.other]

SecondHalves == \A c \in Client : SecondHalfOf(op[c], rels)

Owed(s, i) == \E c \in Client : At(c, "addIncoming") /\ op[c].rel = <<s, i>>

BothSides == IInv /\ OwnerSide /\ EndsAreNodes /\ SecondHalves /\ MirrorIsOwed

MInv == PInv /\ OnlyAddsUnderWay /\ SecondHalves /\ MirrorIsOwed

LEMMA MInvHasBothSides == MInv => BothSides
BY DEF MInv, PInv, OInv, BothSides

-----------------------------------------------------------------------------
(* What a step that only adds has to show *)

\* Relationships stay, and so do links.
RelsGrow ==
    \A s \in Shard : \A i \in LiveRels(rels[s]) :
        i \in LiveRels(rels'[s]) /\ EndsOf(rels'[s], i) = EndsOf(rels[s], i)

LinksGrow == \A s \in Shard : \A j \in Slot : incoming[s][j] \subseteq incoming'[s][j]

LEMMA MirrorIs ==
    /\ \A s, i : Mirrored(s, i) <=>
          [rel |-> <<s, i>>, node |-> EndsOf(rels[s], i).from]
              \in incoming[EndsOf(rels[s], i).to[1]][EndsOf(rels[s], i).to[2]]
    /\ \A s, i : Mirrored(s, i)' <=>
          [rel |-> <<s, i>>, node |-> EndsOf(rels'[s], i).from]
              \in incoming'[EndsOf(rels'[s], i).to[1]][EndsOf(rels'[s], i).to[2]]
BY DEF Mirrored

LEMMA MirrorsStay ==
    ASSUME BothSides, RelsGrow, LinksGrow,
           \A s \in Shard : \A i \in LiveRels(rels'[s]) \ LiveRels(rels[s]) :
               Mirrored(s, i)' \/ Owed(s, i)',
           \A s \in Shard : \A i \in LiveRels(rels[s]) :
               Owed(s, i) => Mirrored(s, i)' \/ Owed(s, i)',
           \A s \in Shard : \A j \in Slot : \A l \in incoming'[s][j] \ incoming[s][j] :
               MirrorsARel(<<s, j>>, l)'
    PROVE  MirrorIsOwed'
<1>1. ASSUME NEW s \in Shard, NEW i \in LiveRels(rels[s]), Mirrored(s, i)
      PROVE  Mirrored(s, i)'
  <2> DEFINE ends == EndsOf(rels[s], i)
  <2>1. ends \in [from : {s} \X Slot, to : NodeId]
    BY DEF BothSides, OwnerSide, RelsAreLinked
  <2>2. ends.to[1] \in Shard /\ ends.to[2] \in Slot
    BY <2>1, NodeIdParts
  <2>3. EndsOf(rels'[s], i) = ends
    BY DEF RelsGrow
  <2> HIDE DEF ends
  <2>4. [rel |-> <<s, i>>, node |-> ends.from] \in incoming[ends.to[1]][ends.to[2]]
    BY <1>1, MirrorIs DEF ends
  <2> QED  BY <2>2, <2>3, <2>4, MirrorIs DEF LinksGrow
<1>2. ASSUME NEW s \in Shard, NEW i \in LiveRels(rels'[s])
      PROVE  Mirrored(s, i)' \/ Owed(s, i)'
  <2>1. CASE i \in LiveRels(rels[s])
    <3>1. Mirrored(s, i) \/ Owed(s, i)
      BY <2>1 DEF BothSides, MirrorIsOwed, Owed
    <3> QED  BY <1>1, <2>1, <3>1
  <2> QED  BY <2>1
<1>3. ASSUME NEW s \in Shard, NEW j \in Slot, NEW l \in incoming'[s][j]
      PROVE  MirrorsARel(<<s, j>>, l)'
  <2>1. CASE l \in incoming[s][j]
    <3>1. MirrorsARel(<<s, j>>, l)
      BY <2>1 DEF BothSides, MirrorIsOwed
    <3>2. l.rel[1] \in Shard
      <4>1. l \in Link
        BY <2>1 DEF BothSides, IInv, LinksOK
      <4> QED  BY <4>1, NodeIdParts DEF Link
    <3> QED  BY <3>1, <3>2 DEF RelsGrow, MirrorsARel
  <2> QED  BY <2>1
<1> QED  BY <1>2, <1>3 DEF MirrorIsOwed, Owed

LEMMA SecondHalvesStay ==
    ASSUME BothSides, RelsGrow,
           \A d \in Client : op'[d] = op[d] \/ SecondHalfOf(op'[d], rels')
    PROVE  SecondHalves'
<1> SUFFICES ASSUME NEW d \in Client PROVE SecondHalfOf(op'[d], rels')
  BY DEF SecondHalves, SecondHalfOf
<1>1. CASE op'[d] = op[d]
  <2>1. SecondHalfOf(op[d], rels)
    BY DEF BothSides, SecondHalves
  <2>2. op[d].step = "addIncoming" => op[d].rel[1] \in Shard
    BY NodeIdParts DEF BothSides, IInv, OpsOK, Carries
  <2> QED  BY <1>1, <2>1, <2>2 DEF SecondHalfOf, RelsGrow
<1> QED  BY <1>1

\* Adding a link to one node.
LEMMA LinkInDoes ==
    ASSUME IInv, NEW n \in NodeId, NEW link, LinkIn(n, link)
    PROVE  \A s \in Shard : \A j \in Slot :
              incoming'[s][j] = IF <<s, j>> = n THEN incoming[s][j] \cup {link} ELSE incoming[s][j]
<1>1. n = <<n[1], n[2]>> /\ n[1] \in Shard /\ n[2] \in Slot
  BY DEF NodeId
<1>2. incoming' = [incoming EXCEPT ![n[1]][n[2]] = @ \cup {link}]
  BY DEF LinkIn
<1>3. incoming \in [Shard -> [Slot -> SUBSET Link]]
  BY DEF IInv, LinksOK
<1> DEFINE s0 == n[1]
           j0 == n[2]
<1>4. n = <<s0, j0>> /\ s0 \in Shard /\ j0 \in Slot
      /\ incoming' = [incoming EXCEPT ![s0][j0] = @ \cup {link}]
  BY <1>1, <1>2
<1> HIDE DEF s0, j0
<1> QED  BY <1>3, <1>4

LEMMA StoreGrows ==
    ASSUME IInv, NEW n1 \in NodeId, NEW n2 \in NodeId, HasRelRoom(rels[n1[1]]), StoreRel(n1, n2)
    PROVE  /\ RelsGrow
           /\ \A s \in Shard : \A i \in LiveRels(rels'[s]) \ LiveRels(rels[s]) : <<s, i>> = NewRel(n1)
           /\ NewRel(n1)[1] \in Shard
           /\ NewRel(n1)[2] \in LiveRels(rels'[NewRel(n1)[1]])
           /\ EndsOf(rels'[NewRel(n1)[1]], NewRel(n1)[2]) = [from |-> n1, to |-> n2]
<1> DEFINE s0 == n1[1]
           i0 == NextRel(rels[s0])
<1>1. /\ \A s \in Shard :
            LiveRels(rels'[s]) = IF s = s0 THEN LiveRels(rels[s]) \cup {i0} ELSE LiveRels(rels[s])
      /\ EndsOf(rels'[s0], i0) = [from |-> n1, to |-> n2]
      /\ \A s \in Shard : \A i \in LiveRels(rels[s]) : EndsOf(rels'[s], i) = EndsOf(rels[s], i)
  BY StoreDoes
<1>2. s0 \in Shard
  BY NodeIdParts
<1>3. NewRel(n1) = <<s0, i0>>
  BY DEF NewRel
<1> HIDE DEF s0, i0
<1>4. RelsGrow
  BY <1>1 DEF RelsGrow
<1>5. NewRel(n1)[1] = s0 /\ NewRel(n1)[2] = i0
  BY <1>3
<1>6. \A s \in Shard : \A i \in LiveRels(rels'[s]) \ LiveRels(rels[s]) : <<s, i>> = <<s0, i0>>
  BY <1>1
<1>7. i0 \in LiveRels(rels'[s0])
  BY <1>1, <1>2
<1> QED  BY <1>1, <1>2, <1>3, <1>4, <1>5, <1>6, <1>7

-----------------------------------------------------------------------------
(* The handlers *)

\* The starting node's and the ending node's record in one handler: nothing is owed.
LEMMA SameShardMirrors ==
    ASSUME BothSides, NEW c \in Client, NEW n1 \in NodeId, NEW n2 \in NodeId, RelationshipAddSameShard(c, n1, n2)
    PROVE  SecondHalves' /\ MirrorIsOwed'
<1> DEFINE link == [rel |-> NewRel(n1), node |-> n1]
           r == NewRel(n1)
<1>1. /\ HasRelRoom(rels[n1[1]]) /\ StoreRel(n1, n2) /\ LinkIn(n2, link)
      /\ op' = op
  BY DEF RelationshipAddSameShard
<1>2. IInv
  BY DEF BothSides
<1>3. /\ RelsGrow
      /\ \A s \in Shard : \A i \in LiveRels(rels'[s]) \ LiveRels(rels[s]) : <<s, i>> = r
      /\ r[1] \in Shard /\ r[2] \in LiveRels(rels'[r[1]])
      /\ EndsOf(rels'[r[1]], r[2]) = [from |-> n1, to |-> n2]
  BY <1>1, <1>2, StoreGrows
<1>4. \A s \in Shard : \A j \in Slot :
         incoming'[s][j] = IF <<s, j>> = n2 THEN incoming[s][j] \cup {link} ELSE incoming[s][j]
  BY <1>1, <1>2, LinkInDoes
<1>5. n2 = <<n2[1], n2[2]>> /\ n2[1] \in Shard /\ n2[2] \in Slot
  BY DEF NodeId
<1>6. link.rel = r /\ link.node = n1 /\ link = [rel |-> r, node |-> n1]
  OBVIOUS
<1> HIDE DEF link, r
<1>7. LinksGrow
  BY <1>4 DEF LinksGrow
<1>8. link \in incoming'[n2[1]][n2[2]]
  BY <1>4, <1>5
<1>9. ASSUME NEW s \in Shard, NEW i \in LiveRels(rels'[s]) \ LiveRels(rels[s])
      PROVE  Mirrored(s, i)'
  <2>1. <<s, i>> = r /\ r[1] = s /\ r[2] = i
    BY <1>3
  <2>2. EndsOf(rels'[s], i) = [from |-> n1, to |-> n2]
    BY <1>3, <2>1
  <2> QED  BY <1>6, <1>8, <2>1, <2>2, MirrorIs
<1>10. ASSUME NEW s \in Shard, NEW j \in Slot, NEW l \in incoming'[s][j] \ incoming[s][j]
       PROVE  MirrorsARel(<<s, j>>, l)'
  <2>1. l = link /\ <<s, j>> = n2
    BY <1>4
  <2> QED  BY <1>3, <1>6, <2>1 DEF MirrorsARel
<1>11. \A s, i : Owed(s, i) => Owed(s, i)'
  BY <1>1 DEF Owed, At
<1>13. SecondHalves'
  BY <1>1, <1>3, SecondHalvesStay
<1>14. MirrorIsOwed'
  BY <1>3, <1>7, <1>9, <1>10, <1>11, MirrorsStay
<1> QED  BY <1>13, <1>14

\* The first half: the relationship is stored, and the operation has its second half before it.
LEMMA FirstHalfOwes ==
    ASSUME BothSides, NEW c \in Client, RelationshipAddToOutgoing(c)
    PROVE  SecondHalves' /\ MirrorIsOwed'
<1> DEFINE n1 == IF op[c].key = NoKey THEN op[c].node ELSE NodeGetID(op[c].key)
           n2 == op[c].other
           r == NewRel(n1)
           x == [op[c] EXCEPT !.step = "addIncoming", !.node = n1, !.rel = r]
<1>1. IInv /\ op \in [Client -> Context] /\ op[c] \in Context
  BY DEF BothSides, IInv, OpsOK
<1>2. /\ op[c].step = "addOutgoing"
      /\ incoming' = incoming
  BY DEF RelationshipAddToOutgoing, At
<1>3. n2 \in NodeId
  BY <1>1, <1>2 DEF IInv, OpsOK, Carries
<1>4. ASSUME NEW s, NEW i, Owed(s, i)
      PROVE  \E d \in Client \ {c} : op[d].step = "addIncoming" /\ op[d].rel = <<s, i>>
  BY <1>2, <1>4 DEF Owed, At
<1>5. LinksGrow
  BY <1>2 DEF LinksGrow
<1>6. CASE /\ IF op[c].key = NoKey THEN Valid(n1) ELSE n1 # NoId
           /\ HasRelRoom(rels[n1[1]])
           /\ StoreRel(n1, n2)
           /\ Become(c, x)
  <2>1. n1 \in NodeId
    <3>1. CASE op[c].key = NoKey
      BY <1>1, <1>6, <3>1 DEF Valid, Context
    <3>2. CASE op[c].key # NoKey
      BY <1>1, <1>6, <3>2, NodeGetIDIsNode DEF Context, IInv
    <3> QED  BY <3>1, <3>2
  <2>2. /\ x.step = "addIncoming" /\ x.node = n1 /\ x.rel = r /\ x.other = n2
    BY <1>1 DEF Context
  <2>3. \A d \in Client : op'[d] = IF d = c THEN x ELSE op[d]
    <3> HIDE DEF x
    <3> QED  BY <1>1, <1>6 DEF Become
  <2>4. /\ RelsGrow
        /\ \A s \in Shard : \A i \in LiveRels(rels'[s]) \ LiveRels(rels[s]) : <<s, i>> = r
        /\ r[1] \in Shard /\ r[2] \in LiveRels(rels'[r[1]])
        /\ EndsOf(rels'[r[1]], r[2]) = [from |-> n1, to |-> n2]
    BY <1>1, <1>3, <1>6, <2>1, StoreGrows
  <2> HIDE DEF n1, n2, r, x
  <2>6. SecondHalfOf(x, rels')
    BY <2>2, <2>4 DEF SecondHalfOf
  <2>7. SecondHalves'
    BY <2>3, <2>4, <2>6, SecondHalvesStay
  <2>8. ASSUME NEW s \in Shard, NEW i, Owed(s, i) \/ <<s, i>> = r PROVE Owed(s, i)'
    <3>1. \E d \in Client : op'[d].step = "addIncoming" /\ op'[d].rel = <<s, i>>
      BY <1>4, <2>2, <2>3, <2>8
    <3> QED  BY <3>1 DEF Owed, At
  <2>9. MirrorIsOwed'
    BY <1>2, <1>5, <2>4, <2>8, MirrorsStay
  <2> QED  BY <2>7, <2>9
<1>7. CASE Become(c, Idle) /\ UNCHANGED rels
  <2>1. \A d \in Client : op'[d] = IF d = c THEN Idle ELSE op[d]
    BY <1>1, <1>7 DEF Become
  <2>2. Idle.step = "idle"
    BY DEF Idle
  <2>3. RelsGrow
    BY <1>7 DEF RelsGrow
  <2>5. SecondHalves'
    BY <2>1, <2>2, <2>3, SecondHalvesStay DEF SecondHalfOf
  <2>6. ASSUME NEW s, NEW i, Owed(s, i) PROVE Owed(s, i)'
    BY <1>4, <2>1, <2>6 DEF Owed, At
  <2>7. MirrorIsOwed'
    BY <1>2, <1>5, <1>7, <2>3, <2>6, MirrorsStay
  <2> QED  BY <2>5, <2>7
<1> QED  BY <1>6, <1>7 DEF RelationshipAddToOutgoing

\* The second half pays what the operation owed: the ending node is still there to be told.
LEMMA SecondHalfPays ==
    ASSUME BothSides, NEW c \in Client, RelationshipAddToIncoming(c)
    PROVE  SecondHalves' /\ MirrorIsOwed'
<1> DEFINE n1 == op[c].node
           n2 == op[c].other
           r == op[c].rel
           link == [rel |-> r, node |-> n1]
<1>1. IInv /\ op \in [Client -> Context]
  BY DEF BothSides, IInv, OpsOK
<1>2. /\ op[c].step = "addIncoming"
      /\ rels' = rels
      /\ Become(c, Idle)
  BY DEF RelationshipAddToIncoming, At
<1>3. n2 \in NodeId /\ r \in RelId
  BY <1>1, <1>2 DEF IInv, OpsOK, Carries
<1>4. /\ r = <<r[1], r[2]>> /\ r[1] \in Shard
      /\ n2 = <<n2[1], n2[2]>> /\ n2[1] \in Shard /\ n2[2] \in Slot
  BY <1>3 DEF RelId, NodeId
<1>5. r[2] \in LiveRels(rels[r[1]]) /\ EndsOf(rels[r[1]], r[2]) = [from |-> n1, to |-> n2]
  BY <1>2 DEF BothSides, SecondHalves, SecondHalfOf
<1>6. n2[2] \in SlotsOf(nodes[n2[1]])
  <2>1. IsLive(n2)
    BY <1>4, <1>5 DEF BothSides, EndsAreNodes
  <2> QED  BY <2>1 DEF IsLive, LiveSlots
<1>7. LinkIn(n2, link)
  BY <1>6 DEF RelationshipAddToIncoming
<1>8. \A s \in Shard : \A j \in Slot :
         incoming'[s][j] = IF <<s, j>> = n2 THEN incoming[s][j] \cup {link} ELSE incoming[s][j]
  <2> HIDE DEF link, n2
  <2> QED  BY <1>1, <1>3, <1>7, LinkInDoes
<1>9. link.rel = r /\ link.node = n1 /\ link = [rel |-> r, node |-> n1]
  OBVIOUS
<1>10. \A d \in Client : op'[d] = IF d = c THEN Idle ELSE op[d]
  BY <1>1, <1>2 DEF Become
<1>11. Idle.step = "idle"
  BY DEF Idle
<1>12. ASSUME NEW s, NEW i, Owed(s, i)
       PROVE  <<s, i>> = r \/ \E d \in Client \ {c} : op[d].step = "addIncoming" /\ op[d].rel = <<s, i>>
  BY <1>12 DEF Owed, At
<1> HIDE DEF n1, n2, r, link
<1>13. RelsGrow /\ LinksGrow
  BY <1>2, <1>8 DEF RelsGrow, LinksGrow
<1>15. SecondHalves'
  BY <1>10, <1>11, <1>13, SecondHalvesStay DEF SecondHalfOf
<1>16. ASSUME NEW s \in Shard, NEW i \in LiveRels(rels[s]), Owed(s, i)
       PROVE  Mirrored(s, i)' \/ Owed(s, i)'
  <2>1. CASE <<s, i>> = r
    <3>1. r[1] = s /\ r[2] = i
      BY <2>1
    <3>2. EndsOf(rels'[s], i) = [from |-> n1, to |-> n2]
      BY <1>2, <1>5, <3>1
    <3>3. link \in incoming'[n2[1]][n2[2]]
      BY <1>4, <1>8
    <3> QED  BY <1>9, <2>1, <3>2, <3>3, MirrorIs
  <2>2. CASE <<s, i>> # r
    <3>1. \E d \in Client : op'[d].step = "addIncoming" /\ op'[d].rel = <<s, i>>
      BY <1>10, <1>12, <1>16, <2>2
    <3> QED  BY <3>1 DEF Owed, At
  <2> QED  BY <2>1, <2>2
<1>17. ASSUME NEW s \in Shard, NEW j \in Slot, NEW l \in incoming'[s][j] \ incoming[s][j]
       PROVE  MirrorsARel(<<s, j>>, l)'
  <2>1. l = link /\ <<s, j>> = n2
    BY <1>8
  <2> QED  BY <1>2, <1>5, <1>9, <2>1 DEF MirrorsARel
<1>18. MirrorIsOwed'
  BY <1>2, <1>13, <1>16, <1>17, MirrorsStay
<1> QED  BY <1>15, <1>18

\* Handlers that write neither relationships nor incoming links, and owe nothing afterwards.
LEMMA NothingOwed ==
    ASSUME BothSides, UNCHANGED <<rels, incoming>>,
           \/ op' = op
           \/ \E c \in Client : \E x : /\ op[c].step # "addIncoming"
                                       /\ Become(c, x)
                                       /\ x.step # "addIncoming"
    PROVE  SecondHalves' /\ MirrorIsOwed'
<1>1. op \in [Client -> Context]
  BY DEF BothSides, IInv, OpsOK
<1>2. \A d \in Client : op'[d] = op[d] \/ (op[d].step # "addIncoming" /\ op'[d].step # "addIncoming")
  <2>1. CASE op' = op
    BY <2>1
  <2>2. ASSUME NEW c \in Client, NEW x, op[c].step # "addIncoming", Become(c, x), x.step # "addIncoming"
        PROVE  \A d \in Client :
                  op'[d] = op[d] \/ (op[d].step # "addIncoming" /\ op'[d].step # "addIncoming")
    BY <1>1, <2>2 DEF Become
  <2> QED  BY <2>1, <2>2
<1>3. RelsGrow /\ LinksGrow
  BY DEF RelsGrow, LinksGrow
<1>4. SecondHalves'
  BY <1>2, <1>3, SecondHalvesStay DEF SecondHalfOf
<1>5. \A s, i : Owed(s, i) => Owed(s, i)'
  BY <1>2 DEF Owed, At
<1>6. MirrorIsOwed'
  BY <1>3, <1>5, MirrorsStay
<1> QED  BY <1>4, <1>6

-----------------------------------------------------------------------------
(* The mirror theorem *)

LEMMA NextMInv == ASSUME AddsOnly PROVE MInv /\ [Next]_vars => MInv'
<1> SUFFICES ASSUME MInv, [Next]_vars PROVE MInv'
  OBVIOUS
<1>1. TypedThroughout
  BY DEF AddsOnly, TypedThroughout, NodesStay
<1>2. PInv' /\ BothSides /\ op \in [Client -> Context]
  BY <1>1, NextPInv, MInvHasBothSides DEF MInv, BothSides, IInv, OpsOK
<1> SUFFICES OnlyAddsUnderWay' /\ SecondHalves' /\ MirrorIsOwed'
  BY <1>2 DEF MInv
<1>3. ASSUME op' = op PROVE OnlyAddsUnderWay'
  BY <1>3 DEF MInv, OnlyAddsUnderWay
<1>4. ASSUME NEW c \in Client, NEW x, Become(c, x), x.step \in {"idle", "addOutgoing", "addIncoming"}
      PROVE  OnlyAddsUnderWay'
  BY <1>2, <1>4 DEF MInv, OnlyAddsUnderWay, Become
<1>5. Idle.step = "idle"
  BY DEF Idle
<1>6. ASSUME \/ UNCHANGED vars
             \/ \E c \in Client : (\E k \in Key : AddNode(c, k)) \/ RelationshipTypeInsert(c)
      PROVE  OnlyAddsUnderWay' /\ SecondHalves' /\ MirrorIsOwed'
  <2>1. UNCHANGED <<rels, incoming, op>>
    BY <1>6 DEF vars, AddNode, RelationshipTypeInsert
  <2> QED  BY <1>2, <1>3, <2>1, NothingOwed
<1>7. ASSUME NEW c \in Client, NEW n1 \in NodeId, NEW n2 \in NodeId, RelationshipAddById(c, n1, n2)
      PROVE  OnlyAddsUnderWay' /\ SecondHalves' /\ MirrorIsOwed'
  <2> DEFINE x == [Idle EXCEPT !.step = "addOutgoing", !.node = n1, !.other = n2]
  <2>1. Become(c, x) /\ op[c] = Idle /\ UNCHANGED <<rels, incoming>>
    BY <1>7 DEF RelationshipAddById, Starts, graph
  <2>2. x.step = "addOutgoing"
    BY DEF Idle
  <2> HIDE DEF x
  <2>3. op[c].step # "addIncoming" /\ x.step # "addIncoming"
    BY <1>5, <2>1, <2>2
  <2>4. OnlyAddsUnderWay'
    BY <1>4, <2>1, <2>2
  <2> QED  BY <1>2, <2>1, <2>3, <2>4, NothingOwed
<1>8. ASSUME NEW c \in Client, NEW k1 \in Key, NEW k2 \in Key, RelationshipAddByKey(c, k1, k2)
      PROVE  OnlyAddsUnderWay' /\ SecondHalves' /\ MirrorIsOwed'
  <2> DEFINE x == [Idle EXCEPT !.step = "addOutgoing", !.key = k1, !.other = NodeGetID(k2)]
  <2>1. Become(c, x) /\ op[c] = Idle /\ UNCHANGED <<rels, incoming>>
    BY <1>8 DEF RelationshipAddByKey, Starts, graph
  <2>2. x.step = "addOutgoing"
    BY DEF Idle
  <2> HIDE DEF x
  <2>3. op[c].step # "addIncoming" /\ x.step # "addIncoming"
    BY <1>5, <2>1, <2>2
  <2>4. OnlyAddsUnderWay'
    BY <1>4, <2>1, <2>2
  <2> QED  BY <1>2, <2>1, <2>3, <2>4, NothingOwed
<1>9. ASSUME NEW c \in Client, NEW n1 \in NodeId, NEW n2 \in NodeId, RelationshipAddSameShard(c, n1, n2)
      PROVE  OnlyAddsUnderWay' /\ SecondHalves' /\ MirrorIsOwed'
  <2>1. op' = op
    BY <1>9 DEF RelationshipAddSameShard
  <2> QED  BY <1>2, <1>3, <1>9, <2>1, SameShardMirrors
<1>10. ASSUME NEW c \in Client, RelationshipAddToOutgoing(c) \/ RelationshipAddToIncoming(c)
       PROVE  OnlyAddsUnderWay' /\ SecondHalves' /\ MirrorIsOwed'
  <2>1. \E x : Become(c, x) /\ x.step \in {"idle", "addIncoming"}
    <3>1. op[c] \in Context
      BY <1>2
    <3>2. \A n, r : [op[c] EXCEPT !.step = "addIncoming", !.node = n, !.rel = r].step = "addIncoming"
      BY <3>1 DEF Context
    <3> QED  BY <1>5, <1>10, <3>2 DEF RelationshipAddToOutgoing, RelationshipAddToIncoming
  <2>2. OnlyAddsUnderWay'
    BY <1>4, <2>1
  <2> QED  BY <1>2, <1>10, <2>2, FirstHalfOwes, SecondHalfPays
<1>11. ASSUME NEW c \in Client
      PROVE  /\ \A n1, n2 \in NodeId : ~RelationshipAddNewType(c, n1, n2)
             /\ ~CheckNewType(c)
             /\ \A r \in RelId : ~RemoveRelationship(c, r)
             /\ ~RelationshipRemoveGetIncoming(c) /\ ~RelationshipRemoveIncoming(c)
             /\ \A k \in Key : ~RemoveNodeByKey(c, k)
             /\ \A n \in NodeId : ~RemoveNodeById(c, n)
             /\ ~CheckNode(c) /\ ~NodeRemoveGetIncoming(c) /\ ~NodeRemoveGetOutgoing(c)
             /\ \A m \in NodeId : ~NodeRemoveDeleteIncoming(c, m) /\ ~NodeRemoveDeleteOutgoing(c, m)
             /\ ~RemoveNode(c)
  <2>1. typed /\ ~Starts(c, "removeRel") /\ ~Starts(c, "removeNode")
    BY DEF MInv, PInv, AddsOnly, Starts
  <2>2. \A step \in Step \ {"idle", "addOutgoing", "addIncoming"} : ~At(c, step)
    BY DEF MInv, OnlyAddsUnderWay, At
  <2> QED
    BY <2>1, <2>2, Zenon
       DEF Step, RelationshipAddNewType, CheckNewType, RemoveRelationship,
           RelationshipRemoveGetIncoming, RelationshipRemoveIncoming, RemoveNodeByKey,
           RemoveNodeById, CheckNode, NodeRemoveGetIncoming, NodeRemoveDeleteIncoming,
           NodeRemoveGetOutgoing, NodeRemoveDeleteOutgoing, RemoveNode
<1>12. CASE Next
  BY <1>6, <1>7, <1>8, <1>9, <1>10, <1>11, <1>12 DEF Next
<1> QED  BY <1>6, <1>12

LEMMA InitMInv == ASSUME AddsOnly PROVE Init => MInv
<1> SUFFICES ASSUME Init PROVE MInv
  OBVIOUS
<1>1. TypedThroughout
  BY DEF AddsOnly, TypedThroughout, NodesStay
<1>2. PInv
  BY <1>1, InitPInv
<1>3. OnlyAddsUnderWay /\ SecondHalves
  BY DEF Init, OnlyAddsUnderWay, SecondHalves, SecondHalfOf, Idle
<1>4. MirrorIsOwed
  BY DEF Init, MirrorIsOwed, LiveRels, RelSlotsOf, EmptyRelationshipType
<1> QED  BY <1>2, <1>3, <1>4 DEF MInv

\* While operations only add, to a type that exists from the start, a relationship its ending
\* node does not know of has the handler under way that will tell it, and every link back has
\* its relationship, although the two halves of an add run on two shards.
THEOREM MirrorIsOwedHolds == ASSUME AddsOnly PROVE Spec => []MirrorIsOwed
<1>1. MInv => MirrorIsOwed
  BY DEF MInv
<1> QED  BY InitMInv, NextMInv, <1>1, PTL DEF Spec

-----------------------------------------------------------------------------
(* One operation at a time, of any kind *)

\* One client, a relationship type that exists from the start, and no removal of a node that
\* has links to another shard.
Sequential == (\A c, d \in Client : c = d) /\ TypeAtStart /\ ~FarRemovals

RemovesNode == {"checkNode", "getIncoming", "deleteIncoming", "deleteOutgoing"}

\* What the operation under way has made sure of, in the handler it has come to.
Stands(c) ==
    /\ op[c].step # "checkNewType"
    /\ op[c].step = "addOutgoing" => IsLive(op[c].other)
    /\ op[c].step = "removeOutgoing" => op[c].rel[2] \in LiveRels(rels[op[c].rel[1]])
    /\ op[c].step = "removeIncoming" => op[c].rel[2] \notin LiveRels(rels[op[c].rel[1]])
    /\ op[c].step \in RemovesNode => ~HasFarNeighbours(op[c].node)
    /\ op[c].step \in {"deleteIncoming", "deleteOutgoing"} => op[c].ids = {}

\* Link l to node <<s, j>> is of a relationship that is half removed: the next handler takes it.
Leftover(s, j, l) ==
    \E c \in Client : At(c, "removeIncoming") /\ op[c].rel = l.rel /\ op[c].other = <<s, j>>

LinksBack ==
    \A s \in Shard :
        /\ \A i \in LiveRels(rels[s]) : Mirrored(s, i) \/ Owed(s, i)
        /\ \A j \in Slot : \A l \in incoming[s][j] : MirrorsARel(<<s, j>>, l) \/ Leftover(s, j, l)

\* A node with incoming links has a Group for them.
GroupsAreThere == \A s \in Shard : \A j \in Slot : incoming[s][j] # {} => j \in grouped[s]

SInv ==
    /\ IsGraph
    /\ typed
    /\ \A c \in Client : Stands(c)
    /\ SecondHalves
    /\ LinksBack
    /\ GroupsAreThere

-----------------------------------------------------------------------------
(* One operation at a time *)

LEMMA OnlyOne ==
    ASSUME Sequential, IInv, NEW c \in Client
    PROVE  /\ \A d \in Client : d = c
           /\ \A x : Become(c, x) => \A d \in Client : op'[d] = x
BY DEF Sequential, IInv, OpsOK, Become

\* While nothing is half removed, both directions are as they are when operations only add.
LEMMA NothingHalfRemoved ==
    ASSUME SInv, \A c \in Client : op[c].step # "removeIncoming"
    PROVE  BothSides
<1>1. MirrorIsOwed
  BY DEF SInv, LinksBack, Leftover, At, MirrorIsOwed, Owed
<1> QED  BY <1>1 DEF SInv, IsGraph, BothSides

LEMMA MirrorMakesLinksBack == MirrorIsOwed' => LinksBack'
BY DEF MirrorIsOwed, LinksBack, Owed

LEMMA SameGraph ==
    ASSUME IsGraph, IInv', UNCHANGED <<nodes, rels, outgoing>>
    PROVE  IsGraph'
<1>1. OwnerSide'
  BY OwnerKept DEF IsGraph
<1>2. KeysAtHome' /\ EndsAreNodes'
  BY DEF IsGraph, KeysAtHome, EndsAreNodes, IsLive
<1> QED  BY <1>1, <1>2 DEF IsGraph

\* A handler that finds out where to go on, and writes nothing.
LEMMA MovesOn ==
    ASSUME Sequential, SInv, IInv', NEW c \in Client, NEW x, Become(c, x), UNCHANGED graph,
           op[c].step \notin {"addIncoming", "removeIncoming"},
           x.step \notin {"addIncoming", "removeIncoming"},
           Stands(c)'
    PROVE  SInv'
<1>1. (\A d \in Client : d = c) /\ IInv
  BY OnlyOne DEF SInv, IsGraph
<1>2. BothSides
  BY <1>1, NothingHalfRemoved
<1>3. SecondHalves' /\ LinksBack'
  BY <1>2, NothingOwed, MirrorMakesLinksBack DEF graph
<1>4. IsGraph'
  BY SameGraph DEF SInv, graph
<1>5. typed' /\ GroupsAreThere'
  BY DEF SInv, graph, GroupsAreThere
<1>6. \A d \in Client : Stands(d)'
  BY <1>1
<1> QED  BY <1>3, <1>4, <1>5, <1>6 DEF SInv

\* Nobody waits for anything when nothing is under way.
LEMMA IdleIsNotAsked ==
    ASSUME Sequential, SInv, NEW c \in Client, op[c] = Idle
    PROVE  \A d \in Client : op[d].step = "idle"
BY OnlyOne DEF SInv, IsGraph, Idle

LEMMA StandsIdle == \A c \in Client : op'[c].step = "idle" => Stands(c)'
BY DEF Stands, RemovesNode

-----------------------------------------------------------------------------
(* Adding *)

LEMMA AddNodeIsSound ==
    ASSUME Sequential, SInv, IInv', NEW c \in Client, NEW k \in Key, AddNode(c, k)
    PROVE  SInv'
<1>1. /\ \A n \in NodeId : IsLive(n) => StillLive(n)
      /\ \A s \in Shard : KeysHeld(nodes'[s]) =
            IF s = ShardOf[k] THEN KeysHeld(nodes[s]) \cup {k} ELSE KeysHeld(nodes[s])
  BY AddNodeDoes DEF SInv, IsGraph
<1>2. UNCHANGED <<rels, outgoing, incoming, grouped, typed, op>> /\ op[c] = Idle
  BY DEF AddNode, Starts
<1>3. \A d \in Client : op[d].step = "idle"
  BY <1>2, IdleIsNotAsked
<1>4. BothSides
  BY <1>3, NothingHalfRemoved
<1>5. SecondHalves' /\ LinksBack'
  BY <1>2, <1>4, NothingOwed, MirrorMakesLinksBack
<1>6. EndsAreNodes'
  BY <1>1, <1>2, EndsKept DEF SInv
<1>7. KeysAtHome'
  <2>1. \A s \in Shard : \A j \in KeysHeld(nodes'[s]) : ShardOf[j] = s
    BY <1>1 DEF SInv, IsGraph, KeysAtHome
  <2> QED  BY <2>1 DEF KeysAtHome
<1>8. OwnerSide'
  BY <1>2, OwnerKept DEF SInv, IsGraph
<1>9. \A d \in Client : Stands(d)'
  BY <1>2, <1>3, StandsIdle
<1>10. GroupsAreThere'
  BY <1>2 DEF SInv, GroupsAreThere
<1> QED  BY <1>2, <1>5, <1>6, <1>7, <1>8, <1>9, <1>10 DEF SInv, IsGraph

\* A link more, to a node whose Group is there when it has one.
LEMMA GroupsStay ==
    ASSUME SInv, NEW n \in NodeId, NEW link, LinkIn(n, link)
    PROVE  GroupsAreThere'
<1>1. /\ \A s \in Shard : \A j \in Slot :
            incoming'[s][j] = IF <<s, j>> = n THEN incoming[s][j] \cup {link} ELSE incoming[s][j]
      /\ grouped \in [Shard -> SUBSET Slot]
  BY LinkInDoes DEF SInv, IsGraph, IInv, LinksOK
<1>2. grouped' = [grouped EXCEPT ![n[1]] = @ \cup {n[2]}]
  BY DEF LinkIn
<1> SUFFICES ASSUME NEW s \in Shard, NEW j \in Slot, incoming'[s][j] # {} PROVE j \in grouped'[s]
  BY DEF GroupsAreThere
<1>3. CASE <<s, j>> = n
  <2>1. n[1] = s /\ n[2] = j
    BY <1>3
  <2> QED  BY <1>1, <1>2, <2>1
<1>4. CASE <<s, j>> # n
  <2>1. j \in grouped[s]
    BY <1>1, <1>4 DEF SInv, GroupsAreThere
  <2> QED  BY <1>1, <1>2, <2>1
<1> QED  BY <1>3, <1>4

LEMMA SameShardIsSound ==
    ASSUME Sequential, SInv, IInv', NEW c \in Client, NEW n1 \in NodeId, NEW n2 \in NodeId,
           RelationshipAddSameShard(c, n1, n2)
    PROVE  SInv'
<1>1. /\ op[c] = Idle /\ UNCHANGED <<nodes, typed, op>>
      /\ Valid(n1) /\ Valid(n2) /\ HasRelRoom(rels[n1[1]]) /\ StoreRel(n1, n2)
      /\ LinkOut(n1, [rel |-> NewRel(n1), node |-> n2])
      /\ LinkIn(n2, [rel |-> NewRel(n1), node |-> n1])
  BY DEF RelationshipAddSameShard, Starts
<1>2. \A d \in Client : op[d].step = "idle"
  BY <1>1, IdleIsNotAsked
<1>3. BothSides
  BY <1>2, NothingHalfRemoved
<1>4. SecondHalves' /\ LinksBack'
  BY <1>3, SameShardMirrors, MirrorMakesLinksBack
<1>5. IInv /\ NodesOK /\ OwnerSide
  BY DEF SInv, IsGraph, IInv
<1>6. OwnerSide'
  BY <1>1, <1>5, StoreAndLinkKeepsOwner
<1>7. StoresBetweenNodes
  BY <1>1, <1>5, ValidIsNode DEF StoresBetweenNodes
<1>8. EndsAreNodes' /\ KeysAtHome'
  <2>1. \A n \in NodeId : IsLive(n) => StillLive(n)
    BY <1>1 DEF IsLive, StillLive
  <2>2. EndsAreNodes'
    BY <1>7, <2>1, EndsKept DEF SInv
  <2> QED  BY <1>1, <2>2 DEF SInv, IsGraph, KeysAtHome
<1>9. \A d \in Client : Stands(d)'
  BY <1>1, <1>2, StandsIdle
<1>10. GroupsAreThere'
  BY <1>1, GroupsStay
<1> QED  BY <1>1, <1>4, <1>6, <1>8, <1>9, <1>10 DEF SInv, IsGraph

LEMMA FirstHalfIsSound ==
    ASSUME Sequential, SInv, IInv', NEW c \in Client, RelationshipAddToOutgoing(c)
    PROVE  SInv'
<1>1. op[c].step = "addOutgoing" /\ UNCHANGED <<nodes, incoming, grouped, typed>>
  BY DEF RelationshipAddToOutgoing, At
<1>2. IInv /\ op[c] \in Context /\ (\A d \in Client : d = c) /\ IsLive(op[c].other)
  BY <1>1, OnlyOne DEF SInv, IsGraph, IInv, OpsOK, Stands
<1>3. BothSides
  BY <1>1, <1>2, NothingHalfRemoved
<1>4. SecondHalves' /\ LinksBack'
  BY <1>3, FirstHalfOwes, MirrorMakesLinksBack
<1>5. OwnerSide'
  BY <1>2, FirstHalfKeepsOwner DEF SInv, IsGraph
<1>6. EndsAreNodes'
  <2>1. \A n \in NodeId : IsLive(n) => StillLive(n)
    BY <1>1 DEF IsLive, StillLive
  <2> QED  BY <1>2, <2>1, FirstHalfStores, EndsKept DEF SInv
<1>7. op'[c].step \in {"idle", "addIncoming"}
  <2>1. \A n, r : [op[c] EXCEPT !.step = "addIncoming", !.node = n, !.rel = r].step = "addIncoming"
    BY <1>2 DEF Context
  <2>2. CASE Become(c, Idle)
    BY <1>2, <2>2, OnlyOne DEF Idle
  <2>3. ASSUME NEW n, NEW r, Become(c, [op[c] EXCEPT !.step = "addIncoming", !.node = n, !.rel = r])
        PROVE  op'[c].step = "addIncoming"
    BY <1>2, <2>1, <2>3, OnlyOne
  <2> QED  BY <2>2, <2>3, Zenon DEF RelationshipAddToOutgoing
<1>8. \A d \in Client : Stands(d)'
  <2>1. Stands(c)'
    BY <1>7 DEF Stands, RemovesNode
  <2> QED  BY <1>2, <2>1
<1>9. typed' /\ GroupsAreThere' /\ KeysAtHome'
  BY <1>1 DEF SInv, IsGraph, GroupsAreThere, KeysAtHome
<1> QED  BY <1>4, <1>5, <1>6, <1>8, <1>9 DEF SInv, IsGraph

LEMMA SecondHalfIsSound ==
    ASSUME Sequential, SInv, IInv', NEW c \in Client, RelationshipAddToIncoming(c)
    PROVE  SInv'
<1>1. op[c].step = "addIncoming" /\ Become(c, Idle) /\ UNCHANGED <<nodes, rels, outgoing, typed>>
  BY DEF RelationshipAddToIncoming, At
<1>2. IInv /\ (\A d \in Client : d = c) /\ op[c].other \in NodeId
  BY <1>1, OnlyOne DEF SInv, IsGraph, IInv, OpsOK, Carries
<1>3. BothSides
  BY <1>1, <1>2, NothingHalfRemoved
<1>4. SecondHalves' /\ LinksBack'
  BY <1>3, SecondHalfPays, MirrorMakesLinksBack
<1>5. IsGraph'
  BY <1>1, SameGraph DEF SInv
<1>6. \A d \in Client : Stands(d)'
  <2>1. \A d \in Client : op'[d].step = "idle"
    BY <1>1, <1>2, OnlyOne DEF Idle
  <2> QED  BY <2>1, StandsIdle
<1>7. GroupsAreThere'
  <2>1. CASE UNCHANGED <<incoming, grouped>>
    BY <2>1 DEF SInv, GroupsAreThere
  <2>2. CASE LinkIn(op[c].other, [rel |-> op[c].rel, node |-> op[c].node])
    BY <1>2, <2>2, GroupsStay
  <2> QED  BY <2>1, <2>2 DEF RelationshipAddToIncoming
<1> QED  BY <1>1, <1>4, <1>5, <1>6, <1>7 DEF SInv

-----------------------------------------------------------------------------
(* Removing a relationship *)

\* The relationship is live when the handler comes to it, and that one goes.
LEMMA TakesItsOwn ==
    ASSUME Sequential, SInv, NEW c \in Client, RelationshipRemoveGetIncoming(c)
    PROVE  LET r == op[c].rel
               ends == EndsOf(rels[r[1]], r[2])
           IN  /\ TakesOut
               /\ r[1] \in Shard /\ r = <<r[1], r[2]>>
               /\ \A s \in Shard :
                     LiveRels(rels'[s]) = IF s = r[1] THEN LiveRels(rels[s]) \ {r[2]} ELSE LiveRels(rels[s])
               /\ \A s \in Shard : \A i \in LiveRels(rels'[s]) :
                     EndsOf(rels'[s], i) = EndsOf(rels[s], i)
               /\ op'[c].step = "removeIncoming" /\ op'[c].rel = r /\ op'[c].other = ends.to
<1> DEFINE r == op[c].rel
           s0 == r[1]
           ends == EndsOf(rels[s0], r[2])
           u == RelationshipFree(rels[s0], {r[2]})
<1>1. r \in RelId /\ r = <<s0, r[2]>> /\ s0 \in Shard
  BY RemovesARelId DEF SInv, IsGraph
<1>2. IInv /\ OwnerSide /\ op[c] \in Context /\ op[c].step = "removeOutgoing"
  BY Zenon DEF SInv, IsGraph, IInv, OpsOK, RelationshipRemoveGetIncoming, At
<1>3. r[2] \in LiveRels(rels[s0])
  BY <1>2 DEF SInv, Stands
<1>4. ends.from # NoId
  <2>1. ends \in [from : {s0} \X Slot, to : NodeId]
    BY <1>1, <1>2, <1>3 DEF OwnerSide, RelsAreLinked
  <2>2. ends.from \in NodeId
    BY <1>1, <2>1 DEF NodeId
  <2> QED  BY <2>2, NodeIdParts
<1>5. /\ rels' = [rels EXCEPT ![s0] = u]
      /\ Become(c, [op[c] EXCEPT !.step = "removeIncoming", !.other = ends.to])
  BY <1>4, Zenon DEF RelationshipRemoveGetIncoming
<1>6. rels' # rels
  <2>1. r[2] \in u.deletedIds
    BY DEF RelationshipFree
  <2>2. r[2] \notin rels[s0].deletedIds
    BY <1>3 DEF LiveRels, ValidRelationshipId
  <2>3. rels'[s0] = u
    <3> HIDE DEF u, s0
    <3> QED  BY <1>1, <1>2, <1>5 DEF IInv, RelsOK
  <2> QED  BY <2>1, <2>2, <2>3
<1>7. op'[c].step = "removeIncoming" /\ op'[c].rel = r /\ op'[c].other = ends.to
  <2> DEFINE x == [op[c] EXCEPT !.step = "removeIncoming", !.other = ends.to]
  <2>1. x.step = "removeIncoming" /\ x.rel = r /\ x.other = ends.to
    BY <1>2 DEF Context
  <2>2. Become(c, x)
    BY <1>5
  <2> HIDE DEF x
  <2> QED  BY <1>2, <2>1, <2>2, OnlyOne
<1>8. TakesOut
  BY <1>6 DEF TakesOut
<1>9. /\ \A s \in Shard :
            LiveRels(rels'[s]) = IF s = s0 THEN LiveRels(rels[s]) \ {r[2]} ELSE LiveRels(rels[s])
      /\ \A s \in Shard : \A i \in LiveRels(rels'[s]) : EndsOf(rels'[s], i) = EndsOf(rels[s], i)
  BY <1>2, <1>6, RemoveDoes
<1> QED  BY <1>1, <1>7, <1>8, <1>9

\* The first half of a removal leaves the link at the far node for the second.
LEMMA TakeOutIsSound ==
    ASSUME Sequential, SInv, IInv', NEW c \in Client, RelationshipRemoveGetIncoming(c)
    PROVE  SInv'
<1> DEFINE r == op[c].rel
           ends == EndsOf(rels[r[1]], r[2])
<1>1. /\ TakesOut
      /\ r[1] \in Shard /\ r = <<r[1], r[2]>>
      /\ \A s \in Shard :
            LiveRels(rels'[s]) = IF s = r[1] THEN LiveRels(rels[s]) \ {r[2]} ELSE LiveRels(rels[s])
      /\ \A s \in Shard : \A i \in LiveRels(rels'[s]) : EndsOf(rels'[s], i) = EndsOf(rels[s], i)
      /\ op'[c].step = "removeIncoming" /\ op'[c].rel = r /\ op'[c].other = ends.to
  BY TakesItsOwn
<1>2. UNCHANGED <<nodes, incoming, grouped, typed>> /\ op[c].step = "removeOutgoing"
  BY Zenon DEF RelationshipRemoveGetIncoming, At
<1>3. \A d \in Client : d = c
  BY OnlyOne DEF SInv, IsGraph
<1>4. BothSides
  BY <1>2, <1>3, NothingHalfRemoved
<1> HIDE DEF r, ends
<1>5. ASSUME NEW s \in Shard, NEW i \in LiveRels(rels'[s]) PROVE Mirrored(s, i)'
  <2>1. i \in LiveRels(rels[s]) /\ EndsOf(rels'[s], i) = EndsOf(rels[s], i)
    BY <1>1
  <2>2. Mirrored(s, i)
    BY <1>2, <1>3, <2>1 DEF BothSides, MirrorIsOwed, At, SInv, LinksBack, Owed
  <2> QED  BY <1>2, <2>1, <2>2, MirrorIs
<1>6. ASSUME NEW s \in Shard, NEW j \in Slot, NEW l \in incoming'[s][j]
      PROVE  MirrorsARel(<<s, j>>, l)' \/ Leftover(s, j, l)'
  <2>1. MirrorsARel(<<s, j>>, l)
    BY <1>2, <1>4 DEF BothSides, MirrorIsOwed
  <2>2. l.rel \in RelId /\ l.rel[1] \in Shard /\ l.rel = <<l.rel[1], l.rel[2]>>
    <3>1. l \in Link
      BY <1>2 DEF SInv, IsGraph, IInv, LinksOK
    <3>2. l.rel \in RelId
      BY <3>1 DEF Link
    <3> QED  BY <3>2 DEF RelId
  <2>3. CASE l.rel = r
    <3>1. ends.to = <<s, j>>
      BY <2>1, <2>3 DEF MirrorsARel, ends
    <3> QED  BY <1>1, <2>3, <3>1 DEF Leftover, At
  <2>4. CASE l.rel # r
    <3>1. l.rel[2] \in LiveRels(rels'[l.rel[1]])
      BY <1>1, <2>1, <2>2, <2>4 DEF MirrorsARel
    <3> QED  BY <1>1, <2>1, <2>2, <3>1 DEF MirrorsARel
  <2> QED  BY <2>3, <2>4
<1>7. LinksBack'
  BY <1>5, <1>6 DEF LinksBack
<1>8. OwnerSide'
  BY RemoveKeepsOwner DEF SInv, IsGraph
<1>9. EndsAreNodes'
  <2>1. \A n \in NodeId : IsLive(n) => StillLive(n)
    BY <1>2 DEF IsLive, StillLive
  <2> QED  BY <1>1, <2>1, EndsKept DEF SInv
<1>10. \A d \in Client : Stands(d)'
  <2>1. op'[c].rel[2] \notin LiveRels(rels'[op'[c].rel[1]])
    BY <1>1
  <2>2. Stands(c)'
    BY <1>1, <2>1 DEF Stands, RemovesNode
  <2> QED  BY <1>3, <2>2
<1>11. SecondHalves'
  BY <1>1, <1>3 DEF SecondHalves, SecondHalfOf
<1>12. typed' /\ GroupsAreThere' /\ KeysAtHome'
  BY <1>2 DEF SInv, IsGraph, GroupsAreThere, KeysAtHome
<1> QED  BY <1>7, <1>8, <1>9, <1>10, <1>11, <1>12 DEF SInv, IsGraph

\* The second half finds the link, because a node with incoming links has its Group.
LEMMA RemoveIncomingIsSound ==
    ASSUME Sequential, SInv, IInv', NEW c \in Client, RelationshipRemoveIncoming(c)
    PROVE  SInv'
<1> DEFINE r == op[c].rel
           n2 == op[c].other
<1>1. /\ op[c].step = "removeIncoming" /\ Become(c, Idle)
      /\ UNCHANGED <<nodes, rels, outgoing, grouped, typed>>
  BY DEF RelationshipRemoveIncoming, At
<1>2. /\ \A d \in Client : d = c
      /\ n2 \in NodeId
      /\ r[2] \notin LiveRels(rels[r[1]])
  BY <1>1, OnlyOne DEF SInv, IsGraph, IInv, OpsOK, Carries, Stands
<1>3. n2 = <<n2[1], n2[2]>> /\ n2[1] \in Shard /\ n2[2] \in Slot
  BY <1>2 DEF NodeId
<1>4. \A s \in Shard : \A j \in Slot :
         /\ incoming'[s][j] \subseteq incoming[s][j]
         /\ \A l \in incoming[s][j] : l.rel # r => l \in incoming'[s][j]
         /\ <<s, j>> = n2 => \A l \in incoming'[s][j] : l.rel # r
  <2>1. incoming \in [Shard -> [Slot -> SUBSET Link]]
    BY DEF SInv, IsGraph, IInv, LinksOK
  <2> DEFINE s0 == n2[1]
             j0 == n2[2]
  <2>2. s0 \in Shard /\ j0 \in Slot /\ n2 = <<s0, j0>>
    BY <1>3
  <2>3. CASE j0 \in grouped[s0]
    <3>1. incoming' = [incoming EXCEPT ![s0][j0] = {l \in @ : l.rel # r}]
      BY <2>3 DEF RelationshipRemoveIncoming
    <3> HIDE DEF s0, j0, n2, r
    <3> QED  BY <2>1, <2>2, <3>1
  <2>4. CASE j0 \notin grouped[s0]
    <3>1. incoming' = incoming
      BY <2>4 DEF RelationshipRemoveIncoming
    <3>2. incoming[s0][j0] = {}
      BY <2>2, <2>4 DEF SInv, GroupsAreThere
    <3> HIDE DEF s0, j0, n2, r
    <3>3. \A s, j : <<s, j>> = n2 => s = s0 /\ j = j0
      BY <2>2
    <3> QED  BY <3>1, <3>2, <3>3
  <2> QED  BY <2>3, <2>4
<1> HIDE DEF r, n2
<1>5. ASSUME NEW s \in Shard, NEW i \in LiveRels(rels'[s]) PROVE Mirrored(s, i)'
  <2> DEFINE e == EndsOf(rels[s], i)
             l == [rel |-> <<s, i>>, node |-> e.from]
  <2>1. i \in LiveRels(rels[s]) /\ Mirrored(s, i)
    BY <1>1, <1>2 DEF SInv, LinksBack, Owed, At
  <2>2. e.to[1] \in Shard /\ e.to[2] \in Slot
    <3>1. e.to \in NodeId
      BY <2>1 DEF SInv, IsGraph, OwnerSide, RelsAreLinked
    <3> QED  BY <3>1, NodeIdParts
  <2>3. l \in incoming[e.to[1]][e.to[2]]
    BY <2>1, MirrorIs
  <2>4. l.rel # r
    BY <1>2, <2>1
  <2>5. l \in incoming'[e.to[1]][e.to[2]]
    BY <1>4, <2>2, <2>3, <2>4
  <2> QED  BY <1>1, <2>5, MirrorIs, Zenon
<1>6. ASSUME NEW s \in Shard, NEW j \in Slot, NEW l \in incoming'[s][j]
      PROVE  MirrorsARel(<<s, j>>, l)'
  <2>1. l \in incoming[s][j]
    BY <1>4
  <2>2. ~Leftover(s, j, l)
    BY <1>2, <1>4 DEF Leftover, r, n2
  <2>3. MirrorsARel(<<s, j>>, l)
    BY <2>1, <2>2 DEF SInv, LinksBack
  <2> QED  BY <1>1, <2>3 DEF MirrorsARel
<1>7. LinksBack'
  BY <1>5, <1>6 DEF LinksBack
<1>8. IsGraph'
  BY <1>1, SameGraph DEF SInv
<1>9. \A d \in Client : op'[d].step = "idle"
  BY <1>1, <1>2, OnlyOne DEF Idle, SInv, IsGraph
<1>10. (\A d \in Client : Stands(d)') /\ SecondHalves'
  BY <1>9, StandsIdle DEF SecondHalves, SecondHalfOf
<1>11. GroupsAreThere'
  BY <1>1, <1>4 DEF SInv, GroupsAreThere
<1> QED  BY <1>1, <1>7, <1>8, <1>10, <1>11 DEF SInv

-----------------------------------------------------------------------------
(* What a node's links say of its relationships *)

\* Nothing is half written.
Settled ==
    /\ IsGraph
    /\ \A s \in Shard : \A i \in LiveRels(rels[s]) : Mirrored(s, i)
    /\ \A s \in Shard : \A j \in Slot : \A l \in incoming[s][j] : MirrorsARel(<<s, j>>, l)

\* The relationships of node n, by their ends.
Touches(ends, n) == ends.from = n \/ ends.to = n

LEMMA RelsLeadHome ==
    ASSUME IsGraph, NEW s \in Shard, NEW i \in LiveRels(rels[s])
    PROVE  LET ends == EndsOf(rels[s], i)
           IN  /\ ends.from \in NodeId /\ ends.to \in NodeId
               /\ ends.from[1] = s
               /\ ends = [from |-> ends.from, to |-> ends.to]
<1>1. EndsOf(rels[s], i) \in [from : {s} \X Slot, to : NodeId]
  BY DEF IsGraph, OwnerSide, RelsAreLinked
<1> QED  BY <1>1 DEF NodeId

\* A node's outgoing links are those of the relationships that start there ...
LEMMA OutgoingIs ==
    ASSUME Settled, NEW n \in NodeId, NEW l
    PROVE  l \in outgoing[n[1]][n[2]] <=>
              \E i \in LiveRels(rels[n[1]]) :
                  /\ EndsOf(rels[n[1]], i).from = n
                  /\ l = [rel |-> <<n[1], i>>, node |-> EndsOf(rels[n[1]], i).to]
<1> DEFINE s == n[1]
           j == n[2]
<1>1. s \in Shard /\ j \in Slot /\ n = <<s, j>>
  BY DEF NodeId
<1> HIDE DEF s, j
<1>2. ASSUME l \in outgoing[s][j]
      PROVE  \E i \in LiveRels(rels[s]) :
                EndsOf(rels[s], i).from = n /\ l = [rel |-> <<s, i>>, node |-> EndsOf(rels[s], i).to]
  <2>1. /\ l.rel[1] = s /\ l.rel[2] \in LiveRels(rels[s])
        /\ EndsOf(rels[s], l.rel[2]) = [from |-> <<s, j>>, to |-> l.node]
    BY <1>1, <1>2 DEF Settled, IsGraph, OwnerSide, LinksAreRels
  <2>2. l \in Link
    BY <1>1, <1>2 DEF Settled, IsGraph, IInv, LinksOK
  <2>3. l.rel = <<s, l.rel[2]>> /\ l = [rel |-> l.rel, node |-> l.node]
    BY <2>1, <2>2 DEF Link, RelId
  <2>4. /\ EndsOf(rels[s], l.rel[2]).from = n
        /\ l = [rel |-> <<s, l.rel[2]>>, node |-> EndsOf(rels[s], l.rel[2]).to]
    BY <1>1, <2>1, <2>3
  <2> QED  BY <2>1, <2>4
<1>3. ASSUME NEW i \in LiveRels(rels[s]), EndsOf(rels[s], i).from = n
      PROVE  [rel |-> <<s, i>>, node |-> EndsOf(rels[s], i).to] \in outgoing[s][j]
  <2>1. EndsOf(rels[s], i).from[2] = j
    BY <1>1, <1>3
  <2> QED  BY <1>1, <2>1 DEF Settled, IsGraph, OwnerSide, RelsAreLinked
<1>4. l \in outgoing[s][j] <=>
         \E i \in LiveRels(rels[s]) :
             EndsOf(rels[s], i).from = n /\ l = [rel |-> <<s, i>>, node |-> EndsOf(rels[s], i).to]
  BY <1>2, <1>3
<1> QED  BY <1>4 DEF s, j

\* ... and its incoming links those of the relationships that end there, from any shard.
LEMMA IncomingIs ==
    ASSUME Settled, NEW n \in NodeId, NEW l
    PROVE  l \in incoming[n[1]][n[2]] <=>
              \E t \in Shard : \E i \in LiveRels(rels[t]) :
                  /\ EndsOf(rels[t], i).to = n
                  /\ l = [rel |-> <<t, i>>, node |-> EndsOf(rels[t], i).from]
<1> DEFINE s == n[1]
           j == n[2]
<1>1. s \in Shard /\ j \in Slot /\ n = <<s, j>>
  BY DEF NodeId
<1> HIDE DEF s, j
<1>2. ASSUME l \in incoming[s][j]
      PROVE  \E t \in Shard : \E i \in LiveRels(rels[t]) :
                EndsOf(rels[t], i).to = n /\ l = [rel |-> <<t, i>>, node |-> EndsOf(rels[t], i).from]
  <2>1. /\ l.rel[2] \in LiveRels(rels[l.rel[1]])
        /\ EndsOf(rels[l.rel[1]], l.rel[2]) = [from |-> l.node, to |-> <<s, j>>]
    BY <1>1, <1>2 DEF Settled, MirrorsARel
  <2>2. l \in Link
    BY <1>1, <1>2 DEF Settled, IsGraph, IInv, LinksOK
  <2>3. l.rel[1] \in Shard /\ l.rel = <<l.rel[1], l.rel[2]>> /\ l = [rel |-> l.rel, node |-> l.node]
    BY <2>2 DEF Link, RelId
  <2>4. /\ EndsOf(rels[l.rel[1]], l.rel[2]).to = n
        /\ l = [rel |-> <<l.rel[1], l.rel[2]>>, node |-> EndsOf(rels[l.rel[1]], l.rel[2]).from]
    BY <1>1, <2>1, <2>3
  <2> QED  BY <2>1, <2>3, <2>4
<1>3. ASSUME NEW t \in Shard, NEW i \in LiveRels(rels[t]), EndsOf(rels[t], i).to = n
      PROVE  [rel |-> <<t, i>>, node |-> EndsOf(rels[t], i).from] \in incoming[s][j]
  <2>1. Mirrored(t, i)
    BY DEF Settled
  <2>2. [rel |-> <<t, i>>, node |-> EndsOf(rels[t], i).from]
           \in incoming[EndsOf(rels[t], i).to[1]][EndsOf(rels[t], i).to[2]]
    BY <2>1, MirrorIs
  <2> QED  BY <1>1, <1>3, <2>2
<1>4. l \in incoming[s][j] <=>
         \E t \in Shard : \E i \in LiveRels(rels[t]) :
             EndsOf(rels[t], i).to = n /\ l = [rel |-> <<t, i>>, node |-> EndsOf(rels[t], i).from]
  BY <1>2, <1>3
<1> QED  BY <1>4 DEF s, j

\* The slots a removal frees are the node's own relationships, all on its shard.
LEMMA FreesItsOwn ==
    ASSUME Settled, NEW n \in NodeId, ~HasFarNeighbours(n)
    PROVE  LET I == FreedSlots(outgoing[n[1]][n[2]] \cup incoming[n[1]][n[2]])
           IN  /\ I \subseteq LiveRels(rels[n[1]])
               /\ \A s \in Shard : \A i \in LiveRels(rels[s]) :
                     Touches(EndsOf(rels[s], i), n) <=> s = n[1] /\ i \in I
<1> DEFINE outs == outgoing[n[1]][n[2]]
           ins == incoming[n[1]][n[2]]
           I == FreedSlots(outs \cup ins)
<1>1. \A l \in outs \cup ins : l.node[1] = n[1]
  BY DEF HasFarNeighbours
<1>2. n[1] \in Shard
  BY NodeIdParts
<1>3. IsGraph
  BY DEF Settled
<1>4. \A i : i \in I <=> \E l \in outs \cup ins : l.rel[2] = i
  BY DEF FreedSlots
<1> HIDE DEF I
<1>5. ASSUME NEW l \in outs \cup ins
      PROVE  l.rel[2] \in LiveRels(rels[n[1]]) /\ Touches(EndsOf(rels[n[1]], l.rel[2]), n)
  <2>1. CASE l \in outs
    <3>1. PICK i \in LiveRels(rels[n[1]]) :
             /\ EndsOf(rels[n[1]], i).from = n
             /\ l = [rel |-> <<n[1], i>>, node |-> EndsOf(rels[n[1]], i).to]
      BY <2>1, OutgoingIs
    <3>2. l.rel[2] = i
      BY <3>1
    <3> QED  BY <3>1, <3>2 DEF Touches
  <2>2. CASE l \in ins
    <3>1. PICK t \in Shard : \E i \in LiveRels(rels[t]) :
             /\ EndsOf(rels[t], i).to = n
             /\ l = [rel |-> <<t, i>>, node |-> EndsOf(rels[t], i).from]
      BY <2>2, IncomingIs
    <3>2. PICK i \in LiveRels(rels[t]) :
             /\ EndsOf(rels[t], i).to = n
             /\ l = [rel |-> <<t, i>>, node |-> EndsOf(rels[t], i).from]
      BY <3>1
    <3>3. EndsOf(rels[t], i).from[1] = t
      BY <1>3, RelsLeadHome
    <3>4. l.node = EndsOf(rels[t], i).from /\ l.rel[2] = i
      BY <3>2
    <3>5. t = n[1]
      BY <1>1, <3>3, <3>4
    <3> QED  BY <3>2, <3>4, <3>5 DEF Touches
  <2> QED  BY <2>1, <2>2
<1>6. ASSUME NEW s \in Shard, NEW i \in LiveRels(rels[s]), Touches(EndsOf(rels[s], i), n)
      PROVE  s = n[1] /\ i \in I
  <2>1. EndsOf(rels[s], i).from[1] = s
    BY <1>3, RelsLeadHome
  <2>2. CASE EndsOf(rels[s], i).from = n
    <3> DEFINE l == [rel |-> <<s, i>>, node |-> EndsOf(rels[s], i).to]
    <3>1. s = n[1]
      BY <2>1, <2>2
    <3>2. l \in outs
      BY <2>2, <3>1, OutgoingIs
    <3>3. l.rel[2] = i
      OBVIOUS
    <3> QED  BY <1>4, <3>1, <3>2, <3>3
  <2>3. CASE EndsOf(rels[s], i).to = n
    <3> DEFINE l == [rel |-> <<s, i>>, node |-> EndsOf(rels[s], i).from]
    <3>1. l \in ins
      BY <2>3, IncomingIs
    <3>2. l.rel[2] = i /\ l.node = EndsOf(rels[s], i).from
      OBVIOUS
    <3>3. s = n[1]
      BY <1>1, <2>1, <3>1, <3>2
    <3> QED  BY <1>4, <3>1, <3>2, <3>3
  <2> QED  BY <1>6, <2>2, <2>3 DEF Touches
<1>7. I \subseteq LiveRels(rels[n[1]])
  BY <1>4, <1>5
<1>8. ASSUME NEW i \in I PROVE Touches(EndsOf(rels[n[1]], i), n)
  BY <1>4, <1>5
<1>9. \A s \in Shard : \A i \in LiveRels(rels[s]) :
         Touches(EndsOf(rels[s], i), n) <=> s = n[1] /\ i \in I
  BY <1>6, <1>8
<1> QED  BY <1>7, <1>9 DEF I

\* The counterparts Shard::NodeRemove takes out of its neighbours' slots are the links that lead
\* to the node, in either direction, and no shard but its own has any.
LEMMA LinksToNode ==
    ASSUME Settled, NEW n \in NodeId, ~HasFarNeighbours(n), NEW s \in Shard, NEW j \in Slot, NEW l
    PROVE  /\ l \in outgoing[s][j] =>
                 (l.node = n <=> /\ s = n[1]
                                 /\ \E o \in incoming[n[1]][n[2]] : o.node = <<s, j>> /\ o.rel = l.rel)
           /\ l \in incoming[s][j] =>
                 (l.node = n <=> /\ s = n[1]
                                 /\ \E o \in outgoing[n[1]][n[2]] : o.node = <<s, j>> /\ o.rel = l.rel)
<1> DEFINE m == <<s, j>>
<1>1. m \in NodeId /\ m[1] = s /\ m[2] = j
  BY DEF NodeId
<1>2. IsGraph
  BY DEF Settled
<1>3. \A l2 \in outgoing[n[1]][n[2]] \cup incoming[n[1]][n[2]] : l2.node[1] = n[1]
  BY DEF HasFarNeighbours
<1> HIDE DEF m
<1>4. ASSUME l \in outgoing[s][j]
      PROVE  l.node = n <=> /\ s = n[1]
                            /\ \E o \in incoming[n[1]][n[2]] : o.node = m /\ o.rel = l.rel
  <2>1. l \in outgoing[m[1]][m[2]]
    BY <1>1, <1>4
  <2>2. PICK i \in LiveRels(rels[m[1]]) :
           /\ EndsOf(rels[m[1]], i).from = m
           /\ l = [rel |-> <<m[1], i>>, node |-> EndsOf(rels[m[1]], i).to]
    BY <1>1, <2>1, OutgoingIs
  <2>3. l.rel = <<s, i>> /\ l.node = EndsOf(rels[s], i).to
    BY <1>1, <2>2
  <2>4. ASSUME l.node = n
        PROVE  s = n[1] /\ \E o \in incoming[n[1]][n[2]] : o.node = m /\ o.rel = l.rel
    <3> DEFINE o == [rel |-> <<s, i>>, node |-> EndsOf(rels[s], i).from]
    <3>1. o \in incoming[n[1]][n[2]]
      BY <1>1, <2>2, <2>3, <2>4, IncomingIs
    <3>2. o.node = m /\ o.rel = l.rel
      BY <1>1, <2>2, <2>3
    <3>3. s = n[1]
      BY <1>1, <1>3, <3>1, <3>2
    <3> QED  BY <3>1, <3>2, <3>3
  <2>5. ASSUME NEW o \in incoming[n[1]][n[2]], o.rel = l.rel
        PROVE  l.node = n
    <3>1. PICK t \in Shard : \E k \in LiveRels(rels[t]) :
             /\ EndsOf(rels[t], k).to = n
             /\ o = [rel |-> <<t, k>>, node |-> EndsOf(rels[t], k).from]
      BY IncomingIs
    <3>2. PICK k \in LiveRels(rels[t]) :
             /\ EndsOf(rels[t], k).to = n
             /\ o = [rel |-> <<t, k>>, node |-> EndsOf(rels[t], k).from]
      BY <3>1
    <3>3. <<t, k>> = <<s, i>>
      BY <2>3, <2>5, <3>2
    <3>4. t = s /\ k = i
      BY <3>3
    <3> QED  BY <2>3, <3>2, <3>4
  <2> QED  BY <2>4, <2>5
<1>5. ASSUME l \in incoming[s][j]
      PROVE  l.node = n <=> /\ s = n[1]
                            /\ \E o \in outgoing[n[1]][n[2]] : o.node = m /\ o.rel = l.rel
  <2>1. l \in incoming[m[1]][m[2]]
    BY <1>1, <1>5
  <2>2. PICK t \in Shard : \E i \in LiveRels(rels[t]) :
           /\ EndsOf(rels[t], i).to = m
           /\ l = [rel |-> <<t, i>>, node |-> EndsOf(rels[t], i).from]
    BY <1>1, <2>1, IncomingIs
  <2>3. PICK i \in LiveRels(rels[t]) :
           /\ EndsOf(rels[t], i).to = m
           /\ l = [rel |-> <<t, i>>, node |-> EndsOf(rels[t], i).from]
    BY <2>2
  <2>4. l.rel = <<t, i>> /\ l.node = EndsOf(rels[t], i).from
    BY <2>3
  <2>5. ASSUME l.node = n
        PROVE  s = n[1] /\ \E o \in outgoing[n[1]][n[2]] : o.node = m /\ o.rel = l.rel
    <3> DEFINE o == [rel |-> <<t, i>>, node |-> EndsOf(rels[t], i).to]
    <3>5. EndsOf(rels[t], i).from[1] = t
      BY <1>2, RelsLeadHome
    <3>1. t = n[1]
      BY <2>4, <2>5, <3>5
    <3>2. o \in outgoing[n[1]][n[2]]
      BY <2>4, <2>5, <3>1, OutgoingIs
    <3>3. o.node = m /\ o.rel = l.rel
      BY <2>3, <2>4
    <3>4. s = n[1]
      BY <1>1, <1>3, <3>2, <3>3
    <3> QED  BY <3>2, <3>3, <3>4
  <2>6. ASSUME NEW o \in outgoing[n[1]][n[2]], o.rel = l.rel
        PROVE  l.node = n
    <3>1. PICK k \in LiveRels(rels[n[1]]) :
             /\ EndsOf(rels[n[1]], k).from = n
             /\ o = [rel |-> <<n[1], k>>, node |-> EndsOf(rels[n[1]], k).to]
      BY OutgoingIs
    <3>2. <<n[1], k>> = <<t, i>>
      BY <2>4, <2>6, <3>1
    <3>3. n[1] = t /\ k = i
      BY <3>2
    <3> QED  BY <2>4, <3>1, <3>3
  <2> QED  BY <2>5, <2>6
<1> QED  BY <1>4, <1>5 DEF m

-----------------------------------------------------------------------------
(* Removing a node *)

\* Removing a node frees its slot and its key, and leaves the others where they are.
LEMMA NodeRemoveTakes ==
    ASSUME NEW t, WellFormed(t), NEW i \in LiveSlots(t)
    PROVE  LET u == NodeRemove(t, i)
           IN  /\ LiveSlots(u) = LiveSlots(t) \ {i}
               /\ \A j \in LiveSlots(u) : KeyOf(u, j) = KeyOf(t, j)
               /\ KeysHeld(u) = KeysHeld(t) \ {KeyOf(t, i)}
<1> DEFINE u == NodeRemove(t, i)
<1>1. /\ u.keyToNodeId = [k \in Key |-> IF k = KeyOf(t, i) THEN NoSlot ELSE t.keyToNodeId[k]]
      /\ u.keys = [t.keys EXCEPT ![i + 1] = NoKey]
      /\ u.deletedIds = t.deletedIds \cup {i}
  BY DEF NodeRemove
<1>2. t.keys \in Seq(Key \cup {NoKey}) /\ Len(t.keys) \in Nat /\ i \in 0 .. Len(t.keys) - 1
  BY DEF WellFormed, NodeType, LiveSlots, SlotsOf
<1> HIDE DEF u
<1>3. Len(u.keys) = Len(t.keys) /\ \A j \in SlotsOf(t) \ {i} : KeyOf(u, j) = KeyOf(t, j)
  BY <1>1, <1>2 DEF SlotsOf, KeyOf
<1>4. LiveSlots(u) = LiveSlots(t) \ {i}
  BY <1>1, <1>3 DEF LiveSlots, SlotsOf
<1>5. \A j \in LiveSlots(u) : KeyOf(u, j) = KeyOf(t, j)
  BY <1>3, <1>4 DEF LiveSlots
<1>6. KeysHeld(u) = KeysHeld(t) \ {KeyOf(t, i)}
  BY <1>1 DEF KeysHeld
<1> QED  BY <1>4, <1>5, <1>6 DEF u

\* What the last handler of a removal makes of nodes, relationships and links: those of the
\* node go, and all others stay as they are.
TakesNode(n) ==
    /\ n \in NodeId /\ IsLive(n)
    /\ \A m \in NodeId : IsLive(m) /\ m # n =>
          StillLive(m) /\ KeyOf(nodes'[m[1]], m[2]) = KeyOf(nodes[m[1]], m[2])
    /\ \A s \in Shard : KeysHeld(nodes'[s]) =
          IF s = n[1] THEN KeysHeld(nodes[s]) \ {KeyOf(nodes[s], n[2])} ELSE KeysHeld(nodes[s])
    /\ \A s \in Shard :
          LiveRels(rels'[s]) = {i \in LiveRels(rels[s]) : ~Touches(EndsOf(rels[s], i), n)}
    /\ \A s \in Shard : \A i \in LiveRels(rels'[s]) : EndsOf(rels'[s], i) = EndsOf(rels[s], i)
    /\ \A s \in Shard : \A j \in Slot :
          /\ outgoing'[s][j] = {l \in outgoing[s][j] : <<s, j>> # n /\ l.node # n}
          /\ incoming'[s][j] = {l \in incoming[s][j] : <<s, j>> # n /\ l.node # n}
          /\ <<s, j>> # n => (j \in grouped'[s] <=> j \in grouped[s])

LEMMA RemoveNodeDoes ==
    ASSUME Settled, NEW c \in Client, RemoveNode(c), ~Refused(c), Valid(op[c].node), op[c].node \in NodeId,
           ~HasFarNeighbours(op[c].node)
    PROVE  TakesNode(op[c].node)
<1> DEFINE n == op[c].node
           s0 == n[1]
           i0 == n[2]
           outs == outgoing[s0][i0]
           ins == incoming[s0][i0]
           I == FreedSlots(outs \cup ins)
<1>1. n \in NodeId /\ n = <<s0, i0>> /\ s0 \in Shard /\ i0 \in Slot
  BY DEF NodeId
<1>2. IsGraph /\ IInv
  BY DEF Settled, IsGraph
<1>3. /\ nodes' = [nodes EXCEPT ![s0] = NodeRemove(@, i0)]
      /\ rels' = [rels EXCEPT ![s0] = RelationshipFree(@, I)]
      /\ outgoing' = [outgoing EXCEPT ![s0] = WithoutLinksOf(@, i0, s0, ins)]
      /\ incoming' = [incoming EXCEPT ![s0] = WithoutLinksOf(@, i0, s0, outs)]
      /\ grouped' = [grouped EXCEPT ![s0] = @ \ {i0}]
  BY Zenon DEF RemoveNode
<1>4. /\ I \subseteq LiveRels(rels[s0])
      /\ \A s \in Shard : \A i \in LiveRels(rels[s]) : Touches(EndsOf(rels[s], i), n) <=> s = s0 /\ i \in I
  BY FreesItsOwn, Zenon
<1>5. \A s \in Shard : \A j \in Slot : \A l :
         /\ l \in outgoing[s][j] => (l.node = n <=> s = s0 /\ \E o \in ins : o.node = <<s, j>> /\ o.rel = l.rel)
         /\ l \in incoming[s][j] => (l.node = n <=> s = s0 /\ \E o \in outs : o.node = <<s, j>> /\ o.rel = l.rel)
  BY LinksToNode
<1>6. IsLive(n)
  BY <1>1, <1>2, ValidIsNode DEF IInv
<1> HIDE DEF n, s0, i0, outs, ins, I
<1>7. /\ \A m \in NodeId : IsLive(m) /\ m # n =>
            StillLive(m) /\ KeyOf(nodes'[m[1]], m[2]) = KeyOf(nodes[m[1]], m[2])
      /\ \A s \in Shard : KeysHeld(nodes'[s]) =
            IF s = s0 THEN KeysHeld(nodes[s]) \ {KeyOf(nodes[s], i0)} ELSE KeysHeld(nodes[s])
  <2> DEFINE u == NodeRemove(nodes[s0], i0)
  <2>1. WellFormed(nodes[s0]) /\ i0 \in LiveSlots(nodes[s0])
    BY <1>1, <1>2, <1>6 DEF IInv, NodesOK, IsLive, s0, i0
  <2>2. /\ LiveSlots(u) = LiveSlots(nodes[s0]) \ {i0}
        /\ \A j \in LiveSlots(u) : KeyOf(u, j) = KeyOf(nodes[s0], j)
        /\ KeysHeld(u) = KeysHeld(nodes[s0]) \ {KeyOf(nodes[s0], i0)}
    BY <2>1, NodeRemoveTakes
  <2>3. nodes' = [nodes EXCEPT ![s0] = u]
    BY <1>3
  <2> HIDE DEF u
  <2>4. \A s \in Shard : nodes'[s] = IF s = s0 THEN u ELSE nodes[s]
    BY <1>2, <2>3 DEF IInv, NodesOK
  <2>5. ASSUME NEW m \in NodeId, IsLive(m), m # n
        PROVE  StillLive(m) /\ KeyOf(nodes'[m[1]], m[2]) = KeyOf(nodes[m[1]], m[2])
    <3>1. m[1] \in Shard /\ m = <<m[1], m[2]>> /\ m[2] \in LiveSlots(nodes[m[1]])
      BY <2>5 DEF NodeId, IsLive
    <3>2. m[1] # s0 \/ m[2] # i0
      BY <1>1, <2>5, <3>1
    <3> QED  BY <2>2, <2>4, <3>1, <3>2 DEF StillLive
  <2> QED  BY <2>2, <2>4, <2>5
<1>8. /\ \A s \in Shard :
            LiveRels(rels'[s]) = {i \in LiveRels(rels[s]) : ~Touches(EndsOf(rels[s], i), n)}
      /\ \A s \in Shard : \A i \in LiveRels(rels'[s]) : EndsOf(rels'[s], i) = EndsOf(rels[s], i)
  <2> DEFINE u == RelationshipFree(rels[s0], I)
  <2>1. RelColumns(rels[s0], s0)
    BY <1>1, <1>2 DEF IInv, RelsOK
  <2>2. I \subseteq RelSlotsOf(rels[s0]) \cap RelSlot
    <3>1. \A i \in LiveRels(rels[s0]) : i \in RelSlotsOf(rels[s0])
      BY DEF LiveRels
    <3>2. RelSlotsOf(rels[s0]) \subseteq RelSlot
      <4>1. Len(rels[s0].ends) \in Nat /\ Len(rels[s0].ends) <= MaxRels /\ MaxRels \in Nat
        BY <2>1, RelationshipTypesAssumption DEF RelColumns, RelationshipType
      <4> QED  BY <4>1 DEF RelSlotsOf, RelSlot
    <3> QED  BY <1>4, <3>1, <3>2
  <2>3. LiveRels(u) = LiveRels(rels[s0]) \ I /\ \A i \in LiveRels(u) : EndsOf(u, i) = EndsOf(rels[s0], i)
    BY <1>1, <2>1, <2>2, FreeTakes
  <2>4. rels' = [rels EXCEPT ![s0] = u]
    BY <1>3
  <2> HIDE DEF u
  <2>5. \A s \in Shard : rels'[s] = IF s = s0 THEN u ELSE rels[s]
    BY <1>2, <2>4 DEF IInv, RelsOK
  <2> QED  BY <1>4, <2>3, <2>5
<1>9. /\ outgoing \in [Shard -> [Slot -> SUBSET Link]]
      /\ incoming \in [Shard -> [Slot -> SUBSET Link]]
      /\ grouped \in [Shard -> SUBSET Slot]
  BY <1>2 DEF IInv, LinksOK
<1>10. \A s, j : <<s, j>> = n <=> s = s0 /\ j = i0
  BY <1>1
<1>12. ASSUME NEW s \in Shard, NEW j \in Slot
       PROVE  outgoing'[s][j] = {l \in outgoing[s][j] : <<s, j>> # n /\ l.node # n}
  <2> DEFINE w == WithoutLinksOf(outgoing[s0], i0, s0, ins)
  <2>1. w[j] = IF j = i0 THEN {} ELSE {l \in outgoing[s0][j] : ~\E o \in ins : o.node = <<s0, j>> /\ o.rel = l.rel}
    BY DEF WithoutLinksOf
  <2>2. outgoing' = [outgoing EXCEPT ![s0] = w]
    BY <1>3
  <2> HIDE DEF w
  <2>3. outgoing'[s] = IF s = s0 THEN w ELSE outgoing[s]
    BY <1>9, <2>2
  <2>4. CASE s # s0
    <3>1. \A l \in outgoing[s][j] : l.node # n
      BY <1>5, <2>4
    <3> QED  BY <1>10, <2>3, <2>4, <3>1
  <2>5. CASE s = s0
    <3>1. ASSUME NEW l \in outgoing[s0][j]
          PROVE  l.node = n <=> \E o \in ins : o.node = <<s0, j>> /\ o.rel = l.rel
      <4>1. l.node = n <=> s = s0 /\ \E o \in ins : o.node = <<s, j>> /\ o.rel = l.rel
        BY <1>5, <2>5
      <4> QED  BY <2>5, <4>1
    <3> QED  BY <1>10, <2>1, <2>3, <2>5, <3>1
  <2> QED  BY <2>4, <2>5
<1>13. ASSUME NEW s \in Shard, NEW j \in Slot
       PROVE  incoming'[s][j] = {l \in incoming[s][j] : <<s, j>> # n /\ l.node # n}
  <2> DEFINE w == WithoutLinksOf(incoming[s0], i0, s0, outs)
  <2>1. w[j] = IF j = i0 THEN {} ELSE {l \in incoming[s0][j] : ~\E o \in outs : o.node = <<s0, j>> /\ o.rel = l.rel}
    BY DEF WithoutLinksOf
  <2>2. incoming' = [incoming EXCEPT ![s0] = w]
    BY <1>3
  <2> HIDE DEF w
  <2>3. incoming'[s] = IF s = s0 THEN w ELSE incoming[s]
    BY <1>9, <2>2
  <2>4. CASE s # s0
    <3>1. \A l \in incoming[s][j] : l.node # n
      BY <1>5, <2>4
    <3> QED  BY <1>10, <2>3, <2>4, <3>1
  <2>5. CASE s = s0
    <3>1. ASSUME NEW l \in incoming[s0][j]
          PROVE  l.node = n <=> \E o \in outs : o.node = <<s0, j>> /\ o.rel = l.rel
      <4>1. l.node = n <=> s = s0 /\ \E o \in outs : o.node = <<s, j>> /\ o.rel = l.rel
        BY <1>5, <2>5
      <4> QED  BY <2>5, <4>1
    <3> QED  BY <1>10, <2>1, <2>3, <2>5, <3>1
  <2> QED  BY <2>4, <2>5
<1>14. ASSUME NEW s \in Shard, NEW j \in Slot, <<s, j>> # n
       PROVE  j \in grouped'[s] <=> j \in grouped[s]
  BY <1>3, <1>9, <1>10, <1>14
<1>15. n \in NodeId /\ n[1] = s0 /\ n[2] = i0
  BY <1>1 DEF s0, i0
<1>16. \A s \in Shard : KeysHeld(nodes'[s]) =
          IF s = n[1] THEN KeysHeld(nodes[s]) \ {KeyOf(nodes[s], n[2])} ELSE KeysHeld(nodes[s])
  BY <1>7, <1>15
<1>17. TakesNode(n)
  BY <1>6, <1>7, <1>8, <1>12, <1>13, <1>14, <1>15, <1>16 DEF TakesNode
<1> QED  BY <1>17 DEF n

\* What remains is a graph whose two directions agree.
LEMMA TakesNodeKeeps ==
    ASSUME Settled, GroupsAreThere, NEW n, TakesNode(n)
    PROVE  /\ OwnerSide' /\ KeysAtHome' /\ EndsAreNodes' /\ GroupsAreThere'
           /\ \A s \in Shard : \A i \in LiveRels(rels'[s]) : Mirrored(s, i)'
           /\ \A s \in Shard : \A j \in Slot : \A l \in incoming'[s][j] : MirrorsARel(<<s, j>>, l)'
<1>1. /\ n \in NodeId /\ IsLive(n)
      /\ \A m \in NodeId : IsLive(m) /\ m # n => StillLive(m)
      /\ \A s \in Shard : \A k \in KeysHeld(nodes'[s]) : k \in KeysHeld(nodes[s])
      /\ \A s \in Shard : \A i : i \in LiveRels(rels'[s]) <=>
            i \in LiveRels(rels[s]) /\ ~Touches(EndsOf(rels[s], i), n)
      /\ \A s \in Shard : \A i \in LiveRels(rels'[s]) : EndsOf(rels'[s], i) = EndsOf(rels[s], i)
  BY DEF TakesNode
<1>2. \A s \in Shard : \A j \in Slot : \A l :
         /\ l \in outgoing'[s][j] <=> l \in outgoing[s][j] /\ <<s, j>> # n /\ l.node # n
         /\ l \in incoming'[s][j] <=> l \in incoming[s][j] /\ <<s, j>> # n /\ l.node # n
  BY DEF TakesNode
<1>3. \A s \in Shard : \A j \in Slot : <<s, j>> # n => (j \in grouped'[s] <=> j \in grouped[s])
  BY DEF TakesNode
<1>4. IsGraph /\ OwnerSide
  BY DEF Settled, IsGraph
<1>5. ASSUME NEW s \in Shard, NEW i \in LiveRels(rels'[s])
      PROVE  LET e == EndsOf(rels[s], i)
             IN  /\ i \in LiveRels(rels[s]) /\ EndsOf(rels'[s], i) = e
                 /\ e.from \in NodeId /\ e.to \in NodeId /\ e.from # n /\ e.to # n
                 /\ e.from = <<s, e.from[2]>> /\ e.from[2] \in Slot
                 /\ e.to = <<e.to[1], e.to[2]>> /\ e.to[1] \in Shard /\ e.to[2] \in Slot
                 /\ e \in [from : {s} \X Slot, to : NodeId]
  <2> DEFINE e == EndsOf(rels[s], i)
  <2>1. i \in LiveRels(rels[s]) /\ EndsOf(rels'[s], i) = e /\ e.from # n /\ e.to # n
    BY <1>1 DEF Touches
  <2>2. e \in [from : {s} \X Slot, to : NodeId]
    BY <1>4, <2>1 DEF OwnerSide, RelsAreLinked
  <2> HIDE DEF e
  <2>3. e.from \in NodeId /\ e.to \in NodeId /\ e.from = <<s, e.from[2]>> /\ e.from[2] \in Slot
    BY <2>2 DEF NodeId
  <2>4. e.to = <<e.to[1], e.to[2]>> /\ e.to[1] \in Shard /\ e.to[2] \in Slot
    BY <2>2 DEF NodeId
  <2> QED  BY <2>1, <2>2, <2>3, <2>4 DEF e
<1>6. ASSUME NEW s \in Shard, NEW i \in LiveRels(rels'[s])
      PROVE  [rel |-> <<s, i>>, node |-> EndsOf(rels'[s], i).to]
                \in outgoing'[s][EndsOf(rels'[s], i).from[2]]
  <2> DEFINE e == EndsOf(rels[s], i)
             l == [rel |-> <<s, i>>, node |-> e.to]
  <2>1. l \in outgoing[s][e.from[2]]
    BY <1>4, <1>5 DEF OwnerSide, RelsAreLinked
  <2>2. l.node # n /\ <<s, e.from[2]>> # n /\ e.from[2] \in Slot /\ EndsOf(rels'[s], i) = e
    BY <1>5
  <2>3. l \in outgoing'[s][e.from[2]]
    BY <1>2, <2>1, <2>2
  <2> QED  BY <2>2, <2>3
<1>7. ASSUME NEW s \in Shard, NEW j \in Slot, NEW l \in outgoing'[s][j]
      PROVE  /\ l.rel[1] = s
             /\ l.rel[2] \in LiveRels(rels'[s])
             /\ EndsOf(rels'[s], l.rel[2]) = [from |-> <<s, j>>, to |-> l.node]
  <2>1. l \in outgoing[s][j] /\ <<s, j>> # n /\ l.node # n
    BY <1>2
  <2>2. /\ l.rel[1] = s
        /\ l.rel[2] \in LiveRels(rels[s])
        /\ EndsOf(rels[s], l.rel[2]) = [from |-> <<s, j>>, to |-> l.node]
    BY <1>4, <2>1 DEF OwnerSide, LinksAreRels
  <2>3. ~Touches(EndsOf(rels[s], l.rel[2]), n)
    BY <2>1, <2>2 DEF Touches
  <2> QED  BY <1>1, <2>2, <2>3
<1>8. OwnerSide'
  <2>1. \A s \in Shard : RelsAreLinked(s)'
    BY <1>5, <1>6 DEF RelsAreLinked
  <2>2. \A s \in Shard : LinksAreRels(s)'
    BY <1>7 DEF LinksAreRels
  <2> QED  BY <2>1, <2>2 DEF OwnerSide
<1>9. EndsAreNodes'
  <2> SUFFICES ASSUME NEW s \in Shard, NEW i \in LiveRels(rels'[s])
               PROVE  LET e == EndsOf(rels'[s], i)
                      IN  e.from # NoId /\ StillLive(e.from) /\ e.to # NoId /\ StillLive(e.to)
    BY DEF EndsAreNodes, IsLive, StillLive
  <2> DEFINE e == EndsOf(rels[s], i)
  <2>1. i \in LiveRels(rels[s]) /\ EndsOf(rels'[s], i) = e
        /\ e.from \in NodeId /\ e.to \in NodeId /\ e.from # n /\ e.to # n
    BY <1>5
  <2>2. IsLive(e.from) /\ IsLive(e.to) /\ e.from # NoId /\ e.to # NoId
    BY <1>4, <2>1 DEF IsGraph, EndsAreNodes
  <2>3. StillLive(e.from) /\ StillLive(e.to)
    BY <1>1, <2>1, <2>2
  <2> QED  BY <2>1, <2>2, <2>3
<1>10. ASSUME NEW s \in Shard, NEW i \in LiveRels(rels'[s]) PROVE Mirrored(s, i)'
  <2> DEFINE e == EndsOf(rels[s], i)
             l == [rel |-> <<s, i>>, node |-> e.from]
  <2>1. /\ i \in LiveRels(rels[s]) /\ EndsOf(rels'[s], i) = e
        /\ e.from # n /\ e.to # n
        /\ e.to = <<e.to[1], e.to[2]>> /\ e.to[1] \in Shard /\ e.to[2] \in Slot
    BY <1>5
  <2>2. Mirrored(s, i)
    BY <2>1 DEF Settled
  <2>3. l \in incoming[e.to[1]][e.to[2]]
    BY <2>2, MirrorIs
  <2>4. l.node # n /\ <<e.to[1], e.to[2]>> # n
    BY <2>1
  <2>5. l \in incoming'[e.to[1]][e.to[2]]
    BY <1>2, <2>1, <2>3, <2>4
  <2> QED  BY <2>1, <2>5, MirrorIs, Zenon
<1>11. ASSUME NEW s \in Shard, NEW j \in Slot, NEW l \in incoming'[s][j]
       PROVE  MirrorsARel(<<s, j>>, l)'
  <2>1. l \in incoming[s][j] /\ <<s, j>> # n /\ l.node # n
    BY <1>2
  <2>2. /\ l.rel[2] \in LiveRels(rels[l.rel[1]])
        /\ EndsOf(rels[l.rel[1]], l.rel[2]) = [from |-> l.node, to |-> <<s, j>>]
    BY <2>1 DEF Settled, MirrorsARel
  <2>3. l.rel[1] \in Shard
    <3>1. l \in Link
      BY <1>4, <2>1 DEF IsGraph, IInv, LinksOK
    <3> QED  BY <3>1 DEF Link, RelId
  <2>4. ~Touches(EndsOf(rels[l.rel[1]], l.rel[2]), n)
    BY <2>1, <2>2 DEF Touches
  <2> QED  BY <1>1, <2>2, <2>3, <2>4 DEF MirrorsARel
<1>12. GroupsAreThere'
  <2> SUFFICES ASSUME NEW s \in Shard, NEW j \in Slot, NEW l \in incoming'[s][j]
               PROVE  j \in grouped'[s]
    BY DEF GroupsAreThere
  <2>1. l \in incoming[s][j] /\ <<s, j>> # n
    BY <1>2
  <2>2. j \in grouped[s]
    BY <2>1 DEF GroupsAreThere
  <2> QED  BY <1>3, <2>1, <2>2
<1>13. KeysAtHome'
  <2>1. \A s \in Shard : \A k \in KeysHeld(nodes'[s]) : ShardOf[k] = s
    BY <1>1, <1>4 DEF IsGraph, KeysAtHome
  <2> QED  BY <2>1 DEF KeysAtHome
<1> QED  BY <1>8, <1>9, <1>10, <1>11, <1>12, <1>13

LEMMA SettledNow ==
    ASSUME SInv, \A c \in Client : op[c].step \notin {"addIncoming", "removeIncoming"}
    PROVE  Settled
BY DEF SInv, LinksBack, Leftover, Owed, At, Settled

\* The last handler of a removal takes the node with what is its own, or finds nothing to do.
LEMMA RemovalTakesNode ==
    ASSUME Sequential, SInv, NEW c \in Client, RemoveNode(c)
    PROVE  /\ Settled
           /\ UNCHANGED typed /\ \A d \in Client : op'[d] = Idle
           /\ TakesNode(op[c].node) \/ UNCHANGED graph
<1>1. op[c].step = "deleteOutgoing" /\ Become(c, Idle) /\ UNCHANGED typed
  BY Zenon DEF RemoveNode, At
<1>2. (\A d \in Client : d = c) /\ IInv
  BY OnlyOne DEF SInv, IsGraph
<1>3. \A d \in Client : op'[d] = Idle
  BY <1>1, <1>2, OnlyOne
<1>4. Settled
  BY <1>1, <1>2, SettledNow
<1>5. op[c].node \in NodeId /\ ~HasFarNeighbours(op[c].node)
  BY <1>1, <1>2 DEF IInv, OpsOK, Carries, SInv, Stands, RemovesNode
<1>6. CASE ~Refused(c) /\ Valid(op[c].node)
  BY <1>1, <1>3, <1>4, <1>5, <1>6, RemoveNodeDoes
<1>7. CASE Refused(c) \/ ~Valid(op[c].node)
  <2>1. UNCHANGED <<nodes, rels, outgoing, incoming, grouped>>
    BY <1>7, Zenon DEF RemoveNode
  <2> QED  BY <1>1, <1>3, <1>4, <2>1 DEF graph
<1> QED  BY <1>6, <1>7

LEMMA RemoveNodeIsSound ==
    ASSUME Sequential, SInv, IInv', NEW c \in Client, RemoveNode(c)
    PROVE  SInv'
<1>1. /\ Settled
      /\ UNCHANGED typed
      /\ \A d \in Client : op'[d].step = "idle"
      /\ TakesNode(op[c].node) \/ UNCHANGED graph
  BY RemovalTakesNode DEF Idle
<1>2. (\A d \in Client : Stands(d)') /\ SecondHalves'
  BY <1>1, StandsIdle DEF SecondHalves, SecondHalfOf
<1>3. CASE TakesNode(op[c].node)
  <2>1. /\ OwnerSide' /\ KeysAtHome' /\ EndsAreNodes' /\ GroupsAreThere'
        /\ \A s \in Shard : \A i \in LiveRels(rels'[s]) : Mirrored(s, i)'
        /\ \A s \in Shard : \A j \in Slot : \A l \in incoming'[s][j] : MirrorsARel(<<s, j>>, l)'
    BY <1>1, <1>3, TakesNodeKeeps DEF SInv
  <2>2. LinksBack'
    BY <2>1 DEF LinksBack
  <2> QED  BY <1>1, <1>2, <2>1, <2>2 DEF SInv, IsGraph
<1>4. CASE UNCHANGED graph
  <2>1. IsGraph'
    BY <1>4, SameGraph DEF SInv, graph
  <2>2. LinksBack'
    <3>1. \A s \in Shard : \A i \in LiveRels(rels'[s]) : Mirrored(s, i)'
      BY <1>1, <1>4, MirrorIs DEF Settled, graph
    <3>2. \A s \in Shard : \A j \in Slot : \A l \in incoming'[s][j] : MirrorsARel(<<s, j>>, l)'
      BY <1>1, <1>4 DEF Settled, graph, MirrorsARel
    <3> QED  BY <3>1, <3>2 DEF LinksBack
  <2>3. typed' /\ GroupsAreThere'
    BY <1>4 DEF SInv, graph, GroupsAreThere
  <2> QED  BY <1>2, <2>1, <2>2, <2>3 DEF SInv
<1> QED  BY <1>1, <1>3, <1>4

-----------------------------------------------------------------------------
(* Handlers that only look *)

LEMMA LooksOnly ==
    ASSUME Sequential, SInv, IInv', NEW c \in Client, NEW x, Become(c, x), UNCHANGED graph,
           op[c].step \notin {"addIncoming", "removeIncoming"},
           x.step \notin {"checkNewType", "addIncoming", "removeIncoming"},
           x.step = "addOutgoing" => IsLive(x.other),
           x.step = "removeOutgoing" => x.rel[2] \in LiveRels(rels[x.rel[1]]),
           x.step \in RemovesNode => ~HasFarNeighbours(x.node),
           x.step \in {"deleteIncoming", "deleteOutgoing"} => x.ids = {}
    PROVE  SInv'
<1>1. op'[c] = x
  BY OnlyOne DEF SInv, IsGraph
<1>2. \A n : /\ IsLive(n) => n[2] \in LiveSlots(nodes'[n[1]])
            /\ ~HasFarNeighbours(n) =>
                  ~\E l \in outgoing'[n[1]][n[2]] \cup incoming'[n[1]][n[2]] : l.node[1] # n[1]
  BY DEF graph, IsLive, HasFarNeighbours
<1>3. Stands(c)'
  BY <1>1, <1>2 DEF Stands, IsLive, HasFarNeighbours, graph
<1> QED  BY <1>3, MovesOn

\* The first handlers of adds between shards and of removals of a relationship.
LEMMA AsksIsSound ==
    ASSUME Sequential, SInv, IInv', NEW c \in Client,
           \/ \E n1, n2 \in NodeId : RelationshipAddById(c, n1, n2)
           \/ \E k1, k2 \in Key : RelationshipAddByKey(c, k1, k2)
           \/ \E r \in RelId : RemoveRelationship(c, r)
    PROVE  SInv'
<1>1. NodesOK /\ RelsOK
  BY DEF SInv, IsGraph, IInv
<1>2. Idle.step = "idle"
  BY DEF Idle
<1>3. ASSUME NEW n1 \in NodeId, NEW n2 \in NodeId, RelationshipAddById(c, n1, n2)
      PROVE  SInv'
  <2> DEFINE x == [Idle EXCEPT !.step = "addOutgoing", !.node = n1, !.other = n2]
  <2>1. x.step = "addOutgoing" /\ x.other = n2
    BY DEF Idle
  <2>2. op[c].step = "idle" /\ Become(c, x) /\ UNCHANGED graph /\ IsLive(n2)
    BY <1>1, <1>2, <1>3, ValidIsNode DEF RelationshipAddById, Starts
  <2> HIDE DEF x
  <2> QED  BY <2>1, <2>2, LooksOnly DEF RemovesNode
<1>4. ASSUME NEW k1 \in Key, NEW k2 \in Key, RelationshipAddByKey(c, k1, k2)
      PROVE  SInv'
  <2> DEFINE x == [Idle EXCEPT !.step = "addOutgoing", !.key = k1, !.other = NodeGetID(k2)]
  <2>1. x.step = "addOutgoing" /\ x.other = NodeGetID(k2)
    BY DEF Idle
  <2>2. op[c].step = "idle" /\ Become(c, x) /\ UNCHANGED graph /\ IsLive(NodeGetID(k2))
    BY <1>1, <1>2, <1>4, FoundIsNode DEF RelationshipAddByKey, Starts
  <2> HIDE DEF x
  <2> QED  BY <2>1, <2>2, LooksOnly DEF RemovesNode
<1>5. ASSUME NEW r \in RelId, RemoveRelationship(c, r)
      PROVE  SInv'
  <2> DEFINE x == [Idle EXCEPT !.step = "removeOutgoing", !.rel = r]
  <2>1. x.step = "removeOutgoing" /\ x.rel = r
    BY DEF Idle
  <2>2. op[c].step = "idle" /\ Become(c, x) /\ UNCHANGED graph
    BY <1>2, <1>5 DEF RemoveRelationship, Starts
  <2>3. r[2] \in LiveRels(rels[r[1]])
    <3>1. Len(rels[r[1]].ends) \in Nat /\ r[2] \in Int
      BY <1>1, NodeIdParts, RelationshipTypesAssumption DEF RelsOK, RelColumns, RelationshipType, RelSlot
    <3>2. ValidRelationshipId(rels[r[1]], r[2])
      BY <1>5 DEF RemoveRelationship
    <3>3. r[2] \in RelSlotsOf(rels[r[1]])
      BY <3>1, <3>2 DEF ValidRelationshipId, RelSlotsOf
    <3> QED  BY <3>2, <3>3 DEF LiveRels
  <2> HIDE DEF x
  <2> QED  BY <2>1, <2>2, <2>3, LooksOnly DEF RemovesNode
<1> QED  BY <1>3, <1>4, <1>5

\* The handlers of a removal of a node before the last: with no neighbour on another shard there
\* is nobody to tell.
LEMMA RemovalLooksIsSound ==
    ASSUME Sequential, SInv, IInv', NEW c \in Client,
           \/ \E k \in Key : RemoveNodeByKey(c, k)
           \/ \E n \in NodeId : RemoveNodeById(c, n)
           \/ CheckNode(c) \/ NodeRemoveGetIncoming(c) \/ NodeRemoveGetOutgoing(c)
    PROVE  SInv'
<1>1. IInv /\ op[c] \in Context
  BY DEF SInv, IsGraph, IInv, OpsOK
<1>2. Idle.step = "idle"
  BY DEF Idle
<1>3. op[c].step \in RemovesNode => ~HasFarNeighbours(op[c].node)
  BY DEF SInv, Stands
<1>4. ASSUME NEW k \in Key, RemoveNodeByKey(c, k) PROVE SInv'
  <2> DEFINE x == [Idle EXCEPT !.step = "checkNode", !.key = k, !.node = NodeGetID(k)]
  <2>1. x.step = "checkNode" /\ x.node = NodeGetID(k)
    BY DEF Idle
  <2>2. op[c].step = "idle" /\ Become(c, x) /\ UNCHANGED graph /\ ~HasFarNeighbours(NodeGetID(k))
    BY <1>2, <1>4 DEF RemoveNodeByKey, Starts, Sequential
  <2> HIDE DEF x
  <2> QED  BY <2>1, <2>2, LooksOnly
<1>5. ASSUME NEW n \in NodeId, RemoveNodeById(c, n) PROVE SInv'
  <2> DEFINE x == [Idle EXCEPT !.step = "checkNode", !.node = n]
  <2>1. x.step = "checkNode" /\ x.node = n
    BY DEF Idle
  <2>2. op[c].step = "idle" /\ Become(c, x) /\ UNCHANGED graph /\ ~HasFarNeighbours(n)
    BY <1>2, <1>5 DEF RemoveNodeById, Starts, Sequential
  <2> HIDE DEF x
  <2> QED  BY <2>1, <2>2, LooksOnly
<1>6. CASE CheckNode(c)
  <2> DEFINE x == [op[c] EXCEPT !.step = "getIncoming"]
  <2>1. op[c].step = "checkNode" /\ UNCHANGED graph /\ (Become(c, x) \/ Become(c, Idle))
    BY <1>6 DEF CheckNode, At
  <2>2. x.step = "getIncoming" /\ x.node = op[c].node
    BY <1>1 DEF Context
  <2> HIDE DEF x
  <2>3. CASE Become(c, x)
    BY <1>3, <2>1, <2>2, <2>3, LooksOnly DEF RemovesNode
  <2>4. CASE Become(c, Idle)
    BY <1>2, <2>1, <2>4, LooksOnly DEF RemovesNode
  <2> QED  BY <2>1, <2>3, <2>4
<1>7. ASSUME ~HasFarNeighbours(op[c].node)
      PROVE  LET n == op[c].node
             IN  FarNeighbours(n, outgoing[n[1]][n[2]]) = {} /\ FarNeighbours(n, incoming[n[1]][n[2]]) = {}
  BY <1>7, Zenon DEF HasFarNeighbours, FarNeighbours
<1>8. CASE NodeRemoveGetIncoming(c)
  <2> DEFINE n == op[c].node
             x == [op[c] EXCEPT !.step = "deleteIncoming", !.ids = FarNeighbours(n, outgoing[n[1]][n[2]])]
  <2>1. op[c].step = "getIncoming" /\ UNCHANGED graph /\ Become(c, x)
    BY <1>8 DEF NodeRemoveGetIncoming, At
  <2>2. ~HasFarNeighbours(n)
    BY <1>3, <2>1 DEF RemovesNode
  <2>3. x.step = "deleteIncoming" /\ x.node = n /\ x.ids = {}
    BY <1>1, <1>7, <2>2 DEF Context
  <2> HIDE DEF x
  <2> QED  BY <2>1, <2>2, <2>3, LooksOnly DEF RemovesNode
<1>9. CASE NodeRemoveGetOutgoing(c)
  <2> DEFINE n == op[c].node
             x == [op[c] EXCEPT !.step = "deleteOutgoing", !.ids = FarNeighbours(n, incoming[n[1]][n[2]])]
  <2>1. op[c].step = "deleteIncoming" /\ UNCHANGED graph /\ (Become(c, x) \/ Become(c, Idle))
    BY <1>9 DEF NodeRemoveGetOutgoing, At
  <2>2. ~HasFarNeighbours(n)
    BY <1>3, <2>1 DEF RemovesNode
  <2>3. x.step = "deleteOutgoing" /\ x.node = n /\ x.ids = {}
    BY <1>1, <1>7, <2>2 DEF Context
  <2> HIDE DEF x
  <2>4. CASE Become(c, x)
    BY <2>1, <2>2, <2>3, <2>4, LooksOnly DEF RemovesNode
  <2>5. CASE Become(c, Idle)
    BY <1>2, <2>1, <2>5, LooksOnly DEF RemovesNode
  <2> QED  BY <2>1, <2>4, <2>5
<1> QED  BY <1>4, <1>5, <1>6, <1>8, <1>9

\* The handlers that are never reached: those of a new type, and those on far shards.
LEMMA NeverReached ==
    ASSUME SInv, NEW c \in Client
    PROVE  /\ ~RelationshipTypeInsert(c)
           /\ \A n1, n2 \in NodeId : ~RelationshipAddNewType(c, n1, n2)
           /\ ~CheckNewType(c)
           /\ \A m \in NodeId : ~NodeRemoveDeleteIncoming(c, m) /\ ~NodeRemoveDeleteOutgoing(c, m)
BY DEF SInv, Stands, At, RelationshipTypeInsert, RelationshipAddNewType, CheckNewType,
       NodeRemoveDeleteIncoming, NodeRemoveDeleteOutgoing

-----------------------------------------------------------------------------
(* The invariant *)

LEMMA InitSInv == ASSUME Sequential PROVE Init => SInv
<1> SUFFICES ASSUME Init PROVE SInv
  OBVIOUS
<1>1. OInv
  BY InitOInv
<1>2. typed
  BY DEF Init, Sequential
<1>3. KeysAtHome
  BY DEF Init, KeysAtHome, KeysHeld, EmptyNodeType
<1>4. \A s \in Shard : LiveRels(rels[s]) = {}
  BY DEF Init, LiveRels, RelSlotsOf, EmptyRelationshipType
<1>5. EndsAreNodes
  BY <1>4 DEF EndsAreNodes
<1>6. \A c \in Client : op[c].step = "idle"
  BY DEF Init, Idle
<1>7. (\A c \in Client : Stands(c)) /\ SecondHalves
  BY <1>6 DEF Stands, RemovesNode, SecondHalves, SecondHalfOf
<1>8. \A s \in Shard : \A j \in Slot : incoming[s][j] = {}
  BY DEF Init
<1>9. LinksBack /\ GroupsAreThere
  BY <1>4, <1>8 DEF LinksBack, GroupsAreThere
<1> QED  BY <1>1, <1>2, <1>3, <1>5, <1>7, <1>9 DEF SInv, IsGraph, OInv

LEMMA NextSInv == ASSUME Sequential PROVE SInv /\ [Next]_vars => SInv'
<1> SUFFICES ASSUME SInv, [Next]_vars PROVE SInv'
  OBVIOUS
<1>1. IInv'
  BY NextIInv DEF SInv, IsGraph
<1>2. CASE UNCHANGED vars
  <2>1. IsGraph'
    BY <1>1, <1>2, SameGraph DEF SInv, vars
  <2>2. (\A c \in Client : Stands(c)') /\ SecondHalves'
    BY <1>2 DEF SInv, vars, Stands, IsLive, HasFarNeighbours, SecondHalves
  <2>3. LinksBack'
    <3>1. LinksBack /\ UNCHANGED <<rels, incoming, op>>
      BY <1>2 DEF SInv, vars
    <3>2. \A s \in Shard : \A i \in LiveRels(rels'[s]) : Mirrored(s, i)' \/ Owed(s, i)'
      BY <3>1, MirrorIs DEF LinksBack, Owed, At
    <3>3. \A s \in Shard : \A j \in Slot : \A l \in incoming'[s][j] :
             MirrorsARel(<<s, j>>, l)' \/ Leftover(s, j, l)'
      BY <3>1 DEF LinksBack, MirrorsARel, Leftover, At
    <3> QED  BY <3>2, <3>3 DEF LinksBack
  <2>4. typed' /\ GroupsAreThere'
    BY <1>2 DEF SInv, vars, GroupsAreThere
  <2> QED  BY <2>1, <2>2, <2>3, <2>4 DEF SInv
<1>3. CASE Next
  BY <1>1, <1>3, AddNodeIsSound, SameShardIsSound, FirstHalfIsSound, SecondHalfIsSound,
     TakeOutIsSound, RemoveIncomingIsSound, RemoveNodeIsSound, AsksIsSound, RemovalLooksIsSound,
     NeverReached
     DEF Next
<1> QED  BY <1>2, <1>3

LEMMA SInvHolds == ASSUME Sequential PROVE Spec => []SInv
BY InitSInv, NextSInv, PTL DEF Spec

\* One operation at a time, and no removal of a node with links to other shards: between
\* operations both directions of the links agree, across the shards, whatever was added and
\* removed before. RelationshipAddToIncoming, RelationshipRemoveIncoming and Shard::NodeRemove
\* each put right what the handler before them left.
THEOREM IncomingSideHolds == ASSUME Sequential PROVE Spec => []IncomingSide
<1>1. SInv => IncomingSide
  <2> SUFFICES ASSUME SInv, Quiescent PROVE IncomingSide
    BY DEF IncomingSide
  <2>1. \A c \in Client : op[c].step = "idle"
    BY DEF Quiescent, Idle
  <2>2. Settled
    BY <2>1, SettledNow
  <2> QED  BY <2>2 DEF Settled, IncomingSide
<1> QED  BY SInvHolds, <1>1, PTL

\* ... and the owning shard's two records of a relationship stay one to one, removals of nodes
\* included: FreedSlots, which looks at no more than the number of a slot, then frees only
\* relationships of the node.
THEOREM SequentialOwnerSideHolds == ASSUME Sequential PROVE Spec => []OwnerSide
<1>1. SInv => OwnerSide
  BY DEF SInv, IsGraph
<1> QED  BY SInvHolds, <1>1, PTL

\* ... and no relationship outlives its nodes.
THEOREM SequentialEndsAreNodesHolds == ASSUME Sequential PROVE Spec => []EndsAreNodes
<1>1. SInv => EndsAreNodes
  BY DEF SInv, IsGraph
<1> QED  BY SInvHolds, <1>1, PTL

-----------------------------------------------------------------------------
(* The refinement *)

\* A node is known by its key.
LEMMA KeyNamesNode ==
    ASSUME IsGraph, NEW m \in NodeId, NEW n \in NodeId, IsLive(m), IsLive(n),
           KeyOf(nodes[m[1]], m[2]) = KeyOf(nodes[n[1]], n[2])
    PROVE  m = n
<1> DEFINE k == KeyOf(nodes[n[1]], n[2])
<1>1. NodesOK /\ m[1] \in Shard /\ n[1] \in Shard /\ m = <<m[1], m[2]>> /\ n = <<n[1], n[2]>>
  BY DEF IsGraph, IInv, NodeId
<1>2. k \in KeysHeld(nodes[n[1]]) /\ k \in KeysHeld(nodes[m[1]])
  BY <1>1, LiveNodeHasKey
<1>3. ShardOf[k] = n[1] /\ ShardOf[k] = m[1]
  BY <1>1, <1>2 DEF IsGraph, KeysAtHome
<1>4. LiveSlotsAreNamed(nodes[n[1]]) /\ n[2] \in LiveSlots(nodes[n[1]]) /\ m[2] \in LiveSlots(nodes[n[1]])
  BY <1>1, <1>3 DEF NodesOK, WellFormed, SlotsAgree, IsLive
<1>5. nodes[n[1]].keyToNodeId[k] = n[2] /\ nodes[n[1]].keyToNodeId[k] = m[2]
  BY <1>3, <1>4 DEF LiveSlotsAreNamed
<1> QED  BY <1>1, <1>3, <1>5

\* Taking a node with what is its own is removing its vertex.
LEMMA TakesNodeIsRemoveVertex ==
    ASSUME IsGraph, NEW n, TakesNode(n)
    PROVE  Graph!Next
<1> DEFINE s0 == n[1]
           k == KeyOf(nodes[n[1]], n[2])
<1>1. /\ n \in NodeId /\ IsLive(n) /\ s0 \in Shard
      /\ \A m \in NodeId : IsLive(m) /\ m # n =>
            KeyOf(nodes'[m[1]], m[2]) = KeyOf(nodes[m[1]], m[2])
      /\ \A s \in Shard : KeysHeld(nodes'[s]) =
            IF s = s0 THEN KeysHeld(nodes[s]) \ {k} ELSE KeysHeld(nodes[s])
      /\ \A s \in Shard : \A i : i \in LiveRels(rels'[s]) <=>
            i \in LiveRels(rels[s]) /\ ~Touches(EndsOf(rels[s], i), n)
      /\ \A s \in Shard : \A i \in LiveRels(rels'[s]) : EndsOf(rels'[s], i) = EndsOf(rels[s], i)
  BY NodeIdParts DEF TakesNode
<1>2. k \in KeysHeld(nodes[s0]) /\ k \in Key
  BY <1>1, LiveNodeHasKey DEF IsGraph, IInv
<1>3. Vertices' = Vertices \ {k}
  <2>1. \A s \in Shard : k \in KeysHeld(nodes[s]) => s = s0
    BY <1>1, <1>2 DEF IsGraph, KeysAtHome
  <2> HIDE DEF k, s0
  <2>2. ASSUME NEW v PROVE v \in Vertices' <=> v \in Vertices /\ v # k
    BY <1>1, <2>1, VerticesAre
  <2> QED  BY <2>2
<1>4. ASSUME NEW s \in Shard, NEW i \in LiveRels(rels[s])
      PROVE  LET e == EndsOf(rels[s], i)
                 edge == EdgeIn(nodes, rels, s, i)
             IN  /\ e.from \in NodeId /\ IsLive(e.from) /\ e.to \in NodeId /\ IsLive(e.to)
                 /\ edge.from = k <=> e.from = n
                 /\ edge.to = k <=> e.to = n
  <2> DEFINE e == EndsOf(rels[s], i)
             edge == EdgeIn(nodes, rels, s, i)
  <2>1. e.from \in NodeId /\ e.to \in NodeId
    BY RelsLeadHome
  <2>2. IsLive(e.from) /\ IsLive(e.to)
    BY DEF IsGraph, EndsAreNodes
  <2>3. /\ edge.from = KeyOf(nodes[e.from[1]], e.from[2])
        /\ edge.to = KeyOf(nodes[e.to[1]], e.to[2])
    BY DEF EdgeIn
  <2> HIDE DEF e, edge
  <2>4. /\ KeyOf(nodes[e.from[1]], e.from[2]) = k <=> e.from = n
        /\ KeyOf(nodes[e.to[1]], e.to[2]) = k <=> e.to = n
    BY <1>1, <2>1, <2>2, KeyNamesNode
  <2> QED  BY <2>1, <2>2, <2>3, <2>4 DEF e, edge
<1>5. ASSUME NEW s \in Shard, NEW i \in LiveRels(rels'[s])
      PROVE  /\ i \in LiveRels(rels[s])
             /\ EdgeIn(nodes', rels', s, i) = EdgeIn(nodes, rels, s, i)
  <2> DEFINE e == EndsOf(rels[s], i)
  <2>1. i \in LiveRels(rels[s]) /\ EndsOf(rels'[s], i) = e /\ e.from # n /\ e.to # n
    BY <1>1 DEF Touches
  <2>2. /\ e.from \in NodeId /\ IsLive(e.from)
        /\ e.to \in NodeId /\ IsLive(e.to)
    BY <1>4, <2>1
  <2>3. /\ KeyOf(nodes'[e.from[1]], e.from[2]) = KeyOf(nodes[e.from[1]], e.from[2])
        /\ KeyOf(nodes'[e.to[1]], e.to[2]) = KeyOf(nodes[e.to[1]], e.to[2])
    BY <1>1, <2>1, <2>2
  <2> QED  BY <2>1, <2>3 DEF EdgeIn
<1> HIDE DEF k, s0
<1>6. Edges' = {e \in Edges : e.from # k /\ e.to # k}
  <2>1. ASSUME NEW e \in Edges' PROVE e \in Edges /\ e.from # k /\ e.to # k
    <3>1. PICK s \in Shard : \E i \in LiveRels(rels'[s]) : e = EdgeIn(nodes', rels', s, i)
      BY EdgesAre
    <3>2. PICK i \in LiveRels(rels'[s]) : e = EdgeIn(nodes', rels', s, i)
      BY <3>1
    <3>3. e = EdgeIn(nodes, rels, s, i) /\ i \in LiveRels(rels[s])
      BY <1>5, <3>2
    <3>4. EndsOf(rels[s], i).from # n /\ EndsOf(rels[s], i).to # n
      BY <1>1, <3>2 DEF Touches
    <3> QED  BY <1>4, <3>3, <3>4, EdgesAre
  <2>2. ASSUME NEW e \in Edges, e.from # k, e.to # k PROVE e \in Edges'
    <3>1. PICK s \in Shard : \E i \in LiveRels(rels[s]) : e = EdgeIn(nodes, rels, s, i)
      BY EdgesAre
    <3>2. PICK i \in LiveRels(rels[s]) : e = EdgeIn(nodes, rels, s, i)
      BY <3>1
    <3>3. ~Touches(EndsOf(rels[s], i), n)
      BY <1>4, <2>2, <3>2 DEF Touches
    <3>4. i \in LiveRels(rels'[s])
      BY <1>1, <3>2, <3>3
    <3> QED  BY <1>5, <3>2, <3>4, EdgesAre
  <2> QED  BY <2>1, <2>2
<1>7. k \in Vertices
  BY <1>1, <1>2, VerticesAre
<1> QED  BY <1>2, <1>3, <1>6, <1>7 DEF Graph!Next, Graph!RemoveVertex

\* What a step makes of nodes and relationships.
LEMMA SequentialStepKinds ==
    ASSUME Sequential, SInv, [Next]_vars
    PROVE  \/ \E c \in Client : \E k \in Key : AddNode(c, k)
           \/ UNCHANGED <<nodes, rels>>
           \/ StoresBetweenNodes
           \/ TakesOut
           \/ \E n \in NodeId : TakesNode(n)
<1>1. IsGraph /\ IInv /\ NodesOK
  BY DEF SInv, IsGraph, IInv
<1>2. CASE UNCHANGED vars
  BY <1>2 DEF vars
<1>3. ASSUME NEW c \in Client, NEW n1 \in NodeId, NEW n2 \in NodeId,
             RelationshipAddSameShard(c, n1, n2)
      PROVE  StoresBetweenNodes
  BY <1>1, <1>3, ValidIsNode DEF RelationshipAddSameShard, StoresBetweenNodes
<1>4. ASSUME NEW c \in Client, RelationshipAddToOutgoing(c)
      PROVE  StoresBetweenNodes \/ UNCHANGED <<nodes, rels>>
  <2>1. IsLive(op[c].other)
    BY <1>4 DEF SInv, Stands, RelationshipAddToOutgoing, At
  <2> QED  BY <1>1, <1>4, <2>1, FirstHalfStores
<1>5. ASSUME NEW c \in Client, RelationshipRemoveGetIncoming(c)
      PROVE  TakesOut
  BY <1>5, TakesItsOwn
<1>6. ASSUME NEW c \in Client, RemoveNode(c)
      PROVE  UNCHANGED <<nodes, rels>> \/ \E n \in NodeId : TakesNode(n)
  BY <1>6, RemovalTakesNode DEF graph, TakesNode
<1>7. ASSUME NEW c \in Client,
             \/ \E n1, n2 \in NodeId : RelationshipAddById(c, n1, n2)
             \/ \E k1, k2 \in Key : RelationshipAddByKey(c, k1, k2)
             \/ RelationshipAddToIncoming(c)
             \/ \E r \in RelId : RemoveRelationship(c, r)
             \/ RelationshipRemoveIncoming(c)
             \/ \E k \in Key : RemoveNodeByKey(c, k)
             \/ \E n \in NodeId : RemoveNodeById(c, n)
             \/ CheckNode(c)
             \/ NodeRemoveGetIncoming(c)
             \/ NodeRemoveGetOutgoing(c)
      PROVE  UNCHANGED <<nodes, rels>>
  BY <1>7, Zenon
     DEF graph, RelationshipAddById, RelationshipAddByKey, RelationshipAddToIncoming,
         RemoveRelationship, RelationshipRemoveIncoming, RemoveNodeByKey, RemoveNodeById, CheckNode,
         NodeRemoveGetIncoming, NodeRemoveGetOutgoing
<1>8. CASE Next
  BY <1>3, <1>4, <1>5, <1>6, <1>7, <1>8, NeverReached DEF Next
<1> QED  BY <1>2, <1>8

\* One operation at a time, and no removal of a node with links to other shards: the shards
\* together are a property graph under all operations. NodeRemovePeered is five handlers, and
\* the last takes the node, its relationships and nothing else, in one abstract step.
THEOREM SequentialRefinement == ASSUME Sequential PROVE Spec => ImplementsPropertyGraph
<1>1. Init => Graph!Init
  <2> SUFFICES ASSUME Init PROVE Vertices = {} /\ Edges = {}
    BY DEF Graph!Init
  <2>1. Vertices = {}
    BY DEF Init, Vertices, KeysHeld, EmptyNodeType
  <2>2. Edges = {}
    BY DEF Init, Edges, LiveRels, RelSlotsOf, EmptyRelationshipType
  <2> QED  BY <2>1, <2>2
<1>2. SInv /\ [Next]_vars => [Graph!Next]_(Graph!vars)
  <2> SUFFICES ASSUME SInv, [Next]_vars PROVE [Graph!Next]_(Graph!vars)
    OBVIOUS
  <2>1. IsGraph
    BY DEF SInv
  <2>2. CASE UNCHANGED <<nodes, rels>>
    <3>1. Vertices' = Vertices
      BY <2>2, VerticesAre
    <3>2. ASSUME NEW s, NEW i PROVE EdgeIn(nodes', rels', s, i) = EdgeIn(nodes, rels, s, i)
      BY <2>2, Zenon
    <3>3. \A s : LiveRels(rels'[s]) = LiveRels(rels[s])
      BY <2>2, Zenon
    <3>4. \A e : e \in Edges' <=> e \in Edges
      <4>1. \A s, i : i \in LiveRels(rels'[s]) <=> i \in LiveRels(rels[s])
        BY <3>3, Zenon
      <4> HIDE DEF EdgeIn
      <4> QED  BY <3>2, <4>1, EdgesAre
    <3>5. Edges' = Edges
      <4>1. \A e \in Edges' : e \in Edges
        BY <3>4, Zenon
      <4>2. \A e \in Edges : e \in Edges'
        BY <3>4, Zenon
      <4> QED  BY <4>1, <4>2
    <3> QED  BY <3>1, <3>5 DEF Graph!vars
  <2> QED
    BY <2>1, <2>2, SequentialStepKinds, AddNodeIsAddVertex, StoreIsAddEdge, TakeOutIsRemoveEdge,
       TakesNodeIsRemoveVertex
<1> QED  BY SInvHolds, <1>1, <1>2, PTL DEF Spec, ImplementsPropertyGraph, Graph!Spec

=============================================================================
