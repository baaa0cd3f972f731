---------------------------- MODULE Searches_proofs ----------------------------
(***************************************************************************)
(* What the path searches find, for every graph, every cost and every      *)
(* number of changes while they search.                                    *)
(*                                                                         *)
(* A search never looks at a link again: it trusts the parents it noted,   *)
(* whatever has become of the relationships since. That the parents lead   *)
(* back to the start is therefore a fact about the maps alone. In the      *)
(* breadth-first search it rests on depths: a parent is one level nearer   *)
(* its root, and levels are as deep as the hops spent. In Dijkstra's it    *)
(* rests on distances, but a relationship may cost nothing: of two nodes   *)
(* at the same distance the parent got its distance first.                 *)
(*                                                                         *)
(* That the path is the best there is holds while nothing changes, and     *)
(* rests on what the searches have not seen. A side of the breadth-first   *)
(* search has seen the whole ball around its start; balls that have no     *)
(* node in common leave no way of as many hops as their radii together.    *)
(* Dijkstra's has nodes that are done, and all they lead to has a distance *)
(* noted: every way to the end leaves them at a node that waits in the     *)
(* queue, and costs no less than its entry.                                *)
(*                                                                         *)
(* The order: chains of parents; reading links; the search from both ends; *)
(* Dijkstra's; all actions together. Then, while nothing changes: balls,   *)
(* ways and trails; the search from both ends; Dijkstra's; all actions     *)
(* together.                                                               *)
(***************************************************************************)
EXTENDS Searches, SequenceTheorems, FiniteSetTheorems, WellFoundedInduction, TLAPS

\* An entry of a map of parents, and such a map.
Parent == [node : Node \cup {0}, rel : Rel \cup {0}]

Parents == UNION {[S -> Parent] : S \in SUBSET Node}

\* Every node of a map of parents has its parent in the map, above it, but for the start.
Rooted(parent, start, above) ==
    /\ parent \in Parents
    /\ start \in DOMAIN parent /\ parent[start] = Root
    /\ \A m \in DOMAIN parent \ {start} :
          parent[m].node \in DOMAIN parent /\ <<parent[m].node, m>> \in above

StrictOrder(above) ==
    /\ \A a \in Node : <<a, a>> \notin above
    /\ \A a, b, c \in Node : <<a, b>> \in above /\ <<b, c>> \in above => <<a, c>> \in above

\* c goes up from n to the start, from parent to parent, and meets no node twice.
Leads(parent, start, n, c) ==
    /\ c \in Seq(Parent) /\ Len(c) \in Nat \ {0}
    /\ c[1].node = n /\ c[Len(c)].node = start
    /\ \A i \in 1 .. Len(c) : c[i].node \in DOMAIN parent
    /\ \A i \in 1 .. Len(c) - 1 : c[i].node # start /\ c[i + 1] = parent[c[i].node]
    /\ \A i, j \in 1 .. Len(c) : i # j => c[i].node # c[j].node

-----------------------------------------------------------------------------
(* Chains of parents *)

(* Least elements *)

\* A nonempty set of naturals has a least element.
\* (The sets 0 .. x are finite, and strict inclusion of finite sets is well-founded.)
LEMMA NatMin ==
    ASSUME NEW S, S \subseteq Nat, S # {}
    PROVE  \E m \in S : \A y \in S : m <= y
<1> DEFINE T == {0 .. x : x \in S}
<1>1. T \subseteq FiniteSubsetsOf(Nat)
  <2>1. ASSUME NEW x \in S PROVE IsFiniteSet(0 .. x) /\ 0 .. x \in SUBSET Nat
    <3>1. 0 \in Int /\ x \in Int
      OBVIOUS
    <3>2. IsFiniteSet(0 .. x)
      BY <3>1, FS_Interval
    <3> QED  BY <3>2
  <2> QED  BY <2>1 DEF FiniteSubsetsOf
<1>2. T # {}
  OBVIOUS
<1>3. PICK t \in T : \A u \in T : ~ (<<u, t>> \in StrictSubsetOrdering(Nat))
  <2> HIDE DEF T
  <2>1. IsWellFoundedOn(StrictSubsetOrdering(Nat), FiniteSubsetsOf(Nat))
    BY FS_StrictSubsetOrderingWellFounded
  <2> QED  BY <1>1, <1>2, <2>1, WFMin
<1>4. PICK m \in S : t = 0 .. m
  OBVIOUS
<1>5. ASSUME NEW y \in S PROVE m <= y
  <2>1. ~ (<<0 .. y, 0 .. m>> \in StrictSubsetOrdering(Nat))
    BY <1>3, <1>4
  <2>2. CASE y < m
    <3>1. m \in 0 .. m /\ m \notin 0 .. y
      BY <2>2
    <3>2. 0 .. y \subseteq 0 .. m
      BY <2>2
    <3>3. 0 .. y \in SUBSET Nat /\ 0 .. m \in SUBSET Nat
      OBVIOUS
    <3> QED  BY <2>1, <3>1, <3>2, <3>3 DEF StrictSubsetOrdering
  <2> QED  BY <2>2
<1> QED  BY <1>5

\* G followed k times from a.
Follows(T, a, G, k) == \E c \in [1 .. k -> T] : c = [i \in 1 .. k |-> IF i = 1 THEN a ELSE G[c[i - 1]]]

\* From any element a map of a set to itself can be followed any number of times: of the
\* numbers of times it could not, there would be a least.
LEMMA Followed ==
    ASSUME NEW T, NEW a \in T, NEW G \in [T -> T], NEW k \in Nat
    PROVE  Follows(T, a, G, k)
<1> DEFINE Can(m) == \E c \in [1 .. m -> T] : \A i \in 1 .. m : c[i] = IF i = 1 THEN a ELSE G[c[i - 1]]
<1>1. ASSUME NEW m \in Nat, Can(m) PROVE Can(m + 1)
  <2>1. PICK c \in [1 .. m -> T] : \A i \in 1 .. m : c[i] = IF i = 1 THEN a ELSE G[c[i - 1]]
    BY <1>1
  <2> DEFINE next == IF m = 0 THEN a ELSE G[c[m]]
             d == [i \in 1 .. m + 1 |-> IF i = m + 1 THEN next ELSE c[i]]
  <2>2. next \in T
    OBVIOUS
  <2> HIDE DEF next
  <2>3. d \in [1 .. m + 1 -> T]
    BY <2>2
  <2>4. ASSUME NEW i \in 1 .. m + 1 PROVE d[i] = IF i = 1 THEN a ELSE G[d[i - 1]]
    <3>1. CASE i = m + 1
      <4>1. d[i] = next
        BY <3>1
      <4>2. m # 0 => d[i - 1] = c[m]
        BY <3>1
      <4> QED  BY <3>1, <4>1, <4>2 DEF next
    <3>2. CASE i # m + 1
      <4>1. i \in 1 .. m
        BY <3>2
      <4>2. d[i] = c[i] /\ (i # 1 => d[i - 1] = c[i - 1])
        BY <4>1
      <4> QED  BY <2>1, <4>1, <4>2
    <3> QED  BY <3>1, <3>2
  <2> HIDE DEF d
  <2> QED  BY <2>3, <2>4
<1>2. Can(0)
  <2> DEFINE e == [i \in 1 .. 0 |-> a]
  <2>1. e \in [1 .. 0 -> T]
    OBVIOUS
  <2>2. \A i \in 1 .. 0 : FALSE
    OBVIOUS
  <2> HIDE DEF e
  <2>3. \A i \in 1 .. 0 : e[i] = IF i = 1 THEN a ELSE G[e[i - 1]]
    BY <2>2
  <2> QED  BY <2>1, <2>3
<1>3. Can(k)
  <2> HIDE DEF Can
  <2> SUFFICES ASSUME ~Can(k) PROVE FALSE
    OBVIOUS
  <2> DEFINE Bad == {m \in Nat : ~Can(m)}
  <2>1. Bad \subseteq Nat /\ Bad # {}
    OBVIOUS
  <2>2. PICK m \in Bad : \A y \in Bad : m <= y
    <3> HIDE DEF Bad
    <3> QED  BY <2>1, NatMin
  <2>3. m # 0
    BY <1>2
  <2>4. m - 1 \in Nat /\ m - 1 \notin Bad
    BY <2>2, <2>3
  <2>5. Can(m - 1 + 1)
    BY <1>1, <2>4
  <2>6. m - 1 + 1 = m
    BY <2>4
  <2> QED  BY <2>5, <2>6
<1>4. PICK c \in [1 .. k -> T] : \A i \in 1 .. k : c[i] = IF i = 1 THEN a ELSE G[c[i - 1]]
  BY <1>3
<1>5. c = [i \in 1 .. k |-> IF i = 1 THEN a ELSE G[c[i - 1]]]
  BY <1>4
<1> QED  BY <1>5 DEF Follows

\* The chain of parents from a node of the map ends at the start.
LEMMA ChainLeads ==
    ASSUME NEW parent, NEW start, NEW above, NEW n \in DOMAIN parent,
           Rooted(parent, start, above), StrictOrder(above)
    PROVE  Leads(parent, start, n, Chain(parent, n))
<1> DEFINE up == [m \in Node \cup {0} |-> IF m \in DOMAIN parent THEN parent[m] ELSE Root]
           far == Cardinality(Node) + 1
           first == [node |-> n, rel |-> 0]
           G == [p \in Parent |-> up[p.node]]
<1>1. DOMAIN parent \subseteq Node /\ parent \in [DOMAIN parent -> Parent]
  BY DEF Rooted, Parents
<1>2. /\ 0 \notin Node /\ IsFiniteSet(Node) /\ Cardinality(Node) \in Nat
  BY SearchesAssumption, FS_CardinalityType
<1>3. Root \in Parent /\ first \in Parent /\ Root.node = 0 /\ first # Root
  BY <1>1, <1>2 DEF Root, Parent
<1>4. up \in [Node \cup {0} -> Parent] /\ up[0] = Root
  BY <1>1, <1>2, <1>3
<1>5. G \in [Parent -> Parent]
  <2> HIDE DEF up
  <2> QED  BY <1>4 DEF Parent
<1>6. \E f : f = [i \in 1 .. far |-> IF i = 1 THEN first ELSE up[f[i - 1].node]]
  <2>1. far \in Nat
    BY <1>2
  <2> HIDE DEF far, G, first
  <2>2. PICK c \in [1 .. far -> Parent] : c = [i \in 1 .. far |-> IF i = 1 THEN first ELSE G[c[i - 1]]]
    <3>1. Follows(Parent, first, G, far)
      BY <1>3, <1>5, <2>1, Followed
    <3> QED  BY <3>1 DEF Follows
  <2>3. \A i \in 1 .. far : i # 1 => c[i - 1] \in Parent
    BY <2>1
  <2>4. \A i \in 1 .. far : i # 1 => G[c[i - 1]] = up[c[i - 1].node]
    BY <2>3 DEF G
  <2> HIDE DEF up
  <2>5. [i \in 1 .. far |-> IF i = 1 THEN first ELSE G[c[i - 1]]]
          = [i \in 1 .. far |-> IF i = 1 THEN first ELSE up[c[i - 1].node]]
    BY <2>4
  <2> QED  BY <2>2, <2>5
<1> DEFINE chain == CHOOSE f : f = [i \in 1 .. far |-> IF i = 1 THEN first ELSE up[f[i - 1].node]]
           length == Max({i \in DOMAIN chain : chain[i] # Root})
<1>7. Chain(parent, n) = [i \in 1 .. length |-> chain[i]]
  BY DEF Chain
<1>8. chain = [i \in 1 .. far |-> IF i = 1 THEN first ELSE up[chain[i - 1].node]]
  <2> HIDE DEF far, first, up
  <2> QED  BY <1>6, Zenon
<1> HIDE DEF chain
<1>9. far \in Nat /\ far >= 1
  BY <1>2
<1> HIDE DEF far
<1>10. chain[1] = first /\ \A i \in 1 .. far : i # 1 => chain[i] = up[chain[i - 1].node]
  <2> HIDE DEF up, first
  <2> QED  BY <1>8, <1>9
<1> DEFINE Non == {i \in 1 .. far : chain[i] # Root}
\* What is not the root is a node of the map.
<1>11. ASSUME NEW i \in 1 .. far, chain[i] # Root
       PROVE  chain[i] \in Parent /\ chain[i].node \in DOMAIN parent
  <2> DEFINE Bad == {m \in 1 .. far : chain[m] # Root /\ ~ (chain[m] \in Parent /\ chain[m].node \in DOMAIN parent)}
  <2> SUFFICES ASSUME i \in Bad PROVE FALSE
    BY <1>11
  <2>1. Bad \subseteq Nat /\ Bad # {}
    OBVIOUS
  <2>2. PICK m \in Bad : \A y \in Bad : m <= y
    <3> HIDE DEF Bad
    <3> QED  BY <2>1, NatMin
  <2>3. m # 1
    <3>1. first \in Parent /\ first.node \in DOMAIN parent
      BY <1>3
    <3> HIDE DEF first
    <3> QED  BY <1>10, <2>2, <3>1
  <2>4. m - 1 \in 1 .. far /\ m - 1 \notin Bad /\ m \in 1 .. far
    BY <1>9, <2>2, <2>3
  <2>5. chain[m] = up[chain[m - 1].node]
    BY <1>10, <2>3, <2>4
  <2>6. chain[m - 1] # Root
    <3> HIDE DEF up
    <3> QED  BY <1>3, <1>4, <2>2, <2>5
  <2>7. chain[m - 1].node \in DOMAIN parent
    BY <2>4, <2>6
  <2>8. chain[m] = parent[chain[m - 1].node] /\ chain[m - 1].node \in DOMAIN parent
    BY <1>1, <2>5, <2>7
  <2>9. chain[m] \in Parent
    BY <1>1, <2>8
  <2>10. chain[m].node \in DOMAIN parent
    BY <2>2, <2>8 DEF Rooted
  <2> QED  BY <2>2, <2>9, <2>10
\* And the one before it is one as well, below it.
<1>12. ASSUME NEW i \in 1 .. far, i # 1, chain[i] # Root
       PROVE  /\ i - 1 \in 1 .. far /\ chain[i - 1] # Root
              /\ chain[i - 1].node \in DOMAIN parent
              /\ chain[i - 1].node # start
              /\ chain[i] = parent[chain[i - 1].node]
              /\ <<chain[i].node, chain[i - 1].node>> \in above
  <2>1. i - 1 \in 1 .. far
    BY <1>9, <1>12
  <2>2. chain[i] = up[chain[i - 1].node]
    BY <1>10, <1>12
  <2>3. chain[i - 1] # Root
    <3> HIDE DEF up
    <3> QED  BY <1>3, <1>4, <1>12, <2>2
  <2>4. chain[i - 1].node \in DOMAIN parent
    BY <1>11, <2>1, <2>3
  <2>5. chain[i] = parent[chain[i - 1].node]
    BY <1>1, <2>2, <2>4
  <2>6. chain[i - 1].node # start
    BY <1>12, <2>5 DEF Rooted
  <2>7. <<chain[i].node, chain[i - 1].node>> \in above
    BY <2>4, <2>5, <2>6 DEF Rooted
  <2> QED  BY <2>1, <2>3, <2>4, <2>5, <2>6, <2>7
<1> HIDE DEF up, first, G
\* So the later is above the earlier.
<1>13. ASSUME NEW i \in 1 .. far, NEW j \in 1 .. far, i < j, chain[j] # Root
       PROVE  chain[i] # Root /\ <<chain[j].node, chain[i].node>> \in above
  <2> DEFINE Bad == {m \in 1 .. far : m < j /\ ~ (chain[m] # Root /\ <<chain[j].node, chain[m].node>> \in above)}
             Back == {j - m : m \in Bad}
  <2> SUFFICES ASSUME i \in Bad PROVE FALSE
    BY <1>13
  <2>1. Back \subseteq Nat /\ Back # {}
    <3>1. \A m \in Bad : j - m \in Nat
      BY <1>9
    <3>2. j - i \in Back
      OBVIOUS
    <3> HIDE DEF Bad
    <3> QED  BY <3>1, <3>2
  <2>2. PICK b \in Back : \A y \in Back : b <= y
    <3> HIDE DEF Back
    <3> QED  BY <2>1, NatMin
  <2>3. PICK m \in Bad : b = j - m
    OBVIOUS
  <2>4. m \in 1 .. far /\ m < j /\ m + 1 \in 1 .. far /\ m + 1 <= j
    BY <1>9
  <2>5. m + 1 \notin Bad
    <3> SUFFICES ASSUME m + 1 \in Bad PROVE FALSE
      OBVIOUS
    <3>1. j - (m + 1) \in Back
      OBVIOUS
    <3>2. b <= j - (m + 1)
      BY <2>2, <3>1
    <3> QED  BY <2>3, <2>4, <3>2
  <2>6. chain[m + 1] # Root /\ (m + 1 # j => <<chain[j].node, chain[m + 1].node>> \in above)
    <3>1. CASE m + 1 = j
      BY <1>13, <3>1
    <3>2. CASE m + 1 # j
      BY <2>4, <2>5, <3>2
    <3> QED  BY <3>1, <3>2
  <2>7. chain[m] # Root /\ <<chain[m + 1].node, chain[m].node>> \in above
    <3>1. m + 1 # 1 /\ m + 1 - 1 = m
      BY <2>4
    <3>2. chain[m + 1 - 1] # Root /\ <<chain[m + 1].node, chain[m + 1 - 1].node>> \in above
      BY <1>12, <2>4, <2>6, <3>1
    <3> QED  BY <3>1, <3>2
  <2>8. chain[m].node \in Node /\ chain[m + 1].node \in Node /\ chain[j].node \in Node
    BY <1>1, <1>11, <1>13, <2>4, <2>6, <2>7
  <2>9. <<chain[j].node, chain[m].node>> \in above
    <3>1. CASE m + 1 = j
      BY <2>7, <3>1
    <3>2. CASE m + 1 # j
      BY <2>6, <2>7, <2>8, <3>2 DEF StrictOrder
    <3> QED  BY <3>1, <3>2
  <2> QED  BY <2>3, <2>7, <2>9
<1>14. ASSUME NEW i \in Non, NEW j \in Non, i # j PROVE chain[i].node # chain[j].node
  <2>1. chain[i].node \in Node /\ chain[j].node \in Node
    BY <1>1, <1>11
  <2>2. CASE i < j
    BY <1>13, <2>1, <2>2 DEF StrictOrder
  <2>3. CASE j < i
    BY <1>13, <2>1, <2>3 DEF StrictOrder
  <2> QED  BY <1>9, <1>14, <2>2, <2>3
\* There are too few nodes for it to go on.
<1>15. \E i \in 1 .. far : chain[i] = Root
  <2> SUFFICES ASSUME \A i \in 1 .. far : chain[i] # Root PROVE FALSE
    OBVIOUS
  <2> DEFINE f == [i \in 1 .. far |-> chain[i].node]
  <2>1. f \in [1 .. far -> Node]
    BY <1>1, <1>11
  <2>2. IsFiniteSet(1 .. far) /\ Cardinality(1 .. far) = far
    <3>1. 1 \in Int /\ far \in Int
      BY <1>9
    <3>2. IsFiniteSet(1 .. far) /\ Cardinality(1 .. far) = IF 1 > far THEN 0 ELSE far - 1 + 1
      BY <3>1, FS_Interval
    <3> QED  BY <1>9, <3>2
  <2>3. Cardinality(Node) < Cardinality(1 .. far)
    BY <1>2, <2>2 DEF far
  <2>4. \E x, y \in 1 .. far : x # y /\ f[x] = f[y]
    <3> HIDE DEF f
    <3> QED  BY <1>2, <2>1, <2>2, <2>3, FS_PigeonHole
  <2> QED  BY <1>14, <2>4
<1>16. PICK k \in 1 .. far : chain[k] = Root /\ \A i \in 1 .. far : chain[i] = Root => k <= i
  <2> DEFINE Ended == {i \in 1 .. far : chain[i] = Root}
  <2>1. Ended \subseteq Nat /\ Ended # {}
    BY <1>15
  <2>2. PICK k \in Ended : \A y \in Ended : k <= y
    <3> HIDE DEF Ended
    <3> QED  BY <2>1, NatMin
  <2> QED  BY <2>2
<1>17. k # 1 /\ k - 1 \in 1 .. far
  BY <1>3, <1>9, <1>10, <1>16
<1>18. Non = 1 .. k - 1
  <2>1. ASSUME NEW i \in Non PROVE i < k
    <3> SUFFICES ASSUME ~(i < k) PROVE FALSE
      OBVIOUS
    <3>1. k < i
      BY <1>16
    <3> QED  BY <1>13, <1>16, <3>1
  <2>2. ASSUME NEW i \in 1 .. k - 1 PROVE i \in Non
    <3>1. i \in 1 .. far /\ i < k
      BY <1>9, <1>16
    <3> QED  BY <1>16, <3>1
  <2> QED  BY <2>1, <2>2
<1>19. length = k - 1
  <2>1. {i \in DOMAIN chain : chain[i] # Root} = Non
    BY <1>8
  <2>2. length = Max(1 .. k - 1)
    BY <1>18, <2>1
  <2>3. k - 1 \in 1 .. k - 1 /\ \A y \in 1 .. k - 1 : k - 1 >= y
    BY <1>17
  <2>4. \A x \in 1 .. k - 1 : (\A y \in 1 .. k - 1 : x >= y) => x = k - 1
    BY <2>3
  <2>5. Max(1 .. k - 1) = k - 1
    BY <2>3, <2>4 DEF Max
  <2> QED  BY <2>2, <2>5
<1> HIDE DEF length
<1> DEFINE c == [i \in 1 .. k - 1 |-> chain[i]]
<1>20. Chain(parent, n) = c
  BY <1>7, <1>19
<1>21. \A i \in 1 .. k - 1 : i \in 1 .. far /\ chain[i] # Root /\ i \in Non
  BY <1>16, <1>18
<1>22. c \in Seq(Parent) /\ Len(c) = k - 1 /\ k - 1 \in Nat \ {0}
  BY <1>11, <1>17, <1>21
<1>23. c[1].node = n
  BY <1>10, <1>17 DEF first
<1>24. c[k - 1].node = start
  <2>1. chain[k] = up[chain[k - 1].node]
    BY <1>10, <1>17
  <2>2. chain[k - 1].node \in DOMAIN parent
    BY <1>11, <1>17, <1>21
  <2>3. parent[chain[k - 1].node] = Root
    BY <1>1, <1>16, <2>1, <2>2 DEF up
  <2>4. chain[k - 1].node = start
    BY <1>1, <1>2, <1>3, <2>2, <2>3 DEF Rooted
  <2> QED  BY <1>17, <2>4
<1>25. \A i \in 1 .. k - 1 : c[i].node \in DOMAIN parent
  BY <1>11, <1>21
<1>26. ASSUME NEW i \in 1 .. k - 2 PROVE c[i].node # start /\ c[i + 1] = parent[c[i].node]
  <2>1. i \in 1 .. k - 1 /\ i + 1 \in 1 .. k - 1 /\ i + 1 # 1 /\ i + 1 - 1 = i
    BY <1>17
  <2>2. chain[i + 1] # Root /\ i + 1 \in 1 .. far
    BY <1>21, <2>1
  <2>3. chain[i + 1 - 1].node # start /\ chain[i + 1] = parent[chain[i + 1 - 1].node]
    <3> DEFINE j == i + 1
    <3>1. j \in 1 .. far /\ j # 1 /\ chain[j] # Root
      BY <2>1, <2>2
    <3> HIDE DEF j
    <3>2. chain[j - 1].node # start /\ chain[j] = parent[chain[j - 1].node]
      BY <1>12, <3>1
    <3> QED  BY <3>2 DEF j
  <2> QED  BY <2>1, <2>3
<1>27. \A i, j \in 1 .. k - 1 : i # j => c[i].node # c[j].node
  BY <1>14, <1>21
<1> HIDE DEF c
<1>28. Leads(parent, start, n, c)
  <2>1. k - 1 - 1 = k - 2
    BY <1>17
  <2> QED  BY <1>22, <1>23, <1>24, <1>25, <1>26, <1>27, <2>1 DEF Leads
<1> QED  BY <1>20, <1>28

\* Depths of the nodes in a map of parents.
Deepens(parent, start, depth) ==
    /\ depth \in [Node -> Nat]
    /\ depth[start] = 0
    /\ \A m \in DOMAIN parent \ {start} : depth[m] = depth[parent[m].node] + 1

\* The order of the depths.
Shallower(depth) == {e \in Node \X Node : depth[e[1]] < depth[e[2]]}

LEMMA ShallowerIsStrict ==
    ASSUME NEW depth \in [Node -> Nat]
    PROVE  StrictOrder(Shallower(depth))
<1>1. \A a \in Node : depth[a] \in Nat
  OBVIOUS
<1> QED  BY <1>1 DEF StrictOrder, Shallower

\* A chain is as long as its node is deep.
LEMMA DepthOfChain ==
    ASSUME NEW parent \in Parents, NEW start, NEW n, NEW c, NEW depth,
           Leads(parent, start, n, c), Deepens(parent, start, depth)
    PROVE  Len(c) = depth[n] + 1
<1> DEFINE L == Len(c)
<1>1. L \in Nat \ {0} /\ c[1].node = n /\ c[L].node = start
  BY DEF Leads
<1>2. DOMAIN parent \subseteq Node /\ \A i \in 1 .. L : c[i].node \in DOMAIN parent
  BY DEF Leads, Parents
<1>3. \A i \in 1 .. L : depth[c[i].node] \in Nat
  BY <1>2 DEF Deepens
<1>4. ASSUME NEW i \in 1 .. L - 1 PROVE depth[c[i].node] = depth[c[i + 1].node] + 1
  <2>1. c[i].node \in DOMAIN parent \ {start} /\ c[i + 1] = parent[c[i].node]
    BY <1>1, <1>2 DEF Leads
  <2> QED  BY <2>1 DEF Deepens
<1> HIDE DEF L
<1>5. ASSUME NEW i \in 1 .. L PROVE depth[c[i].node] = L - i
  <2> DEFINE Bad == {j \in 1 .. L : depth[c[j].node] # L - j}
             Back == {L - j : j \in Bad}
  <2> SUFFICES ASSUME i \in Bad PROVE FALSE
    BY <1>5
  <2>1. Back \subseteq Nat /\ Back # {}
    <3>1. \A j \in Bad : L - j \in Nat
      BY <1>1
    <3>2. L - i \in Back
      OBVIOUS
    <3> HIDE DEF Bad
    <3> QED  BY <3>1, <3>2
  <2>2. PICK b \in Back : \A y \in Back : b <= y
    <3> HIDE DEF Back
    <3> QED  BY <2>1, NatMin
  <2>3. PICK j \in Bad : b = L - j
    OBVIOUS
  <2>4. j # L
    <3>1. depth[c[L].node] = 0 /\ L - L = 0
      BY <1>1 DEF Deepens
    <3> QED  BY <3>1
  <2>5. j \in 1 .. L - 1 /\ j + 1 \in 1 .. L
    BY <1>1, <2>4
  <2>6. j + 1 \notin Bad
    <3> SUFFICES ASSUME j + 1 \in Bad PROVE FALSE
      OBVIOUS
    <3>1. L - (j + 1) \in Back
      OBVIOUS
    <3>2. b <= L - (j + 1)
      BY <2>2, <3>1
    <3> QED  BY <1>1, <2>3, <2>5, <3>2
  <2>7. depth[c[j + 1].node] = L - (j + 1)
    BY <2>5, <2>6
  <2>8. depth[c[j].node] = L - (j + 1) + 1
    BY <1>4, <2>5, <2>7
  <2>9. L - (j + 1) + 1 = L - j
    BY <1>1, <2>5
  <2> QED  BY <2>3, <2>8, <2>9
<1>6. 1 \in 1 .. L
  BY <1>1
<1>7. depth[n] = L - 1
  BY <1>1, <1>5, <1>6
<1> QED  BY <1>1, <1>7 DEF L

-----------------------------------------------------------------------------
(* Paths made of chains *)

\* What TracesBack asks of the nodes and relationships found.
GoodPath(nodes, rels, from, to) ==
    /\ nodes[1] = from /\ Last(nodes) = to
    /\ Len(nodes) = Len(rels) + 1
    /\ \A i, j \in 1 .. Len(nodes) : i # j => nodes[i] # nodes[j]

\* The chain itself, backwards.
LEMMA BackwardsIsPath ==
    ASSUME NEW parent \in Parents, NEW start, NEW n, NEW c, Leads(parent, start, n, c)
    PROVE  GoodPath(Reverse(NodesOf(c)), Reverse(RelsOf(c)), start, n)
<1> DEFINE L == Len(c)
           nodes == Reverse(NodesOf(c))
           rels == Reverse(RelsOf(c))
<1>1. L \in Nat \ {0} /\ c[1].node = n /\ c[L].node = start
  BY DEF Leads
<1>2. c \in Seq(Parent)
  BY DEF Leads
<1>3. \A i, j \in 1 .. L : i # j => c[i].node # c[j].node
  BY DEF Leads
<1> HIDE DEF L
<1>4. NodesOf(c) = [i \in 1 .. L |-> c[i].node] /\ Len(NodesOf(c)) = L
  BY <1>1 DEF NodesOf, L
<1>5. RelsOf(c) = [i \in 1 .. L - 1 |-> c[i + 1].rel] /\ Len(RelsOf(c)) = L - 1
  BY <1>1 DEF RelsOf, L
<1>6. nodes = [i \in 1 .. L |-> c[L - i + 1].node] /\ Len(nodes) = L
  <2>1. nodes = [i \in 1 .. L |-> NodesOf(c)[L - i + 1]]
    BY <1>4 DEF Reverse
  <2>2. \A i \in 1 .. L : L - i + 1 \in 1 .. L
    BY <1>1
  <2> QED  BY <1>1, <1>4, <2>1, <2>2
<1>7. Len(rels) = L - 1
  <2>1. rels = [i \in 1 .. L - 1 |-> RelsOf(c)[L - 1 - i + 1]]
    BY <1>5 DEF Reverse
  <2> QED  BY <1>1, <2>1
<1> HIDE DEF nodes, rels
<1>8. nodes[1] = start
  BY <1>1, <1>6
<1>9. Last(nodes) = n
  <2>1. L \in 1 .. L /\ L - L + 1 = 1
    BY <1>1
  <2> QED  BY <1>1, <1>6, <2>1 DEF Last
<1>10. ASSUME NEW i \in 1 .. L, NEW j \in 1 .. L, i # j PROVE nodes[i] # nodes[j]
  <2>1. L - i + 1 \in 1 .. L /\ L - j + 1 \in 1 .. L /\ L - i + 1 # L - j + 1
    BY <1>1, <1>10
  <2> QED  BY <1>3, <1>6, <2>1
<1>11. GoodPath(nodes, rels, start, n)
  BY <1>1, <1>6, <1>7, <1>8, <1>9, <1>10 DEF GoodPath
<1> QED  BY <1>11 DEF nodes, rels

LEMMA BackwardsAreSequences ==
    ASSUME NEW parent \in Parents, NEW start, NEW n, NEW c, Leads(parent, start, n, c)
    PROVE  \E S, T : Reverse(NodesOf(c)) \in Seq(S) /\ Reverse(RelsOf(c)) \in Seq(T)
<1> DEFINE L == Len(c)
           S == {c[i].node : i \in 1 .. L}
           T == {c[i].rel : i \in 1 .. L}
<1>1. L \in Nat \ {0}
  BY DEF Leads
<1>2. NodesOf(c) \in Seq(S)
  BY <1>1 DEF NodesOf
<1>3. RelsOf(c) \in Seq(T)
  <2>1. L - 1 \in Nat /\ \A i \in 1 .. L - 1 : i + 1 \in 1 .. L
    BY <1>1
  <2> QED  BY <2>1 DEF RelsOf
<1> HIDE DEF S, T
<1>4. ASSUME NEW U, NEW s \in Seq(U) PROVE Reverse(s) \in Seq(U)
  <2>1. Len(s) \in Nat /\ \A i \in 1 .. Len(s) : Len(s) - i + 1 \in 1 .. Len(s)
    OBVIOUS
  <2> QED  BY <2>1 DEF Reverse
<1>5. Reverse(NodesOf(c)) \in Seq(S) /\ Reverse(RelsOf(c)) \in Seq(T)
  BY <1>2, <1>3, <1>4
<1> QED  BY <1>5

\* What Cut leaves: the start, and the last relationships and the nodes they lead to.
Shortened(c, T, nodes, rels) ==
    LET over == Len(rels) - TraceLimit
    IN  /\ c = [nodes |-> c.nodes, rels |-> c.rels]
        /\ c.rels \in Seq(T)
        /\ over <= 0 => c.nodes = nodes /\ c.rels = rels
        /\ over > 0 => /\ Len(c.rels) = TraceLimit /\ Len(c.nodes) = TraceLimit + 1
                       /\ c.nodes[1] = nodes[1]
                       /\ \A i \in 2 .. TraceLimit + 1 : c.nodes[i] = nodes[over + i]

LEMMA CutIs ==
    ASSUME NEW S, NEW T, NEW nodes \in Seq(S), NEW rels \in Seq(T), Len(nodes) = Len(rels) + 1
    PROVE  Shortened(Cut([nodes |-> nodes, rels |-> rels]), T, nodes, rels)
<1> DEFINE p == [nodes |-> nodes, rels |-> rels]
           over == Len(rels) - TraceLimit
           N == Len(nodes)
           R == Len(rels)
<1>1. TraceLimit \in Nat \ {0} /\ R \in Nat /\ N = R + 1 /\ over \in Int
  BY SearchesAssumption
<1>2. CASE over <= 0
  <2>1. Cut(p) = p
    BY <1>2 DEF Cut
  <2>2. ~(over > 0)
    BY <1>1, <1>2
  <2>3. Shortened(p, T, nodes, rels)
    BY <2>2 DEF Shortened
  <2> QED  BY <2>1, <2>3
<1>3. CASE over > 0
  <2> DEFINE cn == SubSeq(nodes, over + 2, N)
             cr == SubSeq(rels, over + 1, R)
  <2>1. Cut(p) = [nodes |-> <<nodes[1]>> \o cn, rels |-> cr]
    <3>1. ~(over <= 0)
      BY <1>1, <1>3
    <3> QED  BY <3>1 DEF Cut
  <2>2. /\ over + 1 \in Int /\ over + 2 \in Int /\ N \in Int /\ over + 1 <= R /\ over + 2 <= N
        /\ \A i \in over + 1 .. R : rels[i] \in T
        /\ \A i \in over + 2 .. N : nodes[i] \in S
    BY <1>1, <1>3
  <2>3. /\ cr \in Seq(T) /\ Len(cr) = R - (over + 1) + 1
    BY <1>1, <2>2, SubSeqProperties
  <2>4. /\ cn \in Seq(S) /\ Len(cn) = N - (over + 2) + 1
        /\ \A i \in 1 .. N - (over + 2) + 1 : cn[i] = nodes[over + 2 + i - 1]
    BY <1>1, <2>2, SubSeqProperties
  <2> HIDE DEF cn, cr
  <2>5. R - (over + 1) + 1 = TraceLimit /\ N - (over + 2) + 1 = TraceLimit
    BY <1>1
  <2>6. nodes[1] \in S
    BY <1>1
  <2> DEFINE all == <<nodes[1]>> \o cn
  <2>7. Len(all) = TraceLimit + 1 /\ all[1] = nodes[1]
    BY <1>1, <2>4, <2>5, <2>6
  <2>8. ASSUME NEW i \in 2 .. TraceLimit + 1 PROVE all[i] = nodes[over + i]
    <3>1. all[i] = cn[i - 1]
      BY <1>1, <2>4, <2>5, <2>6
    <3>2. i - 1 \in 1 .. TraceLimit /\ over + 2 + (i - 1) - 1 = over + i
      BY <1>1
    <3> DEFINE j == i - 1
    <3>3. j \in 1 .. N - (over + 2) + 1 /\ over + 2 + j - 1 = over + i
      BY <2>5, <3>2
    <3> HIDE DEF j, all
    <3>4. cn[j] = nodes[over + 2 + j - 1]
      BY <2>4, <3>3
    <3> QED  BY <3>1, <3>3, <3>4 DEF j
  <2> HIDE DEF all
  <2>9. Cut(p) = [nodes |-> all, rels |-> cr]
    BY <2>1 DEF all
  <2>10. ~(over <= 0) /\ Len(cr) = TraceLimit
    BY <1>1, <1>3, <2>3, <2>5
  <2>11. Shortened([nodes |-> all, rels |-> cr], T, nodes, rels)
    BY <2>3, <2>7, <2>8, <2>10 DEF Shortened
  <2> QED  BY <2>9, <2>11
<1> QED  BY <1>1, <1>2, <1>3

\* It still leads from the start to the end.
LEMMA CutKeepsPath ==
    ASSUME NEW S, NEW T, NEW nodes \in Seq(S), NEW rels \in Seq(T), NEW from, NEW to, GoodPath(nodes, rels, from, to)
    PROVE  LET c == Cut([nodes |-> nodes, rels |-> rels]) IN GoodPath(c.nodes, c.rels, from, to)
<1> DEFINE c == Cut([nodes |-> nodes, rels |-> rels])
           over == Len(rels) - TraceLimit
           N == Len(nodes)
<1>1. /\ nodes[1] = from /\ nodes[N] = to /\ N = Len(rels) + 1
      /\ \A i, j \in 1 .. N : i # j => nodes[i] # nodes[j]
  BY DEF GoodPath, Last
<1>0. Shortened(c, T, nodes, rels)
  BY <1>1, CutIs
<1>2. /\ over <= 0 => c.nodes = nodes /\ c.rels = rels
      /\ over > 0 => /\ Len(c.rels) = TraceLimit /\ Len(c.nodes) = TraceLimit + 1
                     /\ c.nodes[1] = nodes[1]
                     /\ \A i \in 2 .. TraceLimit + 1 : c.nodes[i] = nodes[over + i]
  <2> HIDE DEF c
  <2> QED  BY <1>0 DEF Shortened
<1>3. TraceLimit \in Nat \ {0} /\ Len(rels) \in Nat /\ over \in Int
  BY SearchesAssumption
<1> HIDE DEF c
<1>4. ASSUME over <= 0 PROVE GoodPath(c.nodes, c.rels, from, to)
  BY <1>2, <1>4
<1>5. ASSUME over > 0 PROVE GoodPath(c.nodes, c.rels, from, to)
  <2> DEFINE at(i) == IF i = 1 THEN 1 ELSE over + i
  <2>1. \A i \in 1 .. TraceLimit + 1 : at(i) \in 1 .. N /\ c.nodes[i] = nodes[at(i)]
    <3> TAKE i \in 1 .. TraceLimit + 1
    <3>1. CASE i = 1
      BY <1>1, <1>2, <1>3, <1>5, <3>1
    <3>2. CASE i # 1
      <4>1. i \in 2 .. TraceLimit + 1
        BY <1>3, <3>2
      <4>2. over + i \in 1 .. N
        BY <1>1, <1>3, <1>5, <4>1
      <4> QED  BY <1>2, <1>5, <3>2, <4>1, <4>2
    <3> QED  BY <3>1, <3>2
  <2>2. \A i, j \in 1 .. TraceLimit + 1 : i # j => at(i) # at(j)
    BY <1>3, <1>5
  <2>3. at(TraceLimit + 1) = N /\ TraceLimit + 1 \in 1 .. TraceLimit + 1
    BY <1>1, <1>3
  <2> HIDE DEF at
  <2>4. \A i, j \in 1 .. TraceLimit + 1 : i # j => c.nodes[i] # c.nodes[j]
    BY <1>1, <2>1, <2>2
  <2>5. c.nodes[TraceLimit + 1] = to
    BY <1>1, <2>1, <2>3
  <2>6. Len(c.rels) = TraceLimit /\ Len(c.nodes) = TraceLimit + 1 /\ c.nodes[1] = from
    BY <1>1, <1>2, <1>5
  <2> QED  BY <2>4, <2>5, <2>6 DEF GoodPath, Last
<1> QED  BY <1>3, <1>4, <1>5 DEF c

\* Two chains that have only the node in common where they begin: one backwards, then the
\* other.
LEMMA MeetingIsPath ==
    ASSUME NEW forth, NEW back, NEW from, NEW to, NEW n,
           NEW pf \in Parents, NEW pb \in Parents,
           Leads(pf, from, n, forth), Leads(pb, to, n, back),
           \A m : m \in DOMAIN pf /\ m \in DOMAIN pb => m = n
    PROVE  LET nodes == Reverse(NodesOf(forth)) \o Tail(NodesOf(back))
               rels  == Reverse(RelsOf(forth)) \o RelsOf(back)
           IN  GoodPath(nodes, rels, from, to) /\ Len(rels) = Len(forth) + Len(back) - 2
<1> DEFINE F == Len(forth)
           B == Len(back)
           nodes == Reverse(NodesOf(forth)) \o Tail(NodesOf(back))
           rels  == Reverse(RelsOf(forth)) \o RelsOf(back)
<1>1. F \in Nat \ {0} /\ forth[1].node = n /\ forth[F].node = from
  BY DEF Leads
<1>2. B \in Nat \ {0} /\ back[1].node = n /\ back[B].node = to
  BY DEF Leads
<1>3. \A i, j \in 1 .. F : i # j => forth[i].node # forth[j].node
  BY DEF Leads
<1>4. \A i, j \in 1 .. B : i # j => back[i].node # back[j].node
  BY DEF Leads
<1>5. \A i \in 1 .. F, j \in 2 .. B : forth[i].node # back[j].node
  <2>1. ASSUME NEW i \in 1 .. F, NEW j \in 2 .. B, forth[i].node = back[j].node PROVE FALSE
    <3>1. j \in 1 .. B /\ 1 \in 1 .. B /\ j # 1
      BY <1>2
    <3>2. forth[i].node \in DOMAIN pf /\ back[j].node \in DOMAIN pb
      BY <3>1 DEF Leads
    <3>3. back[j].node = n
      BY <2>1, <3>2
    <3> QED  BY <1>2, <1>4, <3>1, <3>3
  <2> QED  BY <2>1
<1> DEFINE ns == NodesOf(forth)
           nb == NodesOf(back)
<1>6. ns = [i \in 1 .. F |-> forth[i].node] /\ Len(ns) = F
  BY <1>1 DEF NodesOf
<1>7. nb = [i \in 1 .. B |-> back[i].node] /\ Len(nb) = B
  BY <1>2 DEF NodesOf
<1>8. Len(RelsOf(forth)) = F - 1 /\ Len(RelsOf(back)) = B - 1
  BY <1>1, <1>2 DEF RelsOf
<1>9. RelsOf(back) = [i \in 1 .. B - 1 |-> back[i + 1].rel]
  BY DEF RelsOf
<1>9a. /\ \A i \in 1 .. F : forth[i].node \in Node \cup {0}
       /\ \A i \in 1 .. B : back[i].node \in Node \cup {0}
  BY DEF Leads, Parents
<1> HIDE DEF F, B, ns, nb
<1>10. Reverse(ns) = [i \in 1 .. F |-> forth[F - i + 1].node] /\ Len(Reverse(ns)) = F
  <2>1. Reverse(ns) = [i \in 1 .. F |-> ns[F - i + 1]]
    <3>1. Len(ns) = F
      BY <1>6
    <3>2. Reverse(ns) = [i \in 1 .. Len(ns) |-> ns[Len(ns) - i + 1]]
      BY DEF Reverse
    <3> QED  BY <3>1, <3>2
  <2>2. \A i \in 1 .. F : F - i + 1 \in 1 .. F
    BY <1>1
  <2>3. \A i \in 1 .. F : ns[F - i + 1] = forth[F - i + 1].node
    BY <1>6, <2>2
  <2>4. Reverse(ns) = [i \in 1 .. F |-> forth[F - i + 1].node]
    BY <2>1, <2>3
  <2> QED  BY <1>1, <2>4
<1>11. Tail(nb) = [i \in 1 .. B - 1 |-> back[i + 1].node] /\ Len(Tail(nb)) = B - 1
  <2>1. \A i \in 1 .. B - 1 : i + 1 \in 1 .. B
    BY <1>2
  <2>2. Tail(nb) = [i \in 1 .. B - 1 |-> nb[i + 1]]
    BY <1>2, <1>7
  <2> QED  BY <1>2, <1>7, <2>1, <2>2
<1>12. nodes = [i \in 1 .. F + (B - 1) |-> IF i <= F THEN forth[F - i + 1].node ELSE back[i - F + 1].node]
       /\ Len(nodes) = F + (B - 1)
  <2>1. nodes = Reverse(ns) \o Tail(nb)
    BY DEF ns, nb
  <2>2. Reverse(ns) \o Tail(nb) = [i \in 1 .. F + (B - 1) |-> IF i <= F THEN Reverse(ns)[i] ELSE Tail(nb)[i - F]]
    <3>1. Reverse(ns) \in Seq(Node \cup {0})
      BY <1>1, <1>10, <1>9a
    <3>2. Tail(nb) \in Seq(Node \cup {0})
      <4>1. \A i \in 1 .. B - 1 : back[i + 1].node \in Node \cup {0}
        BY <1>2, <1>9a
      <4>2. B - 1 \in Nat
        BY <1>2
      <4> DEFINE t == [i \in 1 .. B - 1 |-> back[i + 1].node]
      <4>3. t \in [1 .. B - 1 -> Node \cup {0}]
        BY <4>1
      <4> HIDE DEF t
      <4>4. t \in Seq(Node \cup {0})
        BY <4>2, <4>3
      <4> QED  BY <1>11, <4>4 DEF t
    <3>3. Len(Reverse(ns)) = F /\ Len(Tail(nb)) = B - 1
      BY <1>10, <1>11
    <3> HIDE DEF ns, nb
    <3>4. Reverse(ns) \o Tail(nb) = [i \in 1 .. Len(Reverse(ns)) + Len(Tail(nb)) |->
              IF i <= Len(Reverse(ns)) THEN Reverse(ns)[i] ELSE Tail(nb)[i - Len(Reverse(ns))]]
      <4> DEFINE a == Reverse(ns)
                 b == Tail(nb)
      <4>1. a \in Seq(Node \cup {0}) /\ b \in Seq(Node \cup {0})
        BY <3>1, <3>2
      <4> HIDE DEF a, b
      <4>2. a \o b = [i \in 1 .. Len(a) + Len(b) |-> IF i <= Len(a) THEN a[i] ELSE b[i - Len(a)]]
        <5>1. /\ a \o b \in Seq(Node \cup {0})
              /\ Len(a \o b) = Len(a) + Len(b)
              /\ \A i \in 1 .. Len(a) + Len(b) : (a \o b)[i] = IF i <= Len(a) THEN a[i] ELSE b[i - Len(a)]
          BY <4>1, ConcatProperties
        <5> DEFINE ab == a \o b
        <5>2. ab = [i \in 1 .. Len(ab) |-> ab[i]]
          <6> HIDE DEF ab
          <6>1. ab \in Seq(Node \cup {0})
            BY <5>1 DEF ab
          <6> QED  BY <6>1
        <5> QED  BY <5>1, <5>2
      <4> QED  BY <4>2 DEF a, b
    <3> QED  BY <3>3, <3>4
  <2>3. \A i \in 1 .. F + (B - 1) : i <= F => i \in 1 .. F
    BY <1>1, <1>2
  <2>4. \A i \in 1 .. F + (B - 1) : ~(i <= F) => i - F \in 1 .. B - 1
    BY <1>1, <1>2
  <2>5. Reverse(ns) \o Tail(nb)
          = [i \in 1 .. F + (B - 1) |-> IF i <= F THEN forth[F - i + 1].node ELSE back[i - F + 1].node]
    BY <1>10, <1>11, <2>2, <2>3, <2>4
  <2>6. F + (B - 1) \in Nat
    BY <1>1, <1>2
  <2>7. nodes = [i \in 1 .. F + (B - 1) |-> IF i <= F THEN forth[F - i + 1].node ELSE back[i - F + 1].node]
    BY <2>1, <2>5
  <2> HIDE DEF nodes
  <2>8. Len(nodes) = F + (B - 1)
    BY <2>6, <2>7
  <2> QED  BY <2>7, <2>8
<1>13. Len(rels) = F + B - 2
  <2>1. Reverse(RelsOf(forth)) = [i \in 1 .. F - 1 |-> RelsOf(forth)[F - 1 - i + 1]]
    BY <1>8 DEF Reverse
  <2>2. Len(Reverse(RelsOf(forth))) = F - 1
    BY <1>1, <2>1
  <2> QED  BY <1>1, <1>2, <1>8, <1>9, <2>1, <2>2
<1> HIDE DEF nodes, rels
<1>14. nodes[1] = from
  <2>1. 1 \in 1 .. F + (B - 1) /\ 1 <= F /\ F - 1 + 1 = F
    BY <1>1, <1>2
  <2> QED  BY <1>1, <1>12, <2>1
<1>15. Last(nodes) = to
  <2>1. Last(nodes) = nodes[F + (B - 1)]
    BY <1>12 DEF Last
  <2>2. CASE B = 1
    <3>1. F + (B - 1) = F /\ F \in 1 .. F + (B - 1) /\ F <= F /\ F - F + 1 = 1
      BY <1>1, <2>2
    <3> QED  BY <1>1, <1>2, <1>12, <2>1, <2>2, <3>1
  <2>3. CASE B # 1
    <3>1. /\ F + (B - 1) \in 1 .. F + (B - 1)
          /\ ~(F + (B - 1) <= F)
          /\ F + (B - 1) - F + 1 = B
      BY <1>1, <1>2, <2>3
    <3>2. nodes[F + (B - 1)] = back[F + (B - 1) - F + 1].node
      <4> DEFINE m == F + (B - 1)
      <4>1. m \in 1 .. F + (B - 1) /\ ~(m <= F)
        BY <3>1
      <4> HIDE DEF m
      <4>2. nodes[m] = back[m - F + 1].node
        BY <1>12, <4>1
      <4>3. m - F + 1 = F + (B - 1) - F + 1
        BY <1>1, <1>2 DEF m
      <4> QED  BY <4>2, <4>3 DEF m
    <3> QED  BY <1>2, <2>1, <3>1, <3>2
  <2> QED  BY <2>2, <2>3
<1>16. ASSUME NEW i \in 1 .. Len(nodes), NEW j \in 1 .. Len(nodes), i < j PROVE nodes[i] # nodes[j]
  <2>1. i \in 1 .. F + (B - 1) /\ j \in 1 .. F + (B - 1)
    BY <1>12
  <2>2. CASE j <= F
    <3>1. i <= F /\ F - i + 1 \in 1 .. F /\ F - j + 1 \in 1 .. F /\ F - i + 1 # F - j + 1
      BY <1>1, <1>2, <1>16, <2>1, <2>2
    <3>2. nodes[i] = forth[F - i + 1].node /\ nodes[j] = forth[F - j + 1].node
      BY <1>12, <2>1, <2>2, <3>1
    <3> QED  BY <1>3, <3>1, <3>2
  <2>3. CASE i <= F /\ ~(j <= F)
    <3>1. F - i + 1 \in 1 .. F /\ j - F + 1 \in 2 .. B
      BY <1>1, <1>2, <2>1, <2>3
    <3>2. nodes[i] = forth[F - i + 1].node /\ nodes[j] = back[j - F + 1].node
      BY <1>12, <2>1, <2>3
    <3> QED  BY <1>5, <3>1, <3>2
  <2>4. CASE ~(i <= F) /\ ~(j <= F)
    <3>1. i - F + 1 \in 1 .. B /\ j - F + 1 \in 1 .. B /\ i - F + 1 # j - F + 1
      BY <1>1, <1>2, <1>16, <2>1, <2>4
    <3>2. nodes[i] = back[i - F + 1].node /\ nodes[j] = back[j - F + 1].node
      BY <1>12, <2>1, <2>4
    <3> QED  BY <1>4, <3>1, <3>2
  <2>5. j <= F => i <= F
    BY <1>1, <1>2, <1>16, <2>1
  <2> QED  BY <2>2, <2>3, <2>4, <2>5
<1>17. ASSUME NEW i \in 1 .. Len(nodes), NEW j \in 1 .. Len(nodes), i # j PROVE nodes[i] # nodes[j]
  <2>1. Len(nodes) \in Nat
    BY <1>1, <1>2, <1>12
  <2>2. i < j \/ j < i
    BY <1>17, <2>1
  <2> QED  BY <1>16, <2>2
<1>18. Len(nodes) = Len(rels) + 1
  BY <1>1, <1>2, <1>12, <1>13
<1>20. GoodPath(nodes, rels, from, to) /\ Len(rels) = F + B - 2
  BY <1>13, <1>14, <1>15, <1>17, <1>18 DEF GoodPath
<1> QED  BY <1>20 DEF nodes, rels, F, B

-----------------------------------------------------------------------------
(* The invariant *)

Link == [node : Node, rel : Rel]

Reads == UNION {[S -> SUBSET Link] : S \in SUBSET Node}

StartOf(q, s) == IF s = "forward" THEN q.from ELSE q.to

\* How deep the last whole level of a side is: the hop being read is not yet there.
DepthReached(w, s) == IF w.at = "reading" /\ s = w.side THEN w.hops[s] - 1 ELSE w.hops[s]

ShortestWork ==
    [at : {"level", "reading"}, side : Side, parent : [Side -> Parents], level : [Side -> SUBSET Node],
     hops : [Side -> Nat], pending : SUBSET Node, read : Reads]

\* The nodes one side has seen have depths: its level is the deepest.
Layered(w, s, start, depth) ==
    /\ Deepens(w.parent[s], start, depth)
    /\ Rooted(w.parent[s], start, Shallower(depth))
    /\ \A n \in DOMAIN w.parent[s] : depth[n] <= DepthReached(w, s)
    /\ \A n \in w.level[s] : n \in DOMAIN w.parent[s] /\ depth[n] = DepthReached(w, s)

ReadsItsLevel(w) ==
    w.at = "reading" => w.pending \subseteq w.level[w.side] /\ DOMAIN w.read \subseteq w.level[w.side]

\* The search from both ends: no node has been seen from both, and the hops are within the bound.
ShortestOK(q, w) ==
    /\ w \in ShortestWork
    /\ \A s \in Side : \E depth : Layered(w, s, StartOf(q, s), depth)
    /\ \A n : ~(n \in DOMAIN w.parent["forward"] /\ n \in DOMAIN w.parent["backward"])
    /\ w.hops["forward"] + w.hops["backward"] <= q.max
    /\ ReadsItsLevel(w)

CheapestWork ==
    [at : {"queue", "reading"}, distances : UNION {[S -> Nat] : S \in SUBSET Node},
     parent : UNION {[S -> SUBSET Parent] : S \in SUBSET Node}, pq : SUBSET (Nat \X Node),
     top : Nat \X Node, best : Nat \cup {Gone}, pending : SUBSET Node, read : Reads]

\* Nearer, or as near and since earlier.
Nearer(distances, since) ==
    {e \in (DOMAIN distances) \X (DOMAIN distances) :
        \/ distances[e[1]] < distances[e[2]]
        \/ distances[e[1]] = distances[e[2]] /\ since[e[1]] < since[e[2]]}

\* Every node but the start has one parent, which is nearer, or as near and since earlier.
OneParent(w, start, since) ==
    \A n \in DOMAIN w.parent \ {start} :
        \E p \in Parent : w.parent[n] = {p} /\ <<p.node, n>> \in Nearer(w.distances, since)

ReadsItsTop(w) ==
    w.at = "reading" =>
        /\ w.top[2] \in DOMAIN w.distances /\ w.top[1] = w.distances[w.top[2]]
        /\ w.pending \subseteq {w.top[2]} /\ DOMAIN w.read \subseteq {w.top[2]}

\* Dijkstra's: an entry of the queue is never better than the distance noted.
CheapestOK(q, w) ==
    /\ w \in CheapestWork
    /\ DOMAIN w.parent = DOMAIN w.distances
    /\ q.from \in DOMAIN w.distances /\ w.parent[q.from] = {} /\ w.distances[q.from] = 0
    /\ \A e \in w.pq : e[2] \in DOMAIN w.distances /\ w.distances[e[2]] <= e[1]
    /\ \E since \in [Node -> Nat], now \in Nat :
          (\A n \in Node : since[n] <= now) /\ OneParent(w, q.from, since)
    /\ ReadsItsTop(w)

FoundOK(q, w) ==
    /\ GoodPath(w.nodes, w.rels, q.from, q.to)
    /\ q.kind = "shortest" => Len(w.rels) <= q.max

IInv ==
    /\ cost \in [Rel -> Cost \cup {Gone, Unset}]
    /\ work.at # "idle" => request \in Request
    /\ At({"shortest"}, "level") \/ At({"shortest"}, "reading") => ShortestOK(request, work)
    /\ At({"cheapest"}, "queue") \/ At({"cheapest"}, "reading") => CheapestOK(request, work)
    /\ At({"shortest", "cheapest"}, "found") => FoundOK(request, work)

-----------------------------------------------------------------------------
(* Reading links *)

LEMMA LinksAreLinks ==
    ASSUME NEW n, NEW dir
    PROVE  NodeGetLinks(n, dir) \in SUBSET Link
<1>1. \A r \in Rel : Ends[r][1] \in Node /\ Ends[r][2] \in Node
  BY SearchesAssumption
<1> QED  BY <1>1 DEF NodeGetLinks, Link

LEMMA LinksReadAre ==
    ASSUME work.read \in Reads, NEW l \in LinksRead
    PROVE  l.from \in DOMAIN work.read /\ l.from \in Node /\ l.node \in Node /\ l.rel \in Rel
<1>1. PICK n \in DOMAIN work.read : l \in {[from |-> n, node |-> k.node, rel |-> k.rel] : k \in work.read[n]}
  BY DEF LinksRead
<1>2. PICK k \in work.read[n] : l = [from |-> n, node |-> k.node, rel |-> k.rel]
  BY <1>1
<1>3. k \in Link /\ n \in Node
  BY <1>1, <1>2 DEF Reads
<1> QED  BY <1>2, <1>3 DEF Link

\* One more answer is one more entry of what has been read.
LEMMA ReadGrows ==
    ASSUME NEW read \in Reads, NEW n \in Node, NEW links \in SUBSET Link
    PROVE  LET more == [m \in DOMAIN read \cup {n} |-> IF m = n THEN links ELSE read[m]]
           IN  more \in Reads /\ DOMAIN more = DOMAIN read \cup {n}
<1> DEFINE more == [m \in DOMAIN read \cup {n} |-> IF m = n THEN links ELSE read[m]]
<1>1. DOMAIN read \in SUBSET Node /\ read \in [DOMAIN read -> SUBSET Link]
  BY DEF Reads
<1>2. more \in [DOMAIN read \cup {n} -> SUBSET Link]
  BY <1>1
<1> QED  BY <1>1, <1>2 DEF Reads

LEMMA UnreadIs == Unread \in Reads /\ DOMAIN Unread = {}
BY DEF Unread, Reads

LEMMA NodeGetLinksPeeredKeepsIInv ==
    ASSUME IInv, NEW n \in Node, NodeGetLinksPeered(n)
    PROVE  IInv'
<1>1. PICK links \in SUBSET Link :
        work' = [work EXCEPT !.pending = @ \ {n},
                             !.read = [m \in DOMAIN @ \cup {n} |-> IF m = n THEN links ELSE @[m]]]
  <2> DEFINE dir == IF "side" \in DOMAIN work /\ work.side = "backward"
                    THEN Opposite(request.dir)
                    ELSE request.dir
             links == IF request.kind = "paths" /\ ~request.typed THEN {} ELSE NodeGetLinks(n, dir)
  <2>1. links \in SUBSET Link
    BY LinksAreLinks
  <2>2. work' = [work EXCEPT !.pending = @ \ {n},
                             !.read = [m \in DOMAIN @ \cup {n} |-> IF m = n THEN links ELSE @[m]]]
    BY DEF NodeGetLinksPeered
  <2> HIDE DEF links
  <2> QED  BY <2>1, <2>2, Zenon
<1>2. /\ work.at = "reading" /\ n \in work.pending /\ UNCHANGED <<cost, filled, request>>
  BY DEF NodeGetLinksPeered
<1> DEFINE more == [m \in DOMAIN work.read \cup {n} |-> IF m = n THEN links ELSE work.read[m]]
<1>3. ASSUME request.kind = "shortest" PROVE work'.at = "reading" /\ ShortestOK(request, work')
  <2>1. ShortestOK(request, work)
    BY <1>2, <1>3 DEF IInv, At
  <2>2. work \in ShortestWork
    BY <2>1 DEF ShortestOK
  <2>3. more \in Reads /\ DOMAIN more = DOMAIN work.read \cup {n}
    <3>1. work.read \in Reads
      BY <2>2 DEF ShortestWork
    <3> QED  BY <3>1, ReadGrows
  <2>4. work' = [work EXCEPT !.pending = @ \ {n}, !.read = more]
    BY <1>1
  <2> HIDE DEF more
  <2>5. /\ work' \in ShortestWork
        /\ work'.at = work.at /\ work'.side = work.side /\ work'.parent = work.parent
        /\ work'.level = work.level /\ work'.hops = work.hops
        /\ work'.pending = work.pending \ {n} /\ work'.read = more
    BY <2>2, <2>3, <2>4 DEF ShortestWork
  <2>6. ReadsItsLevel(work')
    BY <1>2, <2>1, <2>3, <2>5 DEF ShortestOK, ReadsItsLevel
  <2>7. ASSUME NEW s \in Side PROVE \E depth : Layered(work', s, StartOf(request, s), depth)
    <3>1. PICK depth : Layered(work, s, StartOf(request, s), depth)
      BY <2>1 DEF ShortestOK
    <3>2. DepthReached(work', s) = DepthReached(work, s)
      BY <2>5 DEF DepthReached
    <3>3. Layered(work', s, StartOf(request, s), depth)
      BY <2>5, <3>1, <3>2 DEF Layered
    <3> QED  BY <3>3
  <2> QED  BY <1>2, <2>1, <2>5, <2>6, <2>7 DEF ShortestOK
<1>4. ASSUME request.kind = "cheapest" PROVE work'.at = "reading" /\ CheapestOK(request, work')
  <2>1. CheapestOK(request, work)
    BY <1>2, <1>4 DEF IInv, At
  <2>2. work \in CheapestWork
    BY <2>1 DEF CheapestOK
  <2>3. more \in Reads /\ DOMAIN more = DOMAIN work.read \cup {n}
    <3>1. work.read \in Reads
      BY <2>2 DEF CheapestWork
    <3> QED  BY <3>1, ReadGrows
  <2>4. work' = [work EXCEPT !.pending = @ \ {n}, !.read = more]
    BY <1>1
  <2> HIDE DEF more
  <2>5. /\ work' \in CheapestWork
        /\ work'.at = work.at /\ work'.distances = work.distances /\ work'.parent = work.parent
        /\ work'.pq = work.pq /\ work'.top = work.top
        /\ work'.pending = work.pending \ {n} /\ work'.read = more
    BY <2>2, <2>3, <2>4 DEF CheapestWork
  <2>6. ReadsItsTop(work')
    BY <1>2, <2>1, <2>3, <2>5 DEF CheapestOK, ReadsItsTop
  <2>7. PICK since \in [Node -> Nat], now \in Nat :
          (\A m \in Node : since[m] <= now) /\ OneParent(work, request.from, since)
    BY <2>1 DEF CheapestOK
  <2>8. OneParent(work', request.from, since)
    BY <2>5, <2>7 DEF OneParent
  <2> QED  BY <1>2, <2>1, <2>5, <2>6, <2>7, <2>8 DEF CheapestOK
<1>5. work'.at = "reading" \/ request.kind \notin {"shortest", "cheapest"}
  BY <1>3, <1>4
<1> QED  BY <1>2, <1>3, <1>4, <1>5 DEF IInv, At

-----------------------------------------------------------------------------
(* Steps that end a search or are not one of these two *)

LEMMA FinishedKeepsIInv ==
    ASSUME IInv, work.at # "idle", UNCHANGED <<cost, filled, request>>, work'.at = "answered"
    PROVE  IInv'
BY DEF IInv, At

LEMMA OtherKindKeepsIInv ==
    ASSUME IInv, work.at # "idle", UNCHANGED <<cost, filled, request>>, request.kind \notin {"shortest", "cheapest"}
    PROVE  IInv'
BY DEF IInv, At

LEMMA AnsweredIs == \A a : Answered(a).at = "answered"
BY DEF Answered

-----------------------------------------------------------------------------
(* The search from both ends *)

\* The search from both ends starts well.
LEMMA FromBothEndsOK ==
    ASSUME NEW q \in Request, q.from # q.to
    PROVE  ShortestOK(q, FromBothEnds(q))
<1> DEFINE w == FromBothEnds(q)
<1>1. q.from \in Node /\ q.to \in Node /\ q.max \in Nat
  BY SearchesAssumption
<1>2. Root \in Parent
  BY DEF Root, Parent
<1>3. \A s \in Side : StartOf(q, s) = IF s = "forward" THEN q.from ELSE q.to
  BY DEF StartOf
<1>4. ASSUME NEW n \in Node PROVE [m \in {n} |-> Root] \in Parents
  <2>1. [m \in {n} |-> Root] \in [{n} -> Parent]
    BY <1>2
  <2> QED  BY <2>1 DEF Parents
<1>5. /\ w.at = "level" /\ w.side = "forward"
      /\ w.parent = [s \in Side |-> [n \in {StartOf(q, s)} |-> Root]]
      /\ w.level = [s \in Side |-> {StartOf(q, s)}]
      /\ w.hops = [s \in Side |-> 0]
      /\ w.pending = {} /\ w.read = Unread
  BY DEF FromBothEnds, StartOf
<1>6. w \in ShortestWork
  <2>1. w.parent \in [Side -> Parents] /\ w.level \in [Side -> SUBSET Node] /\ w.hops \in [Side -> Nat]
    BY <1>1, <1>3, <1>4, <1>5
  <2>2. "forward" \in Side
    BY DEF Side
  <2>3. w = [at |-> w.at, side |-> w.side, parent |-> w.parent, level |-> w.level, hops |-> w.hops,
             pending |-> w.pending, read |-> w.read]
    BY DEF FromBothEnds
  <2> HIDE DEF w
  <2> QED  BY <1>5, <2>1, <2>2, <2>3, UnreadIs DEF ShortestWork
<1> HIDE DEF w
<1>7. ASSUME NEW s \in Side PROVE \E depth : Layered(w, s, StartOf(q, s), depth)
  <2> DEFINE depth == [n \in Node |-> 0]
             start == StartOf(q, s)
  <2>1. start \in Node /\ w.parent[s] = [n \in {start} |-> Root] /\ w.level[s] = {start} /\ w.hops[s] = 0
    BY <1>1, <1>3, <1>5
  <2>2. depth \in [Node -> Nat] /\ \A n \in Node : depth[n] = 0
    OBVIOUS
  <2> HIDE DEF depth, start
  <2>3. DepthReached(w, s) = 0
    BY <1>5, <2>1 DEF DepthReached
  <2>4. Deepens(w.parent[s], start, depth)
    BY <2>1, <2>2 DEF Deepens
  <2>5. Rooted(w.parent[s], start, Shallower(depth))
    BY <1>4, <2>1 DEF Rooted
  <2>6. Layered(w, s, start, depth)
    BY <2>1, <2>2, <2>3, <2>4, <2>5 DEF Layered
  <2> QED  BY <2>6 DEF start
<1>8. \A n : ~(n \in DOMAIN w.parent["forward"] /\ n \in DOMAIN w.parent["backward"])
  <2>1. w.parent["forward"] = [n \in {q.from} |-> Root] /\ w.parent["backward"] = [n \in {q.to} |-> Root]
    BY <1>3, <1>5 DEF Side
  <2> QED  BY <2>1
<1>9. w.hops["forward"] + w.hops["backward"] <= q.max
  BY <1>1, <1>5 DEF Side
<1>10. ReadsItsLevel(w)
  BY <1>5 DEF ReadsItsLevel
<1> QED  BY <1>6, <1>7, <1>8, <1>9, <1>10 DEF ShortestOK, w

LEMMA ShortestParts ==
    ASSUME IInv, request.kind = "shortest", work.at \in {"level", "reading"}
    PROVE  ShortestOK(request, work) /\ work \in ShortestWork /\ request \in Request /\ request.max \in Nat
<1>1. request \in Request
  BY DEF IInv
<1> QED  BY <1>1, SearchesAssumption DEF IInv, At, ShortestOK

\* One side takes the next hop.
Expanded(side) ==
    /\ work' \in ShortestWork
    /\ work'.at = "reading" /\ work'.side = side /\ work'.parent = work.parent /\ work'.level = work.level
    /\ work'.hops = [work.hops EXCEPT ![side] = @ + 1]
    /\ work'.pending = work.level[side] /\ work'.read = Unread

\* A hop is begun: the level stays as deep as it was.
LEMMA ExpandLevelStep ==
    ASSUME IInv, ExpandLevel
    PROVE  IInv' /\ \E side \in Side : Expanded(side)
<1> DEFINE side == IF Cardinality(work.level["forward"]) <= Cardinality(work.level["backward"])
                   THEN "forward" ELSE "backward"
<1>1. /\ work.at = "level" /\ request.kind = "shortest" /\ UNCHANGED <<cost, filled, request>>
      /\ HopsSpent < request.max
      /\ work' = Reading([work EXCEPT !.side = side, !.hops[side] = @ + 1], work.level[side])
  BY DEF ExpandLevel, At, GoesOn
<1>2. side \in Side /\ "forward" \in Side /\ "backward" \in Side
  BY DEF Side
<1> HIDE DEF side
<1>3. ShortestOK(request, work) /\ work \in ShortestWork /\ request.max \in Nat
  BY <1>1, ShortestParts
<1>4. /\ work' \in ShortestWork
      /\ work'.at = "reading" /\ work'.side = side /\ work'.parent = work.parent /\ work'.level = work.level
      /\ work'.hops = [work.hops EXCEPT ![side] = @ + 1]
      /\ work'.pending = work.level[side] /\ work'.read = Unread
  <2> DEFINE w == [work EXCEPT !.side = side, !.hops[side] = @ + 1]
  <2>1. w \in ShortestWork /\ w.side = side /\ w.parent = work.parent /\ w.level = work.level
        /\ w.hops = [work.hops EXCEPT ![side] = @ + 1]
    <3> DEFINE v == [work EXCEPT !.side = side]
    <3>1. v \in ShortestWork /\ v.side = side /\ v.parent = work.parent /\ v.level = work.level
          /\ v.hops = work.hops
      BY <1>2, <1>3 DEF ShortestWork
    <3>2. w = [v EXCEPT !.hops[side] = @ + 1]
      OBVIOUS
    <3> HIDE DEF v, w
    <3>3. w.side = v.side /\ w.parent = v.parent /\ w.level = v.level
          /\ w.hops = [v.hops EXCEPT ![side] = @ + 1]
      BY <3>1, <3>2 DEF ShortestWork
    <3>4. w \in ShortestWork
      BY <1>2, <3>1, <3>2 DEF ShortestWork
    <3> QED  BY <3>1, <3>3, <3>4
  <2>2. work' = [w EXCEPT !.at = "reading", !.pending = work.level[side], !.read = Unread]
    BY <1>1 DEF Reading
  <2>3. work.level[side] \in SUBSET Node
    BY <1>2, <1>3 DEF ShortestWork
  <2> HIDE DEF w
  <2> QED  BY <2>1, <2>2, <2>3, UnreadIs DEF ShortestWork
<1>5. work.hops["forward"] \in Nat /\ work.hops["backward"] \in Nat /\ work.hops \in [Side -> Nat]
  BY <1>2, <1>3 DEF ShortestWork
<1>6. work'.hops["forward"] + work'.hops["backward"] <= request.max
  <2>1. work.hops["forward"] + work.hops["backward"] < request.max
    BY <1>1 DEF HopsSpent
  <2>2. work'.hops["forward"] = IF side = "forward" THEN work.hops["forward"] + 1 ELSE work.hops["forward"]
    BY <1>2, <1>4, <1>5
  <2>3. work'.hops["backward"] = IF side = "backward" THEN work.hops["backward"] + 1 ELSE work.hops["backward"]
    BY <1>2, <1>4, <1>5
  <2>4. side = "forward" \/ side = "backward"
    BY <1>2 DEF Side
  <2> QED  BY <1>3, <1>5, <2>1, <2>2, <2>3, <2>4
<1>7. ASSUME NEW s \in Side PROVE \E depth : Layered(work', s, StartOf(request, s), depth)
  <2>1. PICK depth : Layered(work, s, StartOf(request, s), depth)
    BY <1>3 DEF ShortestOK
  <2>2. DepthReached(work, s) = work.hops[s] /\ work.hops[s] \in Nat
    BY <1>1, <1>5 DEF DepthReached
  <2>3. DepthReached(work', s) = work.hops[s]
    BY <1>4, <1>5 DEF DepthReached
  <2>4. Layered(work', s, StartOf(request, s), depth)
    BY <1>4, <2>1, <2>2, <2>3 DEF Layered
  <2> QED  BY <2>4
<1>8. ReadsItsLevel(work')
  BY <1>4, UnreadIs DEF ReadsItsLevel
<1>9. ShortestOK(request, work')
  BY <1>3, <1>4, <1>6, <1>7, <1>8 DEF ShortestOK
<1>10. IInv'
  BY <1>1, <1>4, <1>9 DEF IInv, At
<1>11. Expanded(side)
  BY <1>4 DEF Expanded
<1> QED  BY <1>2, <1>10, <1>11

\* New nodes whose parents are all equally deep are one deeper.
Deeper(depth, new, d) == [n \in Node |-> IF n \in new THEN d + 1 ELSE depth[n]]

IsGrown(grown, parent, new, start, deeper) ==
    /\ DOMAIN grown = DOMAIN parent \cup new
    /\ grown \in Parents
    /\ Deepens(grown, start, deeper)
    /\ Rooted(grown, start, Shallower(deeper))

LEMMA GrownIsRooted ==
    ASSUME NEW parent, NEW start, NEW depth, NEW new \in SUBSET Node, NEW p \in [new -> Parent], NEW d \in Nat,
           Deepens(parent, start, depth), Rooted(parent, start, Shallower(depth)),
           \A n \in new : n \notin DOMAIN parent,
           \A n \in new : p[n].node \in DOMAIN parent /\ depth[p[n].node] = d
    PROVE  IsGrown(WithParents(parent, p), parent, new, start, Deeper(depth, new, d))
<1> DEFINE grown == WithParents(parent, p)
           deeper == Deeper(depth, new, d)
<1>1. DOMAIN parent \in SUBSET Node /\ parent \in [DOMAIN parent -> Parent] /\ DOMAIN p = new
  BY DEF Rooted, Parents
<1>2. /\ grown = [n \in DOMAIN parent \cup new |-> IF n \in new THEN p[n] ELSE parent[n]]
      /\ DOMAIN grown = DOMAIN parent \cup new
  BY <1>1 DEF WithParents
<1>3. depth \in [Node -> Nat]
  BY DEF Deepens
<1>4. deeper \in [Node -> Nat] /\ \A n \in Node : deeper[n] = IF n \in new THEN d + 1 ELSE depth[n]
  BY <1>3 DEF Deeper
<1>5. start \in DOMAIN parent /\ start \notin new /\ parent[start] = Root /\ depth[start] = 0
  BY DEF Rooted, Deepens
<1> HIDE DEF grown, deeper
<1>6. grown \in [DOMAIN parent \cup new -> Parent]
  BY <1>1, <1>2
<1>7. grown \in Parents
  BY <1>1, <1>6 DEF Parents
<1>8. ASSUME NEW m \in DOMAIN grown \ {start}
      PROVE  /\ grown[m].node \in DOMAIN parent /\ grown[m].node \in Node /\ m \in Node
             /\ deeper[m] = deeper[grown[m].node] + 1
  <2>1. CASE m \in new
    <3>1. grown[m] = p[m] /\ p[m].node \in DOMAIN parent /\ depth[p[m].node] = d
      BY <1>2, <2>1
    <3>2. p[m].node \in Node /\ p[m].node \notin new /\ m \in Node
      BY <1>1, <2>1, <3>1
    <3> QED  BY <1>4, <2>1, <3>1, <3>2
  <2>2. CASE m \notin new
    <3>1. m \in DOMAIN parent \ {start} /\ grown[m] = parent[m]
      BY <1>2, <2>2
    <3>2. parent[m].node \in DOMAIN parent /\ depth[m] = depth[parent[m].node] + 1
      BY <3>1 DEF Rooted, Deepens
    <3>3. parent[m].node \in Node /\ parent[m].node \notin new /\ m \in Node
      BY <1>1, <3>1, <3>2
    <3> QED  BY <1>4, <2>2, <3>1, <3>2, <3>3
  <2> QED  BY <2>1, <2>2
<1>9. Deepens(grown, start, deeper)
  BY <1>1, <1>4, <1>5, <1>8 DEF Deepens
<1>10. ASSUME NEW m \in DOMAIN grown \ {start}
       PROVE  grown[m].node \in DOMAIN grown /\ <<grown[m].node, m>> \in Shallower(deeper)
  <2>1. deeper[grown[m].node] \in Nat /\ deeper[m] \in Nat
    BY <1>4, <1>8
  <2>2. deeper[grown[m].node] < deeper[m]
    BY <1>8, <2>1
  <2> QED  BY <1>2, <1>8, <2>2 DEF Shallower
<1>11. start \in DOMAIN grown /\ grown[start] = Root
  BY <1>2, <1>5
<1>12. Rooted(grown, start, Shallower(deeper))
  BY <1>7, <1>10, <1>11 DEF Rooted
<1> QED  BY <1>2, <1>7, <1>9, <1>12 DEF grown, deeper, IsGrown

\* What a side knows while its links are read.
LEMMA ReadingSide ==
    ASSUME IInv, HasRead({"shortest"})
    PROVE  /\ work.side \in Side /\ Other(work.side) \in Side /\ Other(work.side) # work.side
           /\ work.hops[work.side] - 1 \in Nat
           /\ DepthReached(work, work.side) = work.hops[work.side] - 1
           /\ DepthReached(work, Other(work.side)) = work.hops[Other(work.side)]
<1>1. work.at = "reading" /\ request.kind = "shortest"
  BY DEF HasRead, At
<1>2. ShortestOK(request, work) /\ work \in ShortestWork
  BY <1>1, ShortestParts
<1>3. work.side \in Side /\ Other(work.side) \in Side /\ Other(work.side) # work.side
  BY <1>2 DEF ShortestWork, Other, Side
<1>4. work.hops[work.side] \in Nat
  BY <1>2, <1>3 DEF ShortestWork
<1>5. DepthReached(work, work.side) = work.hops[work.side] - 1
  BY <1>1 DEF DepthReached
<1>6. DepthReached(work, Other(work.side)) = work.hops[Other(work.side)]
  BY <1>3 DEF DepthReached
<1>7. PICK depth : Layered(work, work.side, StartOf(request, work.side), depth)
  BY <1>2, <1>3 DEF ShortestOK
<1>8. StartOf(request, work.side) \in DOMAIN work.parent[work.side]
  BY <1>7 DEF Layered, Rooted
<1>9. depth[StartOf(request, work.side)] = 0 /\ depth[StartOf(request, work.side)] <= work.hops[work.side] - 1
  BY <1>5, <1>7, <1>8 DEF Layered, Deepens
<1> QED  BY <1>3, <1>4, <1>5, <1>6, <1>9

\* A link that was read starts at the deepest level.
LEMMA LinksLeaveTheLevel ==
    ASSUME IInv, HasRead({"shortest"}), NEW l \in NewLinks, NEW depth,
           Layered(work, work.side, StartOf(request, work.side), depth)
    PROVE  /\ [node |-> l.from, rel |-> l.rel] \in Parent /\ l.node \in Node
           /\ l.node \notin DOMAIN work.parent[work.side]
           /\ l.from \in DOMAIN work.parent[work.side]
           /\ depth[l.from] = work.hops[work.side] - 1
<1>1. work.at = "reading" /\ request.kind = "shortest"
  BY DEF HasRead, At
<1>2. ShortestOK(request, work) /\ work \in ShortestWork
  BY <1>1, ShortestParts
<1>3. l \in LinksRead /\ l.node \notin DOMAIN work.parent[work.side]
  BY DEF NewLinks
<1>4. work.read \in Reads
  BY <1>2 DEF ShortestWork
<1>5. l.from \in DOMAIN work.read /\ l.from \in Node /\ l.node \in Node /\ l.rel \in Rel
  BY <1>3, <1>4, LinksReadAre
<1>6. l.from \in work.level[work.side]
  BY <1>1, <1>2, <1>5 DEF ShortestOK, ReadsItsLevel
<1>7. DepthReached(work, work.side) = work.hops[work.side] - 1
  BY ReadingSide
<1>8. l.from \in DOMAIN work.parent[work.side] /\ depth[l.from] = work.hops[work.side] - 1
  BY <1>6, <1>7 DEF Layered
<1> QED  BY <1>3, <1>5, <1>8 DEF Parent

\* The new nodes are the next level, under the parents p.
Levelled(p) ==
    LET new == {l.node : l \in NewLinks}
    IN  /\ p \in [new -> Parent]
        /\ \A n \in new : \E l \in LinksTo(NewLinks, n) : p[n] = [node |-> l.from, rel |-> l.rel]
        /\ work'.at = "level" /\ work'.hops = work.hops
        /\ work'.level = [work.level EXCEPT ![work.side] = new]
        /\ work'.parent = [work.parent EXCEPT ![work.side] = WithParents(work.parent[work.side], p)]

\* A hop is done: the new level is one deeper.
LEMMA NextLevelStep ==
    ASSUME IInv, NextLevel
    PROVE  IInv' /\ \E p : Levelled(p)
<1> DEFINE new == {l.node : l \in NewLinks}
           side == work.side
           d == work.hops[side] - 1
<1>1. PICK p \in [new -> {[node |-> l.from, rel |-> l.rel] : l \in NewLinks}] :
        /\ \A n \in new : \E l \in LinksTo(NewLinks, n) : p[n] = [node |-> l.from, rel |-> l.rel]
        /\ work' = [work EXCEPT !.at = "level", !.read = Unread,
                                !.level[work.side] = new,
                                !.parent[work.side] = WithParents(@, p)]
  BY DEF NextLevel
<1>2. /\ HasRead({"shortest"}) /\ MeetingLinks = {} /\ UNCHANGED <<cost, filled, request>>
      /\ work.at = "reading" /\ request.kind = "shortest"
  BY DEF NextLevel, HasRead, At
<1>3. ShortestOK(request, work) /\ work \in ShortestWork
  BY <1>2, ShortestParts
<1>4. /\ side \in Side /\ Other(side) \in Side /\ Other(side) # side /\ d \in Nat
      /\ DepthReached(work, side) = d /\ DepthReached(work, Other(side)) = work.hops[Other(side)]
  BY <1>2, ReadingSide
<1>5. PICK depth : Layered(work, side, StartOf(request, side), depth)
  BY <1>3, <1>4 DEF ShortestOK
<1>6. /\ new \in SUBSET Node
      /\ \A n \in new : n \notin DOMAIN work.parent[side]
      /\ \A l \in NewLinks : [node |-> l.from, rel |-> l.rel] \in Parent
  BY <1>2, <1>5, LinksLeaveTheLevel
<1>7. p \in [new -> Parent]
  BY <1>6
<1>8. \A n \in new : p[n].node \in DOMAIN work.parent[side] /\ depth[p[n].node] = d
  <2>1. ASSUME NEW n \in new PROVE p[n].node \in DOMAIN work.parent[side] /\ depth[p[n].node] = d
    <3>1. PICK l \in NewLinks : p[n] = [node |-> l.from, rel |-> l.rel]
      BY <1>1 DEF LinksTo
    <3>2. l.from \in DOMAIN work.parent[side] /\ depth[l.from] = d
      BY <1>2, <1>5, LinksLeaveTheLevel
    <3> QED  BY <3>1, <3>2
  <2> QED  BY <2>1
<1>9. \A n \in new : n \notin DOMAIN work.parent[Other(side)]
  BY <1>2 DEF MeetingLinks
<1> DEFINE grown == WithParents(work.parent[side], p)
           deeper == Deeper(depth, new, d)
           start == StartOf(request, side)
<1>10. work' = [work EXCEPT !.at = "level", !.read = Unread, !.level[side] = new, !.parent[side] = grown]
  BY <1>1
<1> HIDE DEF new, side, d
<1>11. /\ DOMAIN grown = DOMAIN work.parent[side] \cup new
       /\ grown \in Parents
       /\ Deepens(grown, start, deeper)
       /\ Rooted(grown, start, Shallower(deeper))
  <2>1. Deepens(work.parent[side], start, depth) /\ Rooted(work.parent[side], start, Shallower(depth))
    BY <1>5 DEF Layered
  <2> HIDE DEF start
  <2>2. IsGrown(grown, work.parent[side], new, start, deeper)
    BY <1>4, <1>6, <1>7, <1>8, <2>1, GrownIsRooted
  <2> HIDE DEF grown, deeper
  <2> QED  BY <2>2 DEF IsGrown
<1> HIDE DEF grown
<1>12. /\ work'.at = "level" /\ work'.hops = work.hops
       /\ work'.level = [work.level EXCEPT ![side] = new]
       /\ work'.parent = [work.parent EXCEPT ![side] = grown]
       /\ work' \in ShortestWork
  <2> DEFINE v == [work EXCEPT !.at = "level", !.read = Unread]
             u == [v EXCEPT !.level[side] = new]
  <2>1. v \in ShortestWork /\ v.at = "level" /\ v.hops = work.hops /\ v.level = work.level
        /\ v.parent = work.parent
    BY <1>3, UnreadIs DEF ShortestWork
  <2>2. work' = [u EXCEPT !.parent[side] = grown]
    BY <1>10
  <2> HIDE DEF v
  <2>3. u \in ShortestWork /\ u.at = "level" /\ u.hops = work.hops
        /\ u.level = [work.level EXCEPT ![side] = new] /\ u.parent = work.parent
    BY <1>4, <1>6, <2>1 DEF ShortestWork
  <2> HIDE DEF u
  <2> QED  BY <1>4, <1>11, <2>2, <2>3 DEF ShortestWork
<1>13. /\ work.level \in [Side -> SUBSET Node] /\ work.parent \in [Side -> Parents]
       /\ work.hops \in [Side -> Nat]
  BY <1>3 DEF ShortestWork
<1>14. \E dp : Layered(work', side, start, dp)
  <2>1. work'.parent[side] = grown /\ work'.level[side] = new
    BY <1>4, <1>12, <1>13
  <2>2. DepthReached(work', side) = d + 1
    <3>1. DepthReached(work', side) = work.hops[side] /\ work.hops[side] \in Nat
      BY <1>4, <1>12, <1>13 DEF DepthReached
    <3> QED  BY <3>1 DEF d
  <2>3. depth \in [Node -> Nat]
    BY <1>5 DEF Layered, Deepens
  <2>4. \A n \in Node : deeper[n] = IF n \in new THEN d + 1 ELSE depth[n]
    BY DEF Deeper
  <2>5. ASSUME NEW n \in DOMAIN grown PROVE deeper[n] <= d + 1
    <3>1. CASE n \in new
      BY <1>4, <1>6, <2>4, <3>1
    <3>2. CASE n \notin new
      <4>1. n \in DOMAIN work.parent[side] /\ n \in Node
        BY <1>4, <1>11, <1>13, <3>2 DEF Parents
      <4>2. depth[n] <= d /\ depth[n] \in Nat
        BY <1>4, <1>5, <2>3, <4>1 DEF Layered
      <4> QED  BY <1>4, <2>4, <3>2, <4>1, <4>2
    <3> QED  BY <3>1, <3>2
  <2>6. \A n \in new : n \in DOMAIN grown /\ deeper[n] = d + 1
    BY <1>6, <1>11, <2>4
  <2> HIDE DEF deeper
  <2>7. Layered(work', side, start, deeper)
    BY <1>11, <2>1, <2>2, <2>5, <2>6 DEF Layered
  <2> QED  BY <2>7
<1>15. ASSUME NEW s \in Side PROVE \E dp : Layered(work', s, StartOf(request, s), dp)
  <2>1. CASE s = side
    BY <1>14, <2>1
  <2>2. CASE s # side
    <3>1. PICK dp : Layered(work, s, StartOf(request, s), dp)
      BY <1>3 DEF ShortestOK
    <3>2. work'.parent[s] = work.parent[s] /\ work'.level[s] = work.level[s]
      BY <1>12, <1>13, <2>2
    <3>3. DepthReached(work', s) = DepthReached(work, s)
      BY <1>12, <2>2 DEF DepthReached, side
    <3>4. Layered(work', s, StartOf(request, s), dp)
      BY <3>1, <3>2, <3>3 DEF Layered
    <3> QED  BY <3>4
  <2> QED  BY <2>1, <2>2
<1>16. \A n : ~(n \in DOMAIN work'.parent["forward"] /\ n \in DOMAIN work'.parent["backward"])
  <2>1. \A n : ~(n \in DOMAIN work.parent[side] /\ n \in DOMAIN work.parent[Other(side)])
    BY <1>3, <1>4 DEF ShortestOK, Other, Side
  <2>2. work'.parent[side] = grown /\ work'.parent[Other(side)] = work.parent[Other(side)]
    BY <1>4, <1>12, <1>13
  <2>3. \A n : ~(n \in DOMAIN work'.parent[side] /\ n \in DOMAIN work'.parent[Other(side)])
    BY <1>9, <1>11, <2>1, <2>2
  <2> QED  BY <1>4, <2>3 DEF Other, Side
<1>17. ReadsItsLevel(work')
  BY <1>12 DEF ReadsItsLevel
<1>18. work'.hops["forward"] + work'.hops["backward"] <= request.max
  BY <1>3, <1>12 DEF ShortestOK
<1>19. ShortestOK(request, work')
  BY <1>12, <1>15, <1>16, <1>17, <1>18 DEF ShortestOK
<1>20. IInv'
  BY <1>2, <1>12, <1>19 DEF IInv, At
<1>21. \A n \in new : \E l \in LinksTo(NewLinks, n) : p[n] = [node |-> l.from, rel |-> l.rel]
  BY <1>1 DEF new
<1>22. Levelled(p)
  BY <1>7, <1>12, <1>21, Zenon DEF Levelled, new, side, grown
<1> QED  BY <1>20, <1>22

\* Over a link the two sides meet: with it noted, both chains of parents lead from its node, in
\* no more steps than the hops of their sides.
Meets(l, parent, forth, back) ==
    /\ l \in MeetingLinks
    /\ parent = [work.parent EXCEPT ![work.side] = WithParents(@, [n \in {l.node} |-> [node |-> l.from, rel |-> l.rel]])]
    /\ \A s \in Side : parent[s] \in Parents
    /\ Leads(parent["forward"], request.from, l.node, forth)
    /\ Leads(parent["backward"], request.to, l.node, back)
    /\ \A m : m \in DOMAIN parent["forward"] /\ m \in DOMAIN parent["backward"] => m = l.node
    /\ Len(forth) - 1 <= work.hops["forward"] /\ Len(back) - 1 <= work.hops["backward"]

JoinedPath(forth, back) ==
    [at     |-> "found",
     nodes  |-> Reverse(NodesOf(forth)) \o Tail(NodesOf(back)),
     rels   |-> Reverse(RelsOf(forth)) \o RelsOf(back),
     weight |-> 0]

LEMMA MeetingChains ==
    ASSUME IInv, Meet
    PROVE  \E l, parent, forth, back : Meets(l, parent, forth, back) /\ work' = JoinedPath(forth, back)
<1> DEFINE side == work.side
           d == work.hops[side] - 1
<1>1. PICK l \in MeetingLinks :
        LET parent == [work.parent EXCEPT ![work.side] =
                          WithParents(@, [n \in {l.node} |-> [node |-> l.from, rel |-> l.rel]])]
            forth  == Chain(parent["forward"], l.node)
            back   == Chain(parent["backward"], l.node)
        IN  work' = [at     |-> "found",
                     nodes  |-> Reverse(NodesOf(forth)) \o Tail(NodesOf(back)),
                     rels   |-> Reverse(RelsOf(forth)) \o RelsOf(back),
                     weight |-> 0]
  BY Zenon DEF Meet
<1>2. /\ HasRead({"shortest"}) /\ UNCHANGED <<cost, filled, request>>
      /\ work.at = "reading" /\ request.kind = "shortest"
  BY Zenon DEF Meet, HasRead, At
<1>3. ShortestOK(request, work) /\ work \in ShortestWork /\ request.max \in Nat
  BY <1>2, ShortestParts
<1>4. /\ side \in Side /\ Other(side) \in Side /\ Other(side) # side /\ d \in Nat
      /\ DepthReached(work, side) = d /\ DepthReached(work, Other(side)) = work.hops[Other(side)]
  BY <1>2, ReadingSide
<1>5. PICK depth : Layered(work, side, StartOf(request, side), depth)
  BY <1>3, <1>4 DEF ShortestOK
<1>6. PICK depthO : Layered(work, Other(side), StartOf(request, Other(side)), depthO)
  BY <1>3, <1>4 DEF ShortestOK
<1>7. l \in NewLinks /\ l.node \in DOMAIN work.parent[Other(side)]
  BY DEF MeetingLinks
<1>8. /\ [node |-> l.from, rel |-> l.rel] \in Parent /\ l.node \in Node
      /\ l.node \notin DOMAIN work.parent[side]
      /\ l.from \in DOMAIN work.parent[side] /\ depth[l.from] = d
  BY <1>2, <1>5, <1>7, LinksLeaveTheLevel
<1> DEFINE p == [n \in {l.node} |-> [node |-> l.from, rel |-> l.rel]]
           grown == WithParents(work.parent[side], p)
           deeper == Deeper(depth, {l.node}, d)
           parent == [work.parent EXCEPT ![side] = grown]
           forth == Chain(parent["forward"], l.node)
           back == Chain(parent["backward"], l.node)
<1>9. work' = JoinedPath(forth, back)
  BY <1>1, Zenon DEF JoinedPath
<1>9a. parent = [work.parent EXCEPT ![work.side] = WithParents(@, [n \in {l.node} |-> [node |-> l.from, rel |-> l.rel]])]
  OBVIOUS
<1>10. p \in [{l.node} -> Parent] /\ \A n \in {l.node} : p[n] = [node |-> l.from, rel |-> l.rel]
  BY <1>8
<1> HIDE DEF side, d, p
<1>11. /\ DOMAIN grown = DOMAIN work.parent[side] \cup {l.node}
       /\ grown \in Parents
       /\ Deepens(grown, StartOf(request, side), deeper)
       /\ Rooted(grown, StartOf(request, side), Shallower(deeper))
  <2>1. Deepens(work.parent[side], StartOf(request, side), depth)
        /\ Rooted(work.parent[side], StartOf(request, side), Shallower(depth))
    BY <1>5 DEF Layered
  <2>2. \A n \in {l.node} : n \notin DOMAIN work.parent[side]
    BY <1>8
  <2>3. \A n \in {l.node} : p[n].node \in DOMAIN work.parent[side] /\ depth[p[n].node] = d
    BY <1>8, <1>10
  <2>4. {l.node} \in SUBSET Node
    BY <1>8
  <2>5. IsGrown(grown, work.parent[side], {l.node}, StartOf(request, side), deeper)
    BY <1>4, <1>10, <2>1, <2>2, <2>3, <2>4, GrownIsRooted
  <2> HIDE DEF grown, deeper
  <2> QED  BY <2>5 DEF IsGrown
<1>12. work.parent \in [Side -> Parents] /\ work.hops \in [Side -> Nat]
  BY <1>3 DEF ShortestWork
<1>13. deeper[l.node] = d + 1 /\ d + 1 = work.hops[side] /\ work.hops[side] \in Nat
  BY <1>4, <1>8, <1>12 DEF Deeper, d
<1> HIDE DEF grown, deeper
<1>14. parent[side] = grown /\ parent[Other(side)] = work.parent[Other(side)]
  BY <1>4, <1>12
<1> HIDE DEF parent
\* On either side the chain leads to its start, in no more steps than hops.
<1>15. ASSUME NEW s \in Side
       PROVE  /\ parent[s] \in Parents /\ Leads(parent[s], StartOf(request, s), l.node, Chain(parent[s], l.node))
              /\ Len(Chain(parent[s], l.node)) - 1 <= work.hops[s]
  <2>1. CASE s = side
    <3>1. deeper \in [Node -> Nat]
      BY <1>11 DEF Deepens
    <3>2. StrictOrder(Shallower(deeper))
      BY <3>1, ShallowerIsStrict
    <3>3. Leads(grown, StartOf(request, side), l.node, Chain(grown, l.node))
      <4>1. l.node \in DOMAIN grown
        BY <1>11
      <4>2. Rooted(grown, StartOf(request, side), Shallower(deeper))
        BY <1>11
      <4> QED  BY <3>2, <4>1, <4>2, ChainLeads
    <3>4. Len(Chain(grown, l.node)) = deeper[l.node] + 1
      <4>1. grown \in Parents /\ Deepens(grown, StartOf(request, side), deeper)
        BY <1>11
      <4> QED  BY <3>3, <4>1, DepthOfChain
    <3>5. Len(Chain(grown, l.node)) - 1 <= work.hops[side]
      BY <1>13, <3>4
    <3> QED  BY <1>11, <1>14, <2>1, <3>3, <3>5
  <2>2. CASE s # side
    <3>1. s = Other(side)
      BY <1>4, <2>2 DEF Side
    <3>2. /\ Deepens(work.parent[s], StartOf(request, s), depthO)
          /\ Rooted(work.parent[s], StartOf(request, s), Shallower(depthO))
          /\ depthO[l.node] <= work.hops[s]
      BY <1>4, <1>6, <1>7, <3>1 DEF Layered
    <3>3. depthO \in [Node -> Nat]
      BY <3>2 DEF Deepens
    <3>4. StrictOrder(Shallower(depthO))
      BY <3>3, ShallowerIsStrict
    <3>5. l.node \in DOMAIN work.parent[s] /\ work.parent[s] \in Parents
      BY <1>7, <1>12, <3>1
    <3>6. Leads(work.parent[s], StartOf(request, s), l.node, Chain(work.parent[s], l.node))
      BY <3>2, <3>4, <3>5, ChainLeads
    <3>7. Len(Chain(work.parent[s], l.node)) = depthO[l.node] + 1
      BY <3>2, <3>5, <3>6, DepthOfChain
    <3>8. Len(Chain(work.parent[s], l.node)) - 1 <= work.hops[s]
      <4>1. depthO[l.node] \in Nat /\ work.hops[s] \in Nat
        BY <1>8, <1>12, <3>3
      <4> QED  BY <3>2, <3>7, <4>1
    <3> QED  BY <1>14, <3>1, <3>5, <3>6, <3>8
  <2> QED  BY <2>1, <2>2
<1>16. \A m : m \in DOMAIN parent["forward"] /\ m \in DOMAIN parent["backward"] => m = l.node
  <2>1. \A n : ~(n \in DOMAIN work.parent[side] /\ n \in DOMAIN work.parent[Other(side)])
    BY <1>3, <1>4 DEF ShortestOK, Other, Side
  <2>2. \A m : m \in DOMAIN parent[side] /\ m \in DOMAIN parent[Other(side)] => m = l.node
    BY <1>11, <1>14, <2>1
  <2> QED  BY <1>4, <2>2 DEF Other, Side
<1>17. "forward" \in Side /\ "backward" \in Side
       /\ StartOf(request, "forward") = request.from /\ StartOf(request, "backward") = request.to
  BY DEF Side, StartOf
<1>18. /\ parent["forward"] \in Parents /\ Leads(parent["forward"], request.from, l.node, forth)
       /\ parent["backward"] \in Parents /\ Leads(parent["backward"], request.to, l.node, back)
       /\ Len(forth) - 1 <= work.hops["forward"] /\ Len(back) - 1 <= work.hops["backward"]
  BY <1>15, <1>17
<1> HIDE DEF forth, back
<1>19. \A s \in Side : parent[s] \in Parents
  BY <1>15
<1>20. Meets(l, parent, forth, back)
  BY <1>9a, <1>16, <1>18, <1>19, Zenon DEF Meets
<1> QED  BY <1>9, <1>20

\* What two meeting chains make is a path.
LEMMA MeetKeepsIInv ==
    ASSUME IInv, Meet
    PROVE  IInv'
<1>1. PICK l, parent, forth, back : Meets(l, parent, forth, back) /\ work' = JoinedPath(forth, back)
  BY MeetingChains
<1>2. UNCHANGED <<cost, filled, request>> /\ work.at = "reading" /\ request.kind = "shortest"
  BY Zenon DEF Meet, HasRead, At
<1>3. ShortestOK(request, work) /\ work \in ShortestWork /\ request.max \in Nat
  BY <1>2, ShortestParts
<1> DEFINE nodes == Reverse(NodesOf(forth)) \o Tail(NodesOf(back))
           rels == Reverse(RelsOf(forth)) \o RelsOf(back)
<1>4. /\ parent["forward"] \in Parents /\ Leads(parent["forward"], request.from, l.node, forth)
      /\ parent["backward"] \in Parents /\ Leads(parent["backward"], request.to, l.node, back)
      /\ \A m : m \in DOMAIN parent["forward"] /\ m \in DOMAIN parent["backward"] => m = l.node
      /\ Len(forth) - 1 <= work.hops["forward"] /\ Len(back) - 1 <= work.hops["backward"]
  BY <1>1, Zenon DEF Meets, Side
<1>5. GoodPath(nodes, rels, request.from, request.to) /\ Len(rels) = Len(forth) + Len(back) - 2
  BY <1>4, MeetingIsPath
<1>6. work'.at = "found" /\ work'.nodes = nodes /\ work'.rels = rels
  BY <1>1 DEF JoinedPath
<1> HIDE DEF nodes, rels
<1>7. Len(rels) <= request.max
  <2>1. Len(forth) \in Nat /\ Len(back) \in Nat
    BY <1>4 DEF Leads
  <2>2. work.hops["forward"] \in Nat /\ work.hops["backward"] \in Nat
    BY <1>3 DEF ShortestWork, Side
  <2>3. work.hops["forward"] + work.hops["backward"] <= request.max
    BY <1>3 DEF ShortestOK
  <2> QED  BY <1>3, <1>4, <1>5, <2>1, <2>2, <2>3
<1>8. FoundOK(request, work')
  BY <1>5, <1>6, <1>7 DEF FoundOK
<1> QED  BY <1>2, <1>6, <1>8 DEF IInv, At

-----------------------------------------------------------------------------
(* Dijkstra's search *)

LEMMA NearerIsStrict ==
    ASSUME NEW S \in SUBSET Node, NEW distances \in [S -> Nat], NEW since \in [Node -> Nat]
    PROVE  StrictOrder(Nearer(distances, since))
<1>1. \A a \in S : distances[a] \in Nat /\ since[a] \in Nat
  OBVIOUS
<1>2. DOMAIN distances = S
  OBVIOUS
<1>3. \A a, b : <<a, b>> \in Nearer(distances, since) <=>
        /\ a \in S /\ b \in S
        /\ distances[a] < distances[b] \/ (distances[a] = distances[b] /\ since[a] < since[b])
  BY <1>2 DEF Nearer
<1>4. ASSUME NEW a \in Node, NEW b \in Node, NEW c \in Node,
             <<a, b>> \in Nearer(distances, since), <<b, c>> \in Nearer(distances, since)
      PROVE  <<a, c>> \in Nearer(distances, since)
  <2>1. a \in S /\ b \in S /\ c \in S
    BY <1>3, <1>4
  <2>2. distances[a] < distances[b] \/ (distances[a] = distances[b] /\ since[a] < since[b])
    BY <1>3, <1>4
  <2>3. distances[b] < distances[c] \/ (distances[b] = distances[c] /\ since[b] < since[c])
    BY <1>3, <1>4
  <2>4. distances[a] < distances[c] \/ (distances[a] = distances[c] /\ since[a] < since[c])
    BY <1>1, <2>1, <2>2, <2>3
  <2> QED  BY <1>3, <2>1, <2>4
<1>5. \A a \in Node : <<a, a>> \notin Nearer(distances, since)
  BY <1>1, <1>3
<1> QED  BY <1>4, <1>5 DEF StrictOrder

\* A queue that is not empty has a least entry.
LEMMA LeastEntry ==
    ASSUME NEW pq \in SUBSET (Nat \X Node), pq # {}
    PROVE  \E a \in pq : \A b \in pq : Before(a, b)
<1> DEFINE Costs == {e[1] : e \in pq}
<1>1. Costs \subseteq Nat /\ Costs # {}
  OBVIOUS
<1>2. PICK d \in Costs : \A y \in Costs : d <= y
  <2> HIDE DEF Costs
  <2> QED  BY <1>1, NatMin
<1> DEFINE Nodes == {e[2] : e \in {f \in pq : f[1] = d}}
<1>3. Nodes \subseteq Nat /\ Nodes # {}
  <2>1. \A e \in pq : e[2] \in Nat
    BY SearchesAssumption
  <2>2. PICK e \in pq : e[1] = d
    OBVIOUS
  <2>3. e[2] \in Nodes
    BY <2>2
  <2> QED  BY <2>1, <2>3
<1>4. PICK n \in Nodes : \A y \in Nodes : n <= y
  <2> HIDE DEF Nodes
  <2> QED  BY <1>3, NatMin
<1>5. PICK a \in pq : a[1] = d /\ a[2] = n
  OBVIOUS
<1>6. ASSUME NEW b \in pq PROVE Before(a, b)
  <2>1. b[1] \in Costs
    OBVIOUS
  <2>2. d <= b[1] /\ d \in Nat /\ b[1] \in Nat
    BY <1>2, <2>1
  <2>3. b[1] = d => b[2] \in Nodes
    OBVIOUS
  <2>4. b[1] = d => n <= b[2]
    BY <1>4, <2>3
  <2> QED  BY <1>5, <2>2, <2>4 DEF Before
<1> QED  BY <1>6

\* Dijkstra's starts well.
LEMMA FromStartOK ==
    ASSUME NEW q \in Request
    PROVE  CheapestOK(q, FromStart(q))
<1> DEFINE w == FromStart(q)
           since == [n \in Node |-> 0]
<1>1. q.from \in Node
  BY SearchesAssumption
<1>2. /\ w.at = "queue" /\ w.distances = [n \in {q.from} |-> 0] /\ w.parent = [n \in {q.from} |-> {}]
      /\ w.pq = {<<0, q.from>>} /\ w.top = <<0, q.from>> /\ w.best = Gone /\ w.pending = {} /\ w.read = Unread
  BY DEF FromStart
<1>3. w \in CheapestWork
  <2>1. w.distances \in [{q.from} -> Nat] /\ w.parent \in [{q.from} -> SUBSET Parent]
    BY <1>2
  <2>2. w.distances \in UNION {[S -> Nat] : S \in SUBSET Node}
        /\ w.parent \in UNION {[S -> SUBSET Parent] : S \in SUBSET Node}
    BY <1>1, <2>1
  <2>3. w = [at |-> w.at, distances |-> w.distances, parent |-> w.parent, pq |-> w.pq, top |-> w.top,
             best |-> w.best, pending |-> w.pending, read |-> w.read]
    BY DEF FromStart
  <2> HIDE DEF w
  <2> QED  BY <1>1, <1>2, <2>2, <2>3, UnreadIs DEF CheapestWork
<1> HIDE DEF w
<1>4. since \in [Node -> Nat] /\ \A n \in Node : since[n] <= 0
  OBVIOUS
<1> HIDE DEF since
<1>5. OneParent(w, q.from, since)
  BY <1>2 DEF OneParent
<1>6. ReadsItsTop(w)
  BY <1>2 DEF ReadsItsTop
<1>7. \A e \in w.pq : e[2] \in DOMAIN w.distances /\ w.distances[e[2]] <= e[1]
  BY <1>2
<1> QED  BY <1>2, <1>3, <1>4, <1>5, <1>6, <1>7 DEF CheapestOK, w

LEMMA CheapestParts ==
    ASSUME IInv, request.kind = "cheapest", work.at \in {"queue", "reading"}
    PROVE  CheapestOK(request, work) /\ work \in CheapestWork /\ request \in Request
BY DEF IInv, At, CheapestOK

LEMMA TopIsThere ==
    ASSUME work \in CheapestWork, work.pq # {}
    PROVE  Top \in work.pq /\ Top \in Nat \X Node
<1>1. work.pq \in SUBSET (Nat \X Node)
  BY DEF CheapestWork
<1>2. \E a \in work.pq : \A b \in work.pq : Before(a, b)
  BY <1>1, LeastEntry
<1> QED  BY <1>1, <1>2 DEF Top

\* The top leaves the queue, and its links are read unless it was overtaken.
Popped ==
    /\ Top \in work.pq /\ Top \in Nat \X Node
    /\ work'.distances = work.distances /\ work'.parent = work.parent /\ work'.pq = work.pq \ {Top}
    /\ \/ work'.at = "queue" /\ Top[1] > work.distances[Top[2]]
       \/ /\ work'.at = "reading" /\ Top[1] = work.distances[Top[2]]
          /\ work'.top = Top /\ work'.pending = {Top[2]} /\ work'.read = Unread

\* The top is taken, at the distance noted.
LEMMA PopStep ==
    ASSUME IInv, Pop, request.kind = "cheapest"
    PROVE  IInv' /\ Popped
<1>1. work.at = "queue" /\ UNCHANGED <<cost, filled, request>> /\ work.pq # {}
  BY DEF Pop, At, Ending
<1>2. CheapestOK(request, work) /\ work \in CheapestWork
  BY <1>1, CheapestParts
<1>3. Top \in work.pq /\ Top \in Nat \X Node
  BY <1>1, <1>2, TopIsThere
<1>4. BestSoFar \in Nat \cup {Gone}
  BY <1>2, <1>3 DEF BestSoFar, CheapestWork
<1> DEFINE w == [work EXCEPT !.pq = @ \ {Top}, !.top = Top, !.best = BestSoFar]
<1>5. work' = IF Top[1] > work.distances[Top[2]] THEN w ELSE Reading(w, {Top[2]})
  BY DEF Pop
<1>6. /\ w \in CheapestWork
      /\ w.at = "queue" /\ w.distances = work.distances /\ w.parent = work.parent
      /\ w.pq = work.pq \ {Top} /\ w.top = Top
  BY <1>1, <1>2, <1>3, <1>4 DEF CheapestWork
<1> HIDE DEF w
<1>7. /\ Top[2] \in DOMAIN work.distances /\ work.distances[Top[2]] <= Top[1]
      /\ Top[1] \in Nat /\ Top[2] \in Node /\ work.distances[Top[2]] \in Nat
  BY <1>2, <1>3 DEF CheapestOK, CheapestWork
<1>8. /\ work' \in CheapestWork
      /\ work'.at \in {"queue", "reading"}
      /\ work'.distances = work.distances /\ work'.parent = work.parent /\ work'.pq = work.pq \ {Top}
      /\ ReadsItsTop(work')
      /\ \/ work'.at = "queue" /\ Top[1] > work.distances[Top[2]]
         \/ /\ work'.at = "reading" /\ Top[1] = work.distances[Top[2]]
            /\ work'.top = Top /\ work'.pending = {Top[2]} /\ work'.read = Unread
  <2>1. CASE Top[1] > work.distances[Top[2]]
    <3>1. work' = w
      BY <1>5, <2>1
    <3> QED  BY <1>6, <2>1, <3>1 DEF ReadsItsTop
  <2>2. CASE ~(Top[1] > work.distances[Top[2]])
    <3>1. work' = [w EXCEPT !.at = "reading", !.pending = {Top[2]}, !.read = Unread]
      BY <1>5, <2>2 DEF Reading
    <3>2. /\ work' \in CheapestWork
          /\ work'.at = "reading" /\ work'.distances = w.distances /\ work'.parent = w.parent
          /\ work'.pq = w.pq /\ work'.top = w.top /\ work'.pending = {Top[2]} /\ work'.read = Unread
      BY <1>6, <1>7, <3>1, UnreadIs DEF CheapestWork
    <3>3. Top[1] = work.distances[Top[2]]
      BY <1>7, <2>2
    <3>4. ReadsItsTop(work')
      BY <1>6, <1>7, <3>2, <3>3, UnreadIs DEF ReadsItsTop
    <3> QED  BY <1>6, <3>2, <3>3, <3>4
  <2> QED  BY <2>1, <2>2
<1>9. PICK since \in [Node -> Nat], now \in Nat :
        (\A m \in Node : since[m] <= now) /\ OneParent(work, request.from, since)
  BY <1>2 DEF CheapestOK
<1>10. OneParent(work', request.from, since)
  BY <1>8, <1>9 DEF OneParent
<1>11. CheapestOK(request, work')
  BY <1>2, <1>8, <1>9, <1>10 DEF CheapestOK
<1>12. IInv'
  BY <1>1, <1>8, <1>11 DEF IInv, At
<1> QED  BY <1>3, <1>8, <1>12 DEF Popped

LEMMA PricesAre == \A rels, r : Charge(rels, r) \in Nat
BY SearchesAssumption DEF Charge

\* The links of the top shorten the way to some nodes: by the least cost of a link to them, over
\* one that costs as little; no link shortens the way to another node.
Relaxed(better, least, first, queued) ==
    LET S       == DOMAIN work.distances
        u       == work.top[2]
        dist(l) == work.top[1] + Charge(RelsRead, l.rel)
    IN  /\ better \in SUBSET Node /\ least \in [better -> Nat] /\ first \in [better -> Parent]
        /\ work' \in CheapestWork /\ work'.at = "queue" /\ work'.pq = work.pq \cup queued
        /\ work'.distances = [n \in S \cup better |-> IF n \in better THEN least[n] ELSE work.distances[n]]
        /\ work'.parent = [n \in S \cup better |-> IF n \in better THEN {first[n]} ELSE work.parent[n]]
        /\ \A n \in better :
              /\ n # u /\ n # request.from
              /\ least[n] >= work.top[1] /\ (n \in S => least[n] < work.distances[n])
              /\ \E l \in LinksTo(LinksRead, n) : first[n] = [node |-> u, rel |-> l.rel] /\ least[n] = dist(l)
              /\ <<least[n], n>> \in queued
        /\ \A l \in LinksRead :
              /\ l.from = u
              /\ l.node \in better => least[l.node] <= dist(l)
              /\ l.node \notin better => l.node \in S /\ work.distances[l.node] <= dist(l)
        /\ \A e \in queued : e \in Nat \X Node /\ e[2] \in better /\ least[e[2]] <= e[1]

LEMMA Relaxing ==
    ASSUME IInv, Relax, request.kind = "cheapest"
    PROVE  \E better, least, first, queued : Relaxed(better, least, first, queued)
<1> DEFINE links      == LinksRead
           reached    == {l.node : l \in links}
           dist(l)    == work.top[1] + Charge(RelsRead, l.rel)
           least(n)   == Min({dist(l) : l \in LinksTo(links, n)})
           nearest(n) == {[node |-> l.from, rel |-> l.rel] : l \in {k \in LinksTo(links, n) : dist(k) = least(n)}}
           better     == {n \in reached : Improved(n, least(n))}
           tied       == {n \in reached : Ties(n, least(n))}
           via(n, p)  == IF request.kind = "cheapest" THEN {p} ELSE nearest(n)
           queued     == UNION {{<<dist(l), n>> : l \in {k \in LinksTo(links, n) : Improved(n, dist(k))}} :
                                n \in better}
<1>1. PICK first \in [better -> {[node |-> l.from, rel |-> l.rel] : l \in links}] :
        /\ \A n \in better : first[n] \in nearest(n)
        /\ work' = [work EXCEPT
              !.at = "queue", !.read = Unread,
              !.distances = WithParents(@, [n \in better |-> least(n)]),
              !.parent = WithParents(WithParents(@, [n \in tied |-> @[n] \cup nearest(n)]),
                                     [n \in better |-> via(n, first[n])]),
              !.pq = @ \cup queued]
  BY Zenon DEF Relax
<1>2. work.at = "reading" /\ UNCHANGED <<cost, filled, request>>
  BY DEF Relax, HasRead, At
<1>3. CheapestOK(request, work) /\ work \in CheapestWork
  BY <1>2, CheapestParts
<1> DEFINE u == work.top[2]
           S == DOMAIN work.distances
<1>4. /\ u \in S /\ work.top[1] = work.distances[u] /\ DOMAIN work.read \subseteq {u}
      /\ S \in SUBSET Node /\ work.distances \in [S -> Nat] /\ work.parent \in [S -> SUBSET Parent]
      /\ work.top[1] \in Nat /\ u \in Node /\ work.read \in Reads
      /\ request.from \in S /\ work.distances[request.from] = 0 /\ work.parent[request.from] = {}
  BY <1>2, <1>3 DEF CheapestOK, CheapestWork, ReadsItsTop
<1>5. ASSUME NEW l \in links
      PROVE  /\ l.from = u /\ l.node \in Node /\ l.rel \in Rel
             /\ dist(l) \in Nat /\ dist(l) >= work.top[1]
  <2>1. l.from \in DOMAIN work.read /\ l.node \in Node /\ l.rel \in Rel
    BY <1>4, LinksReadAre
  <2>2. Charge(RelsRead, l.rel) \in Nat
    BY PricesAre
  <2> QED  BY <1>4, <2>1, <2>2
<1>6. ASSUME NEW n \in reached
      PROVE  /\ n \in Node /\ least(n) \in Nat /\ least(n) >= work.top[1]
             /\ \A l \in LinksTo(links, n) : least(n) <= dist(l)
             /\ \E l \in LinksTo(links, n) : least(n) = dist(l)
  <2> DEFINE D == {dist(l) : l \in LinksTo(links, n)}
  <2>1. \A l \in LinksTo(links, n) : l \in links
    BY DEF LinksTo
  <2>2. D \subseteq Nat /\ \A x \in D : x >= work.top[1]
    BY <1>5, <2>1
  <2>3. D # {}
    BY DEF LinksTo
  <2>4. Min(D) \in D /\ \A x \in D : Min(D) <= x
    <3> HIDE DEF D
    <3> QED  BY <2>2, <2>3, NatMin DEF Min
  <2>5. n \in Node
    BY <1>5
  <2>6. \E l \in LinksTo(links, n) : Min(D) = dist(l)
    BY <2>4
  <2> QED  BY <2>2, <2>4, <2>5, <2>6
<1> HIDE DEF dist, least, links
\* What is better is not what was read from, and not the start.
<1>7. ASSUME NEW n \in better
      PROVE  /\ n \in Node /\ n # u /\ n # request.from /\ least(n) \in Nat
             /\ n \in S => least(n) < work.distances[n]
  <2>1. n \in reached /\ Improved(n, least(n))
    OBVIOUS
  <2>2. n \in Node /\ least(n) \in Nat /\ least(n) >= work.top[1]
    BY <1>6
  <2>3. n \in S => least(n) < work.distances[n]
    BY <2>1 DEF Improved
  <2> QED  BY <1>4, <2>2, <2>3
<1>8. ASSUME NEW n \in better
      PROVE  /\ first[n] \in Parent /\ first[n].node = u
             /\ \E l \in LinksTo(links, n) : first[n] = [node |-> u, rel |-> l.rel] /\ least(n) = dist(l)
  <2>1. PICK l \in LinksTo(links, n) : first[n] = [node |-> l.from, rel |-> l.rel] /\ dist(l) = least(n)
    BY <1>1
  <2>2. l \in links
    BY DEF LinksTo
  <2> QED  BY <1>4, <1>5, <2>1, <2>2 DEF Parent
<1>9. tied = {}
  BY DEF Ties
<1> DEFINE nearer == WithParents(work.distances, [n \in better |-> least(n)])
           parents == WithParents(WithParents(work.parent, [n \in tied |-> work.parent[n] \cup nearest(n)]),
                                  [n \in better |-> via(n, first[n])])
<1>10. work' = [work EXCEPT !.at = "queue", !.read = Unread, !.distances = nearer, !.parent = parents,
                            !.pq = @ \cup queued]
  BY <1>1
<1>11. nearer = [n \in S \cup better |-> IF n \in better THEN least(n) ELSE work.distances[n]]
  BY DEF WithParents
<1>12. parents = [n \in S \cup better |-> IF n \in better THEN {first[n]} ELSE work.parent[n]]
  <2> DEFINE t == [n \in tied |-> work.parent[n] \cup nearest(n)]
             b == [n \in better |-> via(n, first[n])]
             old == WithParents(work.parent, t)
  <2>1. DOMAIN t = {}
    BY <1>9
  <2> HIDE DEF t
  <2>2. old = work.parent
    <3>1. old = [n \in S |-> work.parent[n]]
      BY <1>4, <2>1 DEF WithParents
    <3> QED  BY <1>4, <3>1
  <2>3. DOMAIN b = better /\ \A n \in better : b[n] = {first[n]}
    OBVIOUS
  <2> HIDE DEF b, old
  <2>4. WithParents(work.parent, b) = [n \in S \cup better |-> IF n \in better THEN {first[n]} ELSE work.parent[n]]
    <3> HIDE DEF better, S
    <3>1. DOMAIN work.parent = S
      BY <1>4
    <3> QED  BY <2>3, <3>1 DEF WithParents
  <2>5. parents = WithParents(old, b)
    BY DEF old, t, b
  <2> QED  BY <2>2, <2>4, <2>5
<1>13. better \in SUBSET Node
  BY <1>7
<1>14. ASSUME NEW e \in queued
       PROVE  /\ e \in Nat \X Node /\ e[2] \in better /\ least(e[2]) <= e[1]
  <2>1. PICK n \in better : e \in {<<dist(l), n>> : l \in {k \in LinksTo(links, n) : Improved(n, dist(k))}}
    OBVIOUS
  <2>2. PICK l \in LinksTo(links, n) : e = <<dist(l), n>>
    BY <2>1
  <2>3. l \in links
    BY DEF LinksTo
  <2>4. n \in reached
    OBVIOUS
  <2>5. dist(l) \in Nat /\ n \in Node /\ least(n) <= dist(l)
    BY <1>5, <1>6, <2>3, <2>4
  <2> QED  BY <2>2, <2>5
<1>14a. ASSUME NEW n \in better PROVE <<least(n), n>> \in queued
  <2>1. n \in reached /\ Improved(n, least(n))
    OBVIOUS
  <2>2. PICK l \in LinksTo(links, n) : least(n) = dist(l)
    BY <1>6, <2>1
  <2> QED  BY <2>1, <2>2
<1>14b. ASSUME NEW l \in links
        PROVE  /\ l.from = u
               /\ l.node \in better => least(l.node) <= dist(l)
               /\ l.node \notin better => l.node \in S /\ work.distances[l.node] <= dist(l)
  <2>1. l.node \in reached /\ l \in LinksTo(links, l.node)
    BY DEF LinksTo
  <2>2. l.from = u /\ dist(l) \in Nat
    BY <1>5
  <2>3. least(l.node) \in Nat /\ least(l.node) <= dist(l)
    BY <1>6, <2>1
  <2>4. ASSUME l.node \notin better PROVE l.node \in S /\ work.distances[l.node] <= dist(l)
    <3>1. ~Improved(l.node, least(l.node))
      BY <2>1, <2>4
    <3>2. l.node \in S /\ ~(least(l.node) < work.distances[l.node])
      BY <3>1 DEF Improved
    <3>3. work.distances[l.node] \in Nat
      BY <1>4, <3>2
    <3> QED  BY <2>2, <2>3, <3>2, <3>3
  <2> QED  BY <2>2, <2>3, <2>4
<1> HIDE DEF better, queued, nearer, parents, reached, tied, nearest, u, S
<1>15. nearer \in [S \cup better -> Nat] /\ parents \in [S \cup better -> SUBSET Parent]
       /\ S \cup better \in SUBSET Node
  <2>1. \A n \in better : least(n) \in Nat /\ {first[n]} \in SUBSET Parent
    BY <1>7, <1>8
  <2>2. nearer \in [S \cup better -> Nat]
    BY <1>4, <1>11, <2>1
  <2>3. parents \in [S \cup better -> SUBSET Parent]
    BY <1>4, <1>12, <2>1
  <2> QED  BY <1>4, <1>13, <2>2, <2>3
<1>16. /\ work' \in CheapestWork
       /\ work'.at = "queue" /\ work'.distances = nearer /\ work'.parent = parents
       /\ work'.pq = work.pq \cup queued
  <2>1. nearer \in UNION {[D -> Nat] : D \in SUBSET Node}
    BY <1>15
  <2>2. parents \in UNION {[D -> SUBSET Parent] : D \in SUBSET Node}
    BY <1>15
  <2>3. queued \in SUBSET (Nat \X Node)
    BY <1>14
  <2>4. work.pq \cup queued \in SUBSET (Nat \X Node)
    BY <1>3, <2>3 DEF CheapestWork
  <2> QED  BY <1>3, <1>10, <2>1, <2>2, <2>4, UnreadIs DEF CheapestWork
<1> DEFINE lowest == [n \in better |-> least(n)]
<1>17. \A n \in better : lowest[n] = least(n)
  OBVIOUS
<1>18. lowest \in [better -> Nat] /\ first \in [better -> Parent]
  <2>1. \A n \in better : least(n) \in Nat /\ first[n] \in Parent
    BY <1>7, <1>8
  <2>2. lowest \in [better -> Nat]
    BY <2>1
  <2>3. first \in [better -> Parent]
    BY <1>1, <2>1
  <2> QED  BY <2>2, <2>3
<1> HIDE DEF lowest
<1>19. /\ work'.distances = [n \in S \cup better |-> IF n \in better THEN lowest[n] ELSE work.distances[n]]
       /\ work'.parent = [n \in S \cup better |-> IF n \in better THEN {first[n]} ELSE work.parent[n]]
  BY <1>11, <1>12, <1>16, <1>17
<1>20. \A n \in better :
         /\ n # u /\ n # request.from
         /\ lowest[n] >= work.top[1] /\ (n \in S => lowest[n] < work.distances[n])
         /\ \E l \in LinksTo(links, n) : first[n] = [node |-> u, rel |-> l.rel] /\ lowest[n] = dist(l)
         /\ <<lowest[n], n>> \in queued
  <2> TAKE n \in better
  <2>1. n # u /\ n # request.from /\ (n \in S => least(n) < work.distances[n])
    BY <1>7
  <2>2. least(n) >= work.top[1]
    BY <1>6 DEF better
  <2>3. \E l \in LinksTo(links, n) : first[n] = [node |-> u, rel |-> l.rel] /\ least(n) = dist(l)
    BY <1>8
  <2>4. <<least(n), n>> \in queued
    BY <1>14a
  <2> QED  BY <1>17, <2>1, <2>2, <2>3, <2>4
<1>21. \A l \in links :
         /\ l.from = u
         /\ l.node \in better => lowest[l.node] <= dist(l)
         /\ l.node \notin better => l.node \in S /\ work.distances[l.node] <= dist(l)
  BY <1>14b, <1>17
<1>22. \A e \in queued : e \in Nat \X Node /\ e[2] \in better /\ lowest[e[2]] <= e[1]
  BY <1>14, <1>17
<1>23. \A l : dist(l) = work.top[1] + Charge(RelsRead, l.rel)
  BY DEF dist
<1>24. \A n \in better :
         /\ n # u /\ n # request.from
         /\ lowest[n] >= work.top[1] /\ (n \in S => lowest[n] < work.distances[n])
         /\ \E l \in LinksTo(links, n) :
               first[n] = [node |-> u, rel |-> l.rel] /\ lowest[n] = work.top[1] + Charge(RelsRead, l.rel)
         /\ <<lowest[n], n>> \in queued
  BY <1>20, <1>23, Zenon
<1>25. \A l \in links :
         /\ l.from = u
         /\ l.node \in better => lowest[l.node] <= work.top[1] + Charge(RelsRead, l.rel)
         /\ l.node \notin better => l.node \in S /\ work.distances[l.node] <= work.top[1] + Charge(RelsRead, l.rel)
  BY <1>21, <1>23, Zenon
<1>26. work' \in CheapestWork /\ work'.at = "queue" /\ work'.pq = work.pq \cup queued
  BY <1>16
<1>27. Relaxed(better, lowest, first, queued)
  <2> USE DEF S, u, links
  <2> QED  BY <1>13, <1>18, <1>19, <1>22, <1>24, <1>25, <1>26, Zenon DEF Relaxed
<1> QED  BY <1>27

\* The nodes whose way is shortened get the top as their parent: it is nearer, or was there
\* before.
LEMMA RelaxKeepsIInv ==
    ASSUME IInv, Relax, request.kind = "cheapest"
    PROVE  IInv'
<1>1. PICK better, least, first, queued : Relaxed(better, least, first, queued)
  BY Relaxing
<1>2. work.at = "reading" /\ UNCHANGED <<cost, filled, request>>
  BY DEF Relax, HasRead, At
<1>3. CheapestOK(request, work) /\ work \in CheapestWork
  BY <1>2, CheapestParts
<1> DEFINE u == work.top[2]
           S == DOMAIN work.distances
           nearer == work'.distances
           parents == work'.parent
<1>4. /\ u \in S /\ work.top[1] = work.distances[u]
      /\ S \in SUBSET Node /\ work.distances \in [S -> Nat] /\ work.parent \in [S -> SUBSET Parent]
      /\ work.top[1] \in Nat /\ u \in Node
      /\ request.from \in S /\ work.distances[request.from] = 0 /\ work.parent[request.from] = {}
  BY <1>2, <1>3 DEF CheapestOK, CheapestWork, ReadsItsTop
<1>5. \A n \in better :
        /\ n # u /\ n # request.from /\ least[n] \in Nat /\ least[n] >= work.top[1]
        /\ n \in S => least[n] < work.distances[n]
  BY <1>1 DEF Relaxed
<1>6. \A n \in better : first[n] \in Parent /\ first[n].node = u
  <2> TAKE n \in better
  <2>1. \E l \in LinksTo(LinksRead, n) :
          first[n] = [node |-> work.top[2], rel |-> l.rel] /\ least[n] = work.top[1] + Charge(RelsRead, l.rel)
    BY <1>1, Zenon DEF Relaxed
  <2>2. first \in [better -> Parent]
    BY <1>1 DEF Relaxed
  <2> QED  BY <2>1, <2>2
<1>7. nearer = [n \in S \cup better |-> IF n \in better THEN least[n] ELSE work.distances[n]]
  BY <1>1, Zenon DEF Relaxed
<1>8. parents = [n \in S \cup better |-> IF n \in better THEN {first[n]} ELSE work.parent[n]]
  BY <1>1, Zenon DEF Relaxed
<1>9. better \in SUBSET Node
  BY <1>1 DEF Relaxed
<1>10. \A e \in queued : e \in Nat \X Node /\ e[2] \in better /\ least[e[2]] <= e[1]
  BY <1>1, Zenon DEF Relaxed
<1>11. nearer \in [S \cup better -> Nat] /\ S \cup better \in SUBSET Node
  BY <1>4, <1>5, <1>7, <1>9
<1>12. /\ work' \in CheapestWork
       /\ work'.at = "queue" /\ work'.distances = nearer /\ work'.parent = parents
       /\ work'.pq = work.pq \cup queued
  BY <1>1, Zenon DEF Relaxed
<1> HIDE DEF u, S, nearer, parents
<1>13. \A n \in S : nearer[n] \in Nat /\ work.distances[n] \in Nat /\ nearer[n] <= work.distances[n]
  <2>1. ASSUME NEW n \in S PROVE nearer[n] \in Nat /\ work.distances[n] \in Nat /\ nearer[n] <= work.distances[n]
    <3>1. nearer[n] \in Nat /\ work.distances[n] \in Nat
      BY <1>4, <1>11
    <3>2. CASE n \in better
      <4>1. nearer[n] = least[n] /\ least[n] < work.distances[n]
        BY <1>5, <1>7, <3>2 DEF S
      <4> QED  BY <3>1, <4>1
    <3>3. CASE n \notin better
      BY <1>7, <3>1, <3>3
    <3> QED  BY <3>2, <3>3
  <2> QED  BY <2>1
<1>14. ASSUME NEW e \in work'.pq PROVE e[2] \in DOMAIN work'.distances /\ work'.distances[e[2]] <= e[1]
  <2>1. CASE e \in work.pq
    <3>1. e[2] \in S /\ work.distances[e[2]] <= e[1] /\ e[1] \in Nat
      BY <1>3, <2>1 DEF CheapestOK, CheapestWork, S
    <3>2. nearer[e[2]] <= e[1]
      BY <1>13, <3>1
    <3> QED  BY <1>7, <1>12, <3>1, <3>2
  <2>2. CASE e \in queued
    <3>1. e[2] \in better /\ least[e[2]] <= e[1]
      BY <1>10, <2>2
    <3> QED  BY <1>7, <1>12, <3>1
  <2> QED  BY <1>12, <2>1, <2>2
<1>15. PICK since \in [Node -> Nat], now \in Nat :
         (\A m \in Node : since[m] <= now) /\ OneParent(work, request.from, since)
  BY <1>3 DEF CheapestOK
<1> DEFINE later == [n \in Node |-> IF n \in better THEN now + 1 ELSE since[n]]
<1>16. later \in [Node -> Nat] /\ \A n \in Node : later[n] = IF n \in better THEN now + 1 ELSE since[n]
  OBVIOUS
<1> HIDE DEF later
<1>17. \A n \in Node : later[n] <= now + 1
  <2>1. \A n \in Node : since[n] \in Nat /\ since[n] <= now
    BY <1>15
  <2> QED  BY <1>16, <2>1
<1>18. ASSUME NEW n \in DOMAIN parents \ {request.from}
       PROVE  \E p \in Parent : parents[n] = {p} /\ <<p.node, n>> \in Nearer(nearer, later)
  <2>1. n \in S \cup better /\ n \in Node
    BY <1>8, <1>11
  <2>2. DOMAIN nearer = S \cup better
    BY <1>7
  <2>3. CASE n \in better
    <3>1. parents[n] = {first[n]} /\ first[n] \in Parent /\ first[n].node = u
      BY <1>6, <1>8, <2>1, <2>3
    <3>2. u \notin better /\ n # u
      BY <1>5, <2>3
    <3>3. nearer[u] = work.top[1] /\ nearer[n] = least[n]
      BY <1>4, <1>7, <2>3, <3>2
    <3>4. least[n] >= work.top[1] /\ least[n] \in Nat
      BY <1>5, <2>3
    <3>5. later[u] = since[u] /\ since[u] <= now /\ since[u] \in Nat /\ later[n] = now + 1
      BY <1>4, <1>15, <1>16, <2>1, <2>3, <3>2
    <3>6. nearer[u] < nearer[n] \/ (nearer[u] = nearer[n] /\ later[u] < later[n])
      <4>1. nearer[u] \in Nat /\ nearer[n] \in Nat /\ nearer[u] <= nearer[n]
        BY <1>4, <3>3, <3>4
      <4>2. later[u] < later[n]
        BY <3>5
      <4> QED  BY <4>1, <4>2
    <3>7. <<u, n>> \in Nearer(nearer, later)
      BY <1>4, <2>1, <2>2, <3>6 DEF Nearer
    <3> QED  BY <3>1, <3>7
  <2>4. CASE n \notin better
    <3>1. n \in DOMAIN work.parent \ {request.from} /\ parents[n] = work.parent[n] /\ n \in S
      BY <1>4, <1>8, <2>1, <2>4
    <3>2. PICK p \in Parent : work.parent[n] = {p} /\ <<p.node, n>> \in Nearer(work.distances, since)
      BY <1>15, <3>1 DEF OneParent
    <3>3. /\ p.node \in S
          /\ \/ work.distances[p.node] < work.distances[n]
             \/ work.distances[p.node] = work.distances[n] /\ since[p.node] < since[n]
      BY <3>2 DEF Nearer, S
    <3>4. nearer[n] = work.distances[n] /\ later[n] = since[n]
      BY <1>7, <1>16, <2>1, <2>4
    <3>5. nearer[p.node] < nearer[n] \/ (nearer[p.node] = nearer[n] /\ later[p.node] < later[n])
      <4>1. CASE p.node \in better
        <5>1. nearer[p.node] = least[p.node] /\ least[p.node] < work.distances[p.node] /\ least[p.node] \in Nat
          BY <1>5, <1>7, <3>3, <4>1 DEF S
        <5>2. work.distances[p.node] \in Nat /\ work.distances[n] \in Nat
          BY <1>13, <3>1, <3>3
        <5> QED  BY <3>3, <3>4, <5>1, <5>2
      <4>2. CASE p.node \notin better
        <5>1. p.node \in Node /\ nearer[p.node] = work.distances[p.node] /\ later[p.node] = since[p.node]
          BY <1>4, <1>7, <1>16, <3>3, <4>2
        <5> QED  BY <3>3, <3>4, <5>1
      <4> QED  BY <4>1, <4>2
    <3>6. <<p.node, n>> \in Nearer(nearer, later)
      BY <2>1, <2>2, <3>3, <3>5 DEF Nearer
    <3> QED  BY <3>1, <3>2, <3>6
  <2> QED  BY <2>3, <2>4
<1>19. OneParent(work', request.from, later)
  BY <1>12, <1>18 DEF OneParent
<1>20. /\ request.from \in DOMAIN work'.distances /\ DOMAIN work'.parent = DOMAIN work'.distances
       /\ work'.distances[request.from] = 0 /\ work'.parent[request.from] = {}
  <2>1. request.from \notin better
    BY <1>5
  <2> QED  BY <1>4, <1>7, <1>8, <1>12, <2>1
<1>21. ReadsItsTop(work')
  BY <1>12 DEF ReadsItsTop
<1>22. now + 1 \in Nat
  OBVIOUS
<1>23. CheapestOK(request, work')
  BY <1>12, <1>14, <1>16, <1>17, <1>19, <1>20, <1>21, <1>22 DEF CheapestOK
<1> QED  BY <1>2, <1>12, <1>23 DEF IInv, At

\* The chain of the only parents leads back from the end node.
Traces(parent, chain) ==
    /\ parent \in Parents /\ DOMAIN parent = DOMAIN work.distances
    /\ \A m \in DOMAIN parent \ {request.from} : parent[m] \in work.parent[m]
    /\ Leads(parent, request.from, request.to, chain)

Backwards(chain) == [nodes |-> Reverse(NodesOf(chain)), rels |-> Reverse(RelsOf(chain))]

TracedPath(chain) ==
    [at |-> "found", nodes |-> Cut(Backwards(chain)).nodes, rels |-> Cut(Backwards(chain)).rels,
     weight |-> work.distances[request.to]]

LEMMA TracingBack ==
    ASSUME IInv, TraceBack
    PROVE  \E parent, chain : Traces(parent, chain) /\ work' = TracedPath(chain)
<1> DEFINE parent == [n \in DOMAIN work.parent |->
                        IF work.parent[n] = {} THEN Root ELSE CHOOSE p \in work.parent[n] : TRUE]
           chain == Chain(parent, request.to)
<1>1. /\ work.at = "queue" /\ request.kind = "cheapest" /\ Arrives /\ UNCHANGED <<cost, filled, request>>
      /\ work' = TracedPath(chain)
  BY Zenon DEF TraceBack, At, TracedPath, Backwards
<1>2. CheapestOK(request, work) /\ work \in CheapestWork
  BY <1>1, CheapestParts
<1> DEFINE S == DOMAIN work.distances
<1>3. /\ S \in SUBSET Node /\ work.distances \in [S -> Nat] /\ work.parent \in [S -> SUBSET Parent]
      /\ request.from \in S /\ work.parent[request.from] = {}
  BY <1>2 DEF CheapestOK, CheapestWork
<1>4. request.to \in S
  <2>1. Top \in work.pq
    BY <1>1, <1>2, TopIsThere DEF Arrives
  <2> QED  BY <1>1, <1>2, <2>1 DEF Arrives, CheapestOK
<1>5. PICK since \in [Node -> Nat] : OneParent(work, request.from, since)
  BY <1>2 DEF CheapestOK
<1>6. parent \in [S -> Parent] /\ parent[request.from] = Root
  <2>1. Root \in Parent
    BY DEF Root, Parent
  <2> QED  BY <1>3, <2>1
<1>7. ASSUME NEW m \in S \ {request.from}
      PROVE  /\ parent[m].node \in S /\ <<parent[m].node, m>> \in Nearer(work.distances, since)
             /\ parent[m] \in work.parent[m]
  <2>1. PICK p \in Parent : work.parent[m] = {p} /\ <<p.node, m>> \in Nearer(work.distances, since)
    BY <1>3, <1>5 DEF OneParent
  <2>2. parent[m] = p
    BY <1>3, <2>1
  <2>3. p.node \in S
    BY <2>1 DEF Nearer
  <2> QED  BY <2>1, <2>2, <2>3
<1> HIDE DEF parent
<1>8. parent \in Parents
  BY <1>3, <1>6 DEF Parents
<1> HIDE DEF S
<1>9. Rooted(parent, request.from, Nearer(work.distances, since))
  BY <1>3, <1>6, <1>7, <1>8 DEF Rooted
<1>10. StrictOrder(Nearer(work.distances, since))
  BY <1>3, NearerIsStrict
<1>11. request.to \in DOMAIN parent
  BY <1>4, <1>6
<1>12. Leads(parent, request.from, request.to, chain)
  BY <1>9, <1>10, <1>11, ChainLeads
<1> HIDE DEF chain
<1>13. DOMAIN parent = S
  BY <1>6
<1>14. Traces(parent, chain)
  BY <1>7, <1>8, <1>12, <1>13 DEF Traces, S
<1> QED  BY <1>1, <1>14

\* The chain of the only parents, backwards, is a path.
LEMMA TraceBackKeepsIInv ==
    ASSUME IInv, TraceBack
    PROVE  IInv'
<1>1. PICK parent, chain : Traces(parent, chain) /\ work' = TracedPath(chain)
  BY TracingBack
<1>2. request.kind = "cheapest" /\ work.at = "queue" /\ UNCHANGED <<cost, filled, request>>
  BY DEF TraceBack, At
<1>3. parent \in Parents /\ Leads(parent, request.from, request.to, chain)
  BY <1>1 DEF Traces
<1>4. GoodPath(Cut(Backwards(chain)).nodes, Cut(Backwards(chain)).rels, request.from, request.to)
  <2> DEFINE nodes == Reverse(NodesOf(chain))
             rels == Reverse(RelsOf(chain))
  <2>1. GoodPath(nodes, rels, request.from, request.to)
    BY <1>3, BackwardsIsPath
  <2>2. \E S, T : nodes \in Seq(S) /\ rels \in Seq(T)
    BY <1>3, BackwardsAreSequences
  <2> HIDE DEF nodes, rels
  <2>3. GoodPath(Cut([nodes |-> nodes, rels |-> rels]).nodes, Cut([nodes |-> nodes, rels |-> rels]).rels,
                 request.from, request.to)
    BY <2>1, <2>2, CutKeepsPath
  <2> QED  BY <2>3 DEF nodes, rels, Backwards
<1>5. FoundOK(request, work')
  BY <1>1, <1>2, <1>4 DEF FoundOK, TracedPath
<1>6. work'.at = "found"
  BY <1>1 DEF TracedPath
<1> QED  BY <1>2, <1>5, <1>6 DEF IInv, At

-----------------------------------------------------------------------------
(* All actions *)

LEMMA AskKeepsIInv ==
    ASSUME IInv, NEW q \in Request, Ask(q)
    PROVE  IInv'
<1>1. request' = q /\ work' = Start(q) /\ cost' = cost
  BY DEF Ask
<1>2. CASE q.kind = "shortest"
  <2>1. CASE q.from = q.to
    <3>1. work' = Answered(OneNode(q.from))
      BY <1>1, <1>2, <2>1 DEF Start
    <3> QED  BY <1>1, <3>1, AnsweredIs DEF IInv, At
  <2>2. CASE q.from # q.to
    <3>1. work' = FromBothEnds(q)
      BY <1>1, <1>2, <2>2 DEF Start
    <3>2. ShortestOK(request', work') /\ work'.at = "level"
      <4>1. ShortestOK(q, FromBothEnds(q))
        BY <2>2, FromBothEndsOK
      <4>2. FromBothEnds(q).at = "level"
        BY DEF FromBothEnds
      <4> QED  BY <1>1, <3>1, <4>1, <4>2
    <3> QED  BY <1>1, <1>2, <3>2 DEF IInv, At
  <2> QED  BY <2>1, <2>2
<1>3. CASE q.kind = "cheapest"
  <2>1. CASE q.from = q.to
    <3>1. work' = Answered(OneNode(q.from))
      BY <1>1, <1>3, <2>1 DEF Start
    <3> QED  BY <1>1, <3>1, AnsweredIs DEF IInv, At
  <2>2. CASE q.from # q.to
    <3>1. work' = FromStart(q)
      BY <1>1, <1>3, <2>2 DEF Start
    <3>2. CheapestOK(request', work') /\ work'.at = "queue"
      <4>1. CheapestOK(q, FromStart(q))
        BY FromStartOK
      <4>2. FromStart(q).at = "queue"
        BY DEF FromStart
      <4> QED  BY <1>1, <3>1, <4>1, <4>2
    <3> QED  BY <1>1, <1>3, <3>2 DEF IInv, At
  <2> QED  BY <2>1, <2>2
<1>4. CASE q.kind \notin {"shortest", "cheapest"}
  BY <1>1, <1>4 DEF IInv, At
<1> QED  BY <1>2, <1>3, <1>4

\* Every action keeps the invariant.
LEMMA NextKeepsIInv == IInv /\ [Next]_vars => IInv'
<1> SUFFICES ASSUME IInv, [Next]_vars PROVE IInv'
  OBVIOUS
<1>1. ASSUME NEW q \in Request, Ask(q) PROVE IInv'
  BY <1>1, AskKeepsIInv
<1>2. ASSUME NEW r \in Changing, NEW c \in Cost \cup {Gone, Unset}, Change(r, c) PROVE IInv'
  <2>1. cost' = [cost EXCEPT ![r] = c] /\ UNCHANGED <<request, work>>
    BY <1>2 DEF Change
  <2>2. cost' \in [Rel -> Cost \cup {Gone, Unset}]
    BY <2>1 DEF IInv
  <2> QED  BY <2>1, <2>2 DEF IInv, At
<1>3. ASSUME NEW n \in Node, NodeGetLinksPeered(n) PROVE IInv'
  BY <1>3, NodeGetLinksPeeredKeepsIInv
<1>4. CASE ExpandLevel
  BY <1>4, ExpandLevelStep
<1>5. CASE NextLevel
  BY <1>5, NextLevelStep
<1>6. CASE Meet
  BY <1>6, MeetKeepsIInv
<1>7. CASE Pop
  <2>1. CASE request.kind = "cheapest"
    BY <1>7, <2>1, PopStep
  <2>2. CASE request.kind # "cheapest"
    <3>1. request.kind = "allCheapest" /\ work.at # "idle" /\ UNCHANGED <<cost, filled, request>>
      BY <1>7, <2>2 DEF Pop, At, Weighted
    <3> QED  BY <3>1, OtherKindKeepsIInv
  <2> QED  BY <2>1, <2>2
<1>8. CASE Relax
  <2>1. CASE request.kind = "cheapest"
    BY <1>8, <2>1, RelaxKeepsIInv
  <2>2. CASE request.kind # "cheapest"
    <3>1. request.kind = "allCheapest" /\ work.at # "idle" /\ UNCHANGED <<cost, filled, request>>
      BY <1>8, <2>2 DEF Relax, HasRead, At, Weighted
    <3> QED  BY <3>1, OtherKindKeepsIInv
  <2> QED  BY <2>1, <2>2
<1>9. CASE TraceBack
  BY <1>9, TraceBackKeepsIInv
<1>10. CASE NotFound \/ Unreachable \/ HopsDone \/ EdgesOfIds \/ EdgesOfNodes \/ NoMore \/ Collect \/ CollectEach \/ CollectAll
  <2>1. work.at # "idle" /\ UNCHANGED <<cost, filled, request>>
    BY <1>10 DEF NotFound, Unreachable, HopsDone, EdgesOfIds, EdgesOfNodes, NoMore, Collect, CollectEach, CollectAll, At
  <2>2. \E a : work' = Answered(a)
    BY <1>10 DEF NotFound, Unreachable, HopsDone, EdgesOfIds, EdgesOfNodes, NoMore, Collect, CollectEach, CollectAll
  <2> QED  BY <2>1, <2>2, AnsweredIs, FinishedKeepsIInv
<1>11. CASE \/ ExpandTrails \/ TrailsLevel \/ Resize \/ FirstPath \/ Spur \/ NextBest \/ ExpandHop \/ NextHop
            \/ Backtrack \/ AllRelationshipIds \/ AllEdgeNodes \/ SourceOfEdge \/ TargetOfEdge
  <2>1. CASE ExpandTrails \/ TrailsLevel \/ Resize
    <3>1. request.kind = "paths" /\ work.at # "idle" /\ UNCHANGED <<cost, filled, request>>
      BY <2>1 DEF ExpandTrails, TrailsLevel, Resize, HasRead, At
    <3> QED  BY <3>1, OtherKindKeepsIInv
  <2>2. CASE FirstPath \/ Spur \/ NextBest
    <3>1. request.kind = "kCheapest" /\ work.at # "idle" /\ UNCHANGED <<cost, filled, request>>
      BY <2>2, Zenon DEF FirstPath, Spur, NextBest, At
    <3> QED  BY <3>1, OtherKindKeepsIInv
  <2>3. CASE ExpandHop \/ NextHop
    <3>1. request.kind = "khop" /\ work.at # "idle" /\ UNCHANGED <<cost, filled, request>>
      BY <2>3 DEF ExpandHop, NextHop, HasRead, At
    <3> QED  BY <3>1, OtherKindKeepsIInv
  <2>4. CASE Backtrack \/ AllRelationshipIds \/ AllEdgeNodes \/ SourceOfEdge \/ TargetOfEdge
    <3>1. /\ request.kind \in {"allCheapest", "analysis"} /\ work.at # "idle"
          /\ UNCHANGED <<cost, filled, request>>
      BY <2>4 DEF Backtrack, AllRelationshipIds, AllEdgeNodes, SourceOfEdge, TargetOfEdge, At
    <3> QED  BY <3>1, OtherKindKeepsIInv
  <2> QED  BY <1>11, <2>1, <2>2, <2>3, <2>4
<1>12. CASE Reply
  BY <1>12 DEF Reply, Idle, IInv, At
<1>13. CASE UNCHANGED vars
  BY <1>13 DEF vars, IInv, At
<1> QED
  BY <1>1, <1>2, <1>3, <1>4, <1>5, <1>6, <1>7, <1>8, <1>9, <1>10, <1>11, <1>12, <1>13 DEF Next, Step

LEMMA InitIInv == Init => IInv
BY DEF Init, Idle, IInv, At

\* IInv holds in every state of every search, whatever changes meanwhile.
LEMMA Invariance == Spec => []IInv
BY InitIInv, NextKeepsIInv, PTL DEF Spec

\* TracesBack, of ShortestPathPeered and ShortestWeightedPathPeered: however the graph changes
\* while a search waits for links and costs, the parents it has noted lead from the end back to
\* the start over nodes that do not repeat, although relationships may cost nothing, and over no
\* more hops than were allowed.
THEOREM TracesBackHolds == Spec => []TracesBack
<1>1. IInv => TracesBack
  <2> SUFFICES ASSUME IInv, At({"shortest", "cheapest"}, "found")
               PROVE  FoundOK(request, work)
    BY DEF TracesBack, FoundOK, GoodPath
  <2> QED  BY DEF IInv
<1> QED  BY <1>1, Invariance, PTL

-----------------------------------------------------------------------------
(* What is exact while nothing changes *)

\* NodeGetLinks, of the relationships that are there according to c.
LinksIn(c, n, dir) ==
    LET there == {r \in Rel : c[r] # Gone}
    IN  {[node |-> Ends[r][2], rel |-> r] : r \in {r \in there : dir # "IN" /\ Ends[r][1] = n}}
            \cup
        {[node |-> Ends[r][1], rel |-> r] : r \in {r \in there : dir # "OUT" /\ Ends[r][2] = n}}

\* Within, of c.
BallIn(c, n, dir) ==
    LET within[i \in Nat] ==
            IF i = 0 THEN {n}
            ELSE LET near == within[i - 1]
                 IN  near \cup UNION {{l.node : l \in LinksIn(c, m, dir)} : m \in near}
    IN  within

\* TrailsFrom, of c.
TrailsIn(c, q) ==
    LET onward(p) == {[nodes |-> Append(p.nodes, l.node), rels |-> Append(p.rels, l.rel)] :
                      l \in {l \in LinksIn(c, Last(p.nodes), q.dir) : \A i \in 1 .. Len(p.rels) : p.rels[i] # l.rel}}
        trails[i \in Nat] ==
            IF i = 0 THEN {[nodes |-> <<q.from>>, rels |-> <<>>]}
            ELSE UNION {onward(p) : p \in trails[i - 1]}
    IN  trails

\* PriceFrom and Weight, of c and how far its columns reach.
PriceIn(c, col, q, n, r) ==
    LET rels == {l.rel : l \in LinksIn(c, n, q.dir)}
        legible == \A o \in rels : Home(o) = Home(r) => c[o] # Gone /\ o <= col[Home(o)]
    IN  IF c[r] \in Cost /\ (q.by = "property" => legible) THEN c[r] ELSE 1

WeightIn(c, col, q, p) ==
    LET sum[i \in 0 .. Len(p.rels)] == IF i = 0 THEN 0 ELSE sum[i - 1] + PriceIn(c, col, q, p.nodes[i], p.rels[i])
    IN  sum[Len(p.rels)]

\* SimplePaths, of c.
SimpleIn(c, q) ==
    LET trails == TrailsIn(c, q)
    IN  {p \in UNION {trails[i] : i \in 0 .. Cardinality(Node) - 1} :
            /\ Last(p.nodes) = q.to
            /\ \A i, j \in 1 .. Len(p.nodes) : i # j => p.nodes[i] # p.nodes[j]}

\* The direction in which a side follows links.
DirOf(q, s) == IF s = "forward" THEN q.dir ELSE Opposite(q.dir)

\* A link that leads from n over r to m.
Joins(c, dir, n, m, r) == [node |-> m, rel |-> r] \in LinksIn(c, n, dir)

\* Every parent noted is linked to its node.
Linked(c, dir, parent, start) ==
    \A n \in DOMAIN parent \ {start} : Joins(c, dir, parent[n].node, n, parent[n].rel)

\* What a side has seen are the nodes within its hops; whatever is not on its level leads to what it
\* has seen.
SeenExactly(c, q, w, s) ==
    LET dir == DirOf(q, s)
        seen == DOMAIN w.parent[s]
    IN  /\ seen = BallIn(c, StartOf(q, s), dir)[DepthReached(w, s)]
        /\ \A n \in seen \ w.level[s] : \A l \in LinksIn(c, n, dir) : l.node \in seen
        /\ Linked(c, dir, w.parent[s], StartOf(q, s))

\* All links of the level are read, as they are.
ReadExactly(c, q, w) ==
    w.at = "reading" =>
        /\ w.level[w.side] \subseteq w.pending \cup DOMAIN w.read
        /\ \A n \in DOMAIN w.read : w.read[n] = LinksIn(c, n, DirOf(q, w.side))

\* The search from both ends has lost nothing.
ShortestExactly(c, q, w) ==
    /\ \A s \in Side : SeenExactly(c, q, w, s)
    /\ ReadExactly(c, q, w)

\* The nodes done lead to nodes at the distances noted, the others wait in the queue.
Closed(c, col, q, w, done) ==
    /\ done \subseteq DOMAIN w.distances
    /\ q.to \notin done
    /\ \A n \in done : \A l \in LinksIn(c, n, q.dir) :
          l.node \in DOMAIN w.distances /\ w.distances[l.node] <= w.distances[n] + PriceIn(c, col, q, n, l.rel)
    /\ \A n \in DOMAIN w.distances \ done :
          <<w.distances[n], n>> \in w.pq \/ (w.at = "reading" /\ n = w.top[2])
    /\ \A n \in done, e \in w.pq : w.distances[n] <= e[1]
    /\ \A n \in DOMAIN w.distances \ {q.from} : \A p \in w.parent[n] :
          /\ p.node \in done /\ Joins(c, q.dir, p.node, n, p.rel)
          /\ w.distances[n] = w.distances[p.node] + PriceIn(c, col, q, p.node, p.rel)

\* No node done is farther than the top, and no entry nearer.
TopExactly(c, q, w, done) ==
    w.at = "reading" =>
        /\ w.top[2] # q.to
        /\ \A n \in done : w.distances[n] <= w.top[1]
        /\ \A e \in w.pq : w.top[1] <= e[1]
        /\ w.top[2] \in w.pending \cup DOMAIN w.read
        /\ \A n \in DOMAIN w.read : w.read[n] = LinksIn(c, n, q.dir)

\* Dijkstra's has lost nothing.
CheapestExactly(c, col, q, w) ==
    \E done \in SUBSET DOMAIN w.distances : Closed(c, col, q, w, done) /\ TopExactly(c, q, w, done)

\* IsPath, ShortestExact and CheapestExact, of c.
IsPathIn(c, nodes, rels, q) ==
    /\ Len(nodes) = Len(rels) + 1
    /\ nodes[1] = q.from /\ Last(nodes) = q.to
    /\ \A i \in 1 .. Len(rels) : Joins(c, q.dir, nodes[i], nodes[i + 1], rels[i])

ShortestAnswer(c, q, p) ==
    LET hops(k) == q.to \in BallIn(c, q.from, q.dir)[k]
    IN  IF hops(q.max)
        THEN IsPathIn(c, p.nodes, p.rels, q) /\ (Len(p.rels) = 0 \/ ~hops(Len(p.rels) - 1))
        ELSE p = NoPath

CheapestIn(c, col, q) ==
    {p \in SimpleIn(c, q) : \A o \in SimpleIn(c, q) : WeightIn(c, col, q, p) <= WeightIn(c, col, q, o)}

CheapestAnswer(c, col, q, p) ==
    IF SimpleIn(c, q) = {}
    THEN p = NoPath
    ELSE \E o \in CheapestIn(c, col, q) : Unweighted(p) = Cut(o) /\ p.weight = WeightIn(c, col, q, o)

\* What is found, before the relationships are collected.
FoundExactly(c, col, q, w) ==
    LET p == [nodes |-> w.nodes, rels |-> w.rels, weight |-> w.weight]
    IN  /\ w.rels \in Seq({r \in Rel : c[r] # Gone})
        /\ q.kind = "shortest" => ShortestAnswer(c, q, p)
        /\ q.kind = "cheapest" => CheapestAnswer(c, col, q, p)

\* What is exact while nothing changes.
Exact ==
    /\ At({"shortest"}, "level") \/ At({"shortest"}, "reading") => ShortestExactly(cost, request, work)
    /\ At({"cheapest"}, "queue") \/ At({"cheapest"}, "reading") => CheapestExactly(cost, filled, request, work)
    /\ At({"shortest", "cheapest"}, "found") => FoundExactly(cost, filled, request, work)
    /\ At({"shortest"}, "answered") => ShortestAnswer(cost, request, work.answer)
    /\ At({"cheapest"}, "answered") => CheapestAnswer(cost, filled, request, work.answer)

EInv ==
    /\ IInv
    /\ changes \in Nat
    /\ changes = 0 => Exact

-----------------------------------------------------------------------------
(* Functions on the numbers *)

\* What holds of 0, and of i + 1 when it holds of i, holds of every number.
LEMMA EveryNumber ==
    ASSUME NEW S, 0 \in S, \A i \in Nat : i \in S => i + 1 \in S
    PROVE  \A i \in Nat : i \in S
<1> SUFFICES ASSUME NEW i \in Nat, i \notin S PROVE FALSE
  OBVIOUS
<1> DEFINE Bad == {j \in Nat : j \notin S}
<1>1. Bad \subseteq Nat /\ Bad # {}
  OBVIOUS
<1>2. PICK m \in Bad : \A y \in Bad : m <= y
  <2> HIDE DEF Bad
  <2> QED  BY <1>1, NatMin
<1>3. m # 0 /\ m \in Nat /\ m \notin S
  OBVIOUS
<1>4. m - 1 \in Nat /\ ~(m <= m - 1) /\ m - 1 + 1 = m
  BY <1>3
<1>5. m - 1 \in S
  BY <1>2, <1>4
<1> QED  BY <1>3, <1>4, <1>5

\* G followed forever from a.
Forever(T, a, G) == \E f \in [Nat -> T] : f[0] = a /\ \A i \in Nat : f[i + 1] = G[f[i]]

\* A map of a set to itself can be followed forever.
LEMMA FollowedForever ==
    ASSUME NEW T, NEW a \in T, NEW G \in [T -> T]
    PROVE  Forever(T, a, G)
<1> DEFINE Upto(c, k) == c \in [1 .. k + 1 -> T] /\ c[1] = a /\ \A i \in 1 .. k : c[i + 1] = G[c[i]]
           way(k) == CHOOSE c : Upto(c, k)
           f == [k \in Nat |-> way(k)[k + 1]]
<1>1. ASSUME NEW k \in Nat PROVE \E c : Upto(c, k)
  <2>1. Follows(T, a, G, k + 1)
    BY Followed
  <2>2. PICK c \in [1 .. k + 1 -> T] : c = [i \in 1 .. k + 1 |-> IF i = 1 THEN a ELSE G[c[i - 1]]]
    BY <2>1 DEF Follows
  <2>3. \A i \in 1 .. k : i + 1 \in 1 .. k + 1 /\ i + 1 # 1 /\ i + 1 - 1 = i
    OBVIOUS
  <2>4. 1 \in 1 .. k + 1
    OBVIOUS
  <2>5. \A i \in 1 .. k : c[i + 1] = G[c[i]]
    BY <2>2, <2>3
  <2>6. c[1] = a
    BY <2>2, <2>4
  <2> QED  BY <2>5, <2>6
<1>2. ASSUME NEW k \in Nat PROVE Upto(way(k), k)
  <2> HIDE DEF Upto
  <2> QED  BY <1>1
<1> HIDE DEF way
<1>3. ASSUME NEW c, NEW d, NEW k \in Nat, Upto(c, k), Upto(d, k + 1)
      PROVE  c[k + 1] = d[k + 1]
  <2> DEFINE Same == {j \in Nat : j <= k => c[j + 1] = d[j + 1]}
  <2>1. 0 \in Same
    BY <1>3
  <2>2. ASSUME NEW j \in Nat, j \in Same PROVE j + 1 \in Same
    <3> SUFFICES ASSUME j + 1 <= k PROVE c[j + 1 + 1] = d[j + 1 + 1]
      OBVIOUS
    <3>1. j <= k /\ j + 1 \in 1 .. k /\ j + 1 \in 1 .. k + 1
      OBVIOUS
    <3>2. c[j + 1] = d[j + 1]
      BY <2>2, <3>1
    <3>3. c[j + 1 + 1] = G[c[j + 1]] /\ d[j + 1 + 1] = G[d[j + 1]]
      BY <1>3, <3>1
    <3> QED  BY <3>2, <3>3
  <2> HIDE DEF Same
  <2>3. k \in Same
    BY <2>1, <2>2, EveryNumber
  <2> QED  BY <2>3 DEF Same
<1>4. ASSUME NEW k \in Nat PROVE f[k] \in T
  BY <1>2
<1>5. f[0] = a
  BY <1>2
<1>6. ASSUME NEW k \in Nat PROVE f[k + 1] = G[f[k]]
  <2>1. Upto(way(k), k) /\ Upto(way(k + 1), k + 1)
    <3>1. k + 1 \in Nat
      OBVIOUS
    <3> HIDE DEF Upto
    <3> QED  BY <1>2, <3>1
  <2>2. way(k)[k + 1] = way(k + 1)[k + 1]
    <3> HIDE DEF Upto
    <3> QED  BY <1>3, <2>1
  <2>3. way(k + 1)[k + 1 + 1] = G[way(k + 1)[k + 1]]
    <3>1. k + 1 \in 1 .. k + 1
      OBVIOUS
    <3> QED  BY <2>1, <3>1
  <2>4. f[k] = way(k)[k + 1] /\ f[k + 1] = way(k + 1)[k + 1 + 1]
    OBVIOUS
  <2> QED  BY <2>2, <2>3, <2>4
<1>7. f \in [Nat -> T]
  BY <1>4
<1> HIDE DEF f
<1> QED  BY <1>5, <1>6, <1>7 DEF Forever

-----------------------------------------------------------------------------
(* Links and balls *)

LEMMA TheLinks == \A n, dir : NodeGetLinks(n, dir) = LinksIn(cost, n, dir)
BY DEF NodeGetLinks, LinksIn

\* Links are of relationships that are there.
LEMMA LinksInAre ==
    ASSUME NEW c, NEW n, NEW dir
    PROVE  /\ LinksIn(c, n, dir) \in SUBSET Link
           /\ \A l \in LinksIn(c, n, dir) : c[l.rel] # Gone /\ l = [node |-> l.node, rel |-> l.rel]
<1>1. \A r \in Rel : Ends[r][1] \in Node /\ Ends[r][2] \in Node
  BY SearchesAssumption
<1> QED  BY <1>1 DEF LinksIn, Link

\* A relationship joins its ends, in its direction or against it.
LEMMA JoinsIs ==
    ASSUME NEW c, NEW dir, NEW n \in Node, NEW m \in Node, NEW r
    PROVE  Joins(c, dir, n, m, r) <=>
              /\ r \in Rel /\ c[r] # Gone
              /\ \/ dir # "IN" /\ Ends[r] = <<n, m>>
                 \/ dir # "OUT" /\ Ends[r] = <<m, n>>
<1>1. \A x \in Rel : Ends[x] = <<Ends[x][1], Ends[x][2]>>
  BY SearchesAssumption
<1>2. Joins(c, dir, n, m, r) <=>
        \/ r \in Rel /\ c[r] # Gone /\ dir # "IN" /\ Ends[r][1] = n /\ Ends[r][2] = m
        \/ r \in Rel /\ c[r] # Gone /\ dir # "OUT" /\ Ends[r][2] = n /\ Ends[r][1] = m
  BY DEF Joins, LinksIn
<1> QED  BY <1>1, <1>2

\* A link leads back the opposite way.
LEMMA JoinsBack ==
    ASSUME NEW c, NEW dir, NEW n \in Node, NEW m \in Node, NEW r
    PROVE  Joins(c, dir, n, m, r) <=> Joins(c, Opposite(dir), m, n, r)
<1>1. /\ Opposite(dir) # "IN" <=> dir # "OUT"
      /\ Opposite(dir) # "OUT" <=> dir # "IN"
  BY DEF Opposite
<1>2. Joins(c, dir, n, m, r) <=>
        /\ r \in Rel /\ c[r] # Gone
        /\ (dir # "IN" /\ Ends[r] = <<n, m>>) \/ (dir # "OUT" /\ Ends[r] = <<m, n>>)
  BY JoinsIs
<1>3. \A d : Joins(c, d, m, n, r) <=>
        /\ r \in Rel /\ c[r] # Gone
        /\ (d # "IN" /\ Ends[r] = <<m, n>>) \/ (d # "OUT" /\ Ends[r] = <<n, m>>)
  BY JoinsIs
<1> DEFINE back == Opposite(dir)
<1> HIDE DEF back
<1>4. Joins(c, back, m, n, r) <=>
        /\ r \in Rel /\ c[r] # Gone
        /\ (back # "IN" /\ Ends[r] = <<m, n>>) \/ (back # "OUT" /\ Ends[r] = <<n, m>>)
  BY <1>3
<1> QED  BY <1>1, <1>2, <1>4 DEF back

\* What the balls around n are: each is the one before it and what it leads to.
Balls(c, n, dir, ball) ==
    /\ ball \in [Nat -> SUBSET Node]
    /\ ball[0] = {n}
    /\ \A i \in Nat, m \in Node :
          m \in ball[i + 1] <=> m \in ball[i] \/ \E k \in ball[i], r \in Rel : Joins(c, dir, k, m, r)

\* BallIn is recursive: that there are such balls is followed from the start.
LEMMA BallsAre ==
    ASSUME NEW c, NEW n \in Node, NEW dir
    PROVE  Balls(c, n, dir, BallIn(c, n, dir))
<1> DEFINE beyond(near) == near \cup UNION {{l.node : l \in LinksIn(c, m, dir)} : m \in near}
           G == [near \in SUBSET Node |-> beyond(near)]
           ball == BallIn(c, n, dir)
<1>1. \A m : \A l \in LinksIn(c, m, dir) : l.node \in Node /\ l.rel \in Rel /\ l = [node |-> l.node, rel |-> l.rel]
  <2>1. \A m : LinksIn(c, m, dir) \in SUBSET Link
    BY LinksInAre
  <2> QED  BY <2>1 DEF Link
<1>2. ASSUME NEW near \in SUBSET Node PROVE beyond(near) \in SUBSET Node
  BY <1>1
<1>3. G \in [SUBSET Node -> SUBSET Node] /\ {n} \in SUBSET Node
  BY <1>2
<1>4. PICK f \in [Nat -> SUBSET Node] : f[0] = {n} /\ \A i \in Nat : f[i + 1] = G[f[i]]
  <2> DEFINE T == SUBSET Node
             a == {n}
  <2>1. a \in T /\ G \in [T -> T]
    BY <1>3
  <2> HIDE DEF G, T, a
  <2>2. Forever(T, a, G)
    BY <2>1, FollowedForever
  <2>3. \E f \in [Nat -> T] : f[0] = a /\ \A i \in Nat : f[i + 1] = G[f[i]]
    BY <2>2, Zenon DEF Forever
  <2> QED  BY <2>3, Zenon DEF T, a
<1>5. \A i \in Nat : f[i + 1] = beyond(f[i])
  <2> HIDE DEF beyond
  <2> QED  BY <1>4
<1>6. f = [i \in Nat |-> IF i = 0 THEN {n} ELSE beyond(f[i - 1])]
  <2>1. ASSUME NEW i \in Nat PROVE f[i] = IF i = 0 THEN {n} ELSE beyond(f[i - 1])
    <3>1. CASE i = 0
      BY <1>4, <3>1
    <3>2. CASE i # 0
      <4>1. i - 1 \in Nat /\ i - 1 + 1 = i
        BY <3>2
      <4> HIDE DEF beyond
      <4>2. f[i - 1 + 1] = beyond(f[i - 1])
        BY <1>5, <4>1
      <4> QED  BY <3>2, <4>1, <4>2
    <3> QED  BY <3>1, <3>2
  <2> HIDE DEF beyond
  <2>2. f = [i \in Nat |-> f[i]]
    OBVIOUS
  <2> QED  BY <2>1, <2>2
<1>7. ball = CHOOSE g : g = [i \in Nat |-> IF i = 0 THEN {n} ELSE beyond(g[i - 1])]
  BY DEF BallIn
<1> HIDE DEF ball
<1>8. ball = [i \in Nat |-> IF i = 0 THEN {n} ELSE beyond(ball[i - 1])]
  <2> HIDE DEF beyond
  <2> QED  BY <1>6, <1>7, Zenon
<1>9. ball[0] = {n}
  BY <1>8
<1>10. ASSUME NEW i \in Nat PROVE ball[i + 1] = beyond(ball[i])
  <2>1. i + 1 \in Nat /\ i + 1 # 0 /\ i + 1 - 1 = i
    OBVIOUS
  <2> HIDE DEF beyond
  <2>2. ball[i + 1] = beyond(ball[i + 1 - 1])
    BY <1>8, <2>1
  <2> QED  BY <2>1, <2>2
<1> DEFINE Inside == {i \in Nat : ball[i] \in SUBSET Node}
<1>11. \A i \in Nat : ball[i] \in SUBSET Node
  <2>1. 0 \in Inside
    BY <1>9
  <2>2. ASSUME NEW i \in Nat, i \in Inside PROVE i + 1 \in Inside
    <3>1. beyond(ball[i]) \in SUBSET Node
      BY <1>2, <2>2
    <3> HIDE DEF beyond
    <3> QED  BY <1>10, <3>1
  <2> HIDE DEF Inside
  <2>3. \A i \in Nat : i \in Inside
    BY <2>1, <2>2, EveryNumber
  <2> QED  BY <2>3 DEF Inside
<1>12. ball \in [Nat -> SUBSET Node]
  <2>1. ball = [i \in Nat |-> ball[i]]
    <3> HIDE DEF beyond
    <3> QED  BY <1>8
  <2> QED  BY <1>11, <2>1
<1>13. ASSUME NEW i \in Nat, NEW m \in Node
       PROVE  m \in ball[i + 1] <=> m \in ball[i] \/ \E k \in ball[i], r \in Rel : Joins(c, dir, k, m, r)
  <2>1. m \in ball[i + 1] <=> m \in ball[i] \/ \E k \in ball[i] : \E l \in LinksIn(c, k, dir) : m = l.node
    BY <1>10
  <2>2. ASSUME NEW k PROVE (\E l \in LinksIn(c, k, dir) : m = l.node) <=> \E r \in Rel : Joins(c, dir, k, m, r)
    <3>1. ASSUME NEW l \in LinksIn(c, k, dir), m = l.node PROVE \E r \in Rel : Joins(c, dir, k, m, r)
      <4>1. l.rel \in Rel /\ [node |-> m, rel |-> l.rel] = l
        BY <1>1, <3>1
      <4>2. Joins(c, dir, k, m, l.rel)
        BY <4>1 DEF Joins
      <4> QED  BY <4>1, <4>2
    <3>2. ASSUME NEW r \in Rel, Joins(c, dir, k, m, r) PROVE \E l \in LinksIn(c, k, dir) : m = l.node
      <4>1. [node |-> m, rel |-> r] \in LinksIn(c, k, dir) /\ [node |-> m, rel |-> r].node = m
        BY <3>2 DEF Joins
      <4> QED  BY <4>1
    <3> QED  BY <3>1, <3>2
  <2> QED  BY <2>1, <2>2
<1> QED  BY <1>9, <1>12, <1>13 DEF Balls, ball

\* Balls grow.
LEMMA BallsGrow ==
    ASSUME NEW c, NEW n \in Node, NEW dir, NEW i \in Nat, NEW j \in Nat, i <= j
    PROVE  BallIn(c, n, dir)[i] \subseteq BallIn(c, n, dir)[j]
<1> DEFINE ball == BallIn(c, n, dir)
           Grows == {k \in Nat : ball[i] \subseteq ball[i + k]}
<1>1. Balls(c, n, dir, ball)
  BY BallsAre
<1> HIDE DEF ball
<1>2. 0 \in Grows
  BY <1>1
<1>3. ASSUME NEW k \in Nat, k \in Grows PROVE k + 1 \in Grows
  <2>1. i + k \in Nat /\ i + (k + 1) = i + k + 1 /\ i + k + 1 \in Nat
    OBVIOUS
  <2>2. ball[i + k] \in SUBSET Node
    BY <1>1, <2>1 DEF Balls
  <2>3. ball[i + k] \subseteq ball[i + k + 1]
    BY <1>1, <2>1, <2>2 DEF Balls
  <2> QED  BY <1>3, <2>1, <2>3
<1> HIDE DEF Grows
<1>4. \A k \in Nat : k \in Grows
  BY <1>2, <1>3, EveryNumber
<1>5. j - i \in Nat /\ i + (j - i) = j
  OBVIOUS
<1>6. j - i \in Grows
  BY <1>4, <1>5
<1> QED  BY <1>5, <1>6 DEF Grows, ball

\* What is near a node one hop away is one hop further from here.
LEMMA OneHopFurther ==
    ASSUME NEW c, NEW dir, NEW m \in Node, NEW k \in Node, NEW r \in Rel, Joins(c, dir, m, k, r), NEW b \in Nat
    PROVE  BallIn(c, k, dir)[b] \subseteq BallIn(c, m, dir)[b + 1]
<1> DEFINE near == BallIn(c, k, dir)
           far == BallIn(c, m, dir)
           Holds == {i \in Nat : near[i] \subseteq far[i + 1]}
<1>1. Balls(c, k, dir, near) /\ Balls(c, m, dir, far)
  BY BallsAre
<1> HIDE DEF near, far
<1>2. 0 \in Holds
  <2>1. near[0] = {k} /\ far[0] = {m}
    BY <1>1 DEF Balls
  <2>2. 0 \in Nat /\ m \in far[0]
    BY <2>1
  <2>3. k \in far[0 + 1]
    BY <1>1, <2>2 DEF Balls
  <2> QED  BY <2>1, <2>3
<1>3. ASSUME NEW i \in Nat, i \in Holds PROVE i + 1 \in Holds
  <2>1. i + 1 \in Nat /\ i + 1 + 1 \in Nat
    OBVIOUS
  <2>2. near[i] \subseteq far[i + 1]
    BY <1>3
  <2>3. near[i + 1] \in SUBSET Node
    BY <1>1, <2>1 DEF Balls
  <2>4. ASSUME NEW x \in near[i + 1] PROVE x \in far[i + 1 + 1]
    <3>1. x \in Node
      BY <2>3
    <3>2. x \in near[i] \/ \E y \in near[i], o \in Rel : Joins(c, dir, y, x, o)
      BY <1>1, <3>1 DEF Balls
    <3>3. x \in far[i + 1] \/ \E y \in far[i + 1], o \in Rel : Joins(c, dir, y, x, o)
      BY <2>2, <3>2
    <3> QED  BY <1>1, <2>1, <3>1, <3>3 DEF Balls
  <2> QED  BY <2>1, <2>4
<1> HIDE DEF Holds
<1>4. \A i \in Nat : i \in Holds
  BY <1>2, <1>3, EveryNumber
<1> QED  BY <1>4 DEF Holds, near, far

\* A way of a + b hops passes a node a hops from its start, and b hops back from its end.
LEMMA HalfWay ==
    ASSUME NEW c, NEW dir, NEW n \in Node, NEW m \in Node, NEW a \in Nat, NEW b \in Nat,
           m \in BallIn(c, n, dir)[a + b]
    PROVE  \E k \in Node : k \in BallIn(c, n, dir)[a] /\ k \in BallIn(c, m, Opposite(dir))[b]
<1> DEFINE ball == BallIn(c, n, dir)
           back(x) == BallIn(c, x, Opposite(dir))
           Halves == {i \in Nat : \A x \in Node : x \in ball[a + i] => \E k \in Node : k \in ball[a] /\ k \in back(x)[i]}
<1>1. Balls(c, n, dir, ball)
  BY BallsAre
<1>2. \A x \in Node : Balls(c, x, Opposite(dir), back(x))
  BY BallsAre
<1>3. ASSUME NEW x \in Node, NEW y \in Node, NEW r \in Rel, Joins(c, dir, y, x, r), NEW i \in Nat
      PROVE  back(y)[i] \subseteq back(x)[i + 1]
  <2>1. Joins(c, Opposite(dir), x, y, r)
    BY <1>3, JoinsBack
  <2> QED  BY <2>1, OneHopFurther
<1>4. ASSUME NEW x \in Node, NEW i \in Nat
      PROVE  back(x)[i] \subseteq back(x)[i + 1]
  <2>1. i + 1 \in Nat /\ i <= i + 1
    OBVIOUS
  <2> QED  BY <2>1, BallsGrow
<1> HIDE DEF ball, back
<1>5. 0 \in Halves
  <2>1. a + 0 = a
    OBVIOUS
  <2>2. \A x \in Node : x \in back(x)[0]
    BY <1>2 DEF Balls
  <2> QED  BY <2>1, <2>2
<1>6. ASSUME NEW i \in Nat, i \in Halves PROVE i + 1 \in Halves
  <2>1. i + 1 \in Nat /\ a + i \in Nat /\ a + (i + 1) = a + i + 1
    OBVIOUS
  <2>2. \A x \in Node : x \in ball[a + i] => \E k \in Node : k \in ball[a] /\ k \in back(x)[i]
    BY <1>6
  <2> SUFFICES ASSUME NEW x \in Node, x \in ball[a + (i + 1)]
               PROVE  \E k \in Node : k \in ball[a] /\ k \in back(x)[i + 1]
    BY <2>1
  <2>3. x \in ball[a + i] \/ \E y \in ball[a + i], r \in Rel : Joins(c, dir, y, x, r)
    <3>1. x \in ball[a + i + 1]
      BY <2>1
    <3> QED  BY <1>1, <2>1, <3>1 DEF Balls
  <2>4. CASE x \in ball[a + i]
    BY <1>4, <2>2, <2>4
  <2>5. CASE \E y \in ball[a + i], r \in Rel : Joins(c, dir, y, x, r)
    <3>1. PICK y \in ball[a + i], r \in Rel : Joins(c, dir, y, x, r)
      BY <2>5
    <3>2. y \in Node
      BY <1>1, <2>1 DEF Balls
    <3>3. PICK k \in Node : k \in ball[a] /\ k \in back(y)[i]
      BY <2>2, <3>2
    <3>4. k \in back(x)[i + 1]
      BY <1>3, <3>1, <3>2, <3>3
    <3> QED  BY <3>3, <3>4
  <2> QED  BY <2>3, <2>4, <2>5
<1> HIDE DEF Halves
<1>7. \A i \in Nat : i \in Halves
  BY <1>5, <1>6, EveryNumber
<1>8. b \in Halves /\ m \in ball[a + b]
  BY <1>7 DEF ball
<1> QED  BY <1>8 DEF Halves, ball, back

\* A set that holds a ball and all it leads to holds every ball.
LEMMA ClosedHoldsBalls ==
    ASSUME NEW c, NEW dir, NEW n \in Node, NEW seen \in SUBSET Node, n \in seen,
           \A k \in seen : \A l \in LinksIn(c, k, dir) : l.node \in seen, NEW j \in Nat
    PROVE  BallIn(c, n, dir)[j] \subseteq seen
<1> DEFINE ball == BallIn(c, n, dir)
           Holds == {i \in Nat : ball[i] \subseteq seen}
<1>1. Balls(c, n, dir, ball)
  BY BallsAre
<1> HIDE DEF ball
<1>2. 0 \in Holds
  BY <1>1 DEF Balls
<1>3. ASSUME NEW i \in Nat, i \in Holds PROVE i + 1 \in Holds
  <2>1. i + 1 \in Nat
    OBVIOUS
  <2>2. ASSUME NEW x \in ball[i + 1] PROVE x \in seen
    <3>1. x \in Node
      BY <1>1, <2>1 DEF Balls
    <3>2. x \in ball[i] \/ \E y \in ball[i], o \in Rel : Joins(c, dir, y, x, o)
      BY <1>1, <3>1 DEF Balls
    <3>3. CASE x \in ball[i]
      BY <1>3, <3>3
    <3>4. CASE \E y \in ball[i], o \in Rel : Joins(c, dir, y, x, o)
      <4>1. PICK y \in ball[i], o \in Rel : [node |-> x, rel |-> o] \in LinksIn(c, y, dir)
        BY <3>4 DEF Joins
      <4>2. y \in seen
        BY <1>3
      <4>3. [node |-> x, rel |-> o].node \in seen
        BY <4>1, <4>2
      <4> QED  BY <4>3
    <3> QED  BY <3>2, <3>3, <3>4
  <2> QED  BY <2>1, <2>2
<1> HIDE DEF Holds
<1>4. \A i \in Nat : i \in Holds
  BY <1>2, <1>3, EveryNumber
<1> QED  BY <1>4 DEF Holds, ball

-----------------------------------------------------------------------------
(* Ways *)

\* Along a way from n the i-th node is within i - 1 hops.
LEMMA WaysStayInBalls ==
    ASSUME NEW c, NEW dir, NEW n \in Node, NEW nodes, NEW rels, NEW L \in Nat, nodes[1] = n,
           \A i \in 1 .. L : nodes[i + 1] \in Node /\ rels[i] \in Rel /\ Joins(c, dir, nodes[i], nodes[i + 1], rels[i])
    PROVE  nodes[L + 1] \in BallIn(c, n, dir)[L]
<1> DEFINE ball == BallIn(c, n, dir)
           Holds == {i \in Nat : i <= L => nodes[i + 1] \in ball[i]}
<1>1. Balls(c, n, dir, ball)
  BY BallsAre
<1> HIDE DEF ball
<1>2. 0 \in Holds
  BY <1>1 DEF Balls
<1>3. ASSUME NEW i \in Nat, i \in Holds PROVE i + 1 \in Holds
  <2> SUFFICES ASSUME i + 1 <= L PROVE nodes[i + 1 + 1] \in ball[i + 1]
    OBVIOUS
  <2>1. i <= L /\ i + 1 \in 1 .. L
    OBVIOUS
  <2>2. nodes[i + 1] \in ball[i]
    BY <1>3, <2>1
  <2>3. nodes[i + 1 + 1] \in Node /\ rels[i + 1] \in Rel /\ Joins(c, dir, nodes[i + 1], nodes[i + 1 + 1], rels[i + 1])
    BY <2>1
  <2> QED  BY <1>1, <2>2, <2>3 DEF Balls
<1> HIDE DEF Holds
<1>4. \A i \in Nat : i \in Holds
  BY <1>2, <1>3, EveryNumber
<1> QED  BY <1>4 DEF Holds, ball

\* Consecutive nodes of a chain are linked, the later to the earlier.
LEMMA ChainsAreLinked ==
    ASSUME NEW c, NEW dir, NEW parent \in Parents, NEW start, NEW n, NEW chain,
           Leads(parent, start, n, chain), Linked(c, dir, parent, start)
    PROVE  \A i \in 1 .. Len(chain) - 1 :
              /\ chain[i].node \in Node /\ chain[i + 1].node \in Node
              /\ Joins(c, dir, chain[i + 1].node, chain[i].node, chain[i + 1].rel)
<1> TAKE i \in 1 .. Len(chain) - 1
<1>1. DOMAIN parent \subseteq Node
  BY DEF Parents
<1>2. Len(chain) \in Nat /\ i \in 1 .. Len(chain) /\ i + 1 \in 1 .. Len(chain)
  BY DEF Leads
<1>3. chain[i].node \in DOMAIN parent /\ chain[i + 1].node \in DOMAIN parent
  BY <1>2 DEF Leads
<1>4. chain[i].node # start /\ chain[i + 1] = parent[chain[i].node]
  BY DEF Leads
<1> QED  BY <1>1, <1>3, <1>4 DEF Linked

\* A chain read backwards.
LEMMA BackwardsIs ==
    ASSUME NEW c \in Seq(Parent), Len(c) \in Nat \ {0}
    PROVE  /\ Reverse(NodesOf(c)) = [i \in 1 .. Len(c) |-> c[Len(c) - i + 1].node]
           /\ Reverse(RelsOf(c)) = [i \in 1 .. Len(c) - 1 |-> c[Len(c) - i + 1].rel]
<1> DEFINE L == Len(c)
<1>1. L \in Nat \ {0}
  OBVIOUS
<1> HIDE DEF L
<1>2. NodesOf(c) = [i \in 1 .. L |-> c[i].node] /\ Len(NodesOf(c)) = L
  BY <1>1 DEF NodesOf, L
<1>3. RelsOf(c) = [i \in 1 .. L - 1 |-> c[i + 1].rel] /\ Len(RelsOf(c)) = L - 1
  BY <1>1 DEF RelsOf, L
<1>4. Reverse(NodesOf(c)) = [i \in 1 .. L |-> c[L - i + 1].node]
  <2>1. Reverse(NodesOf(c)) = [i \in 1 .. L |-> NodesOf(c)[L - i + 1]]
    BY <1>2 DEF Reverse
  <2>2. \A i \in 1 .. L : L - i + 1 \in 1 .. L
    BY <1>1
  <2> QED  BY <1>2, <2>1, <2>2
<1>5. Reverse(RelsOf(c)) = [i \in 1 .. L - 1 |-> c[L - i + 1].rel]
  <2>1. Reverse(RelsOf(c)) = [i \in 1 .. L - 1 |-> RelsOf(c)[L - 1 - i + 1]]
    BY <1>3 DEF Reverse
  <2>2. \A i \in 1 .. L - 1 : RelsOf(c)[L - 1 - i + 1] = c[L - i + 1].rel
    <3> TAKE i \in 1 .. L - 1
    <3> DEFINE j == L - 1 - i + 1
    <3>1. j \in 1 .. L - 1 /\ j + 1 = L - i + 1
      BY <1>1
    <3> HIDE DEF j
    <3>2. RelsOf(c)[j] = c[j + 1].rel
      BY <1>3, <3>1
    <3> QED  BY <3>1, <3>2 DEF j
  <2> QED  BY <2>1, <2>2
<1> QED  BY <1>4, <1>5 DEF L

\* ab is a and then b.
Concats(T, a, b, ab) ==
    /\ ab \in Seq(T) /\ Len(ab) = Len(a) + Len(b)
    /\ \A i \in 1 .. Len(a) : ab[i] = a[i]
    /\ \A i \in 1 .. Len(b) : ab[Len(a) + i] = b[i]

\* Sequences one after the other.
LEMMA JoinedIs ==
    ASSUME NEW T, NEW a \in Seq(T), NEW b \in Seq(T)
    PROVE  Concats(T, a, b, a \o b)
<1>1. /\ a \o b \in Seq(T) /\ Len(a \o b) = Len(a) + Len(b)
      /\ \A i \in 1 .. Len(a) + Len(b) : (a \o b)[i] = IF i <= Len(a) THEN a[i] ELSE b[i - Len(a)]
  BY ConcatProperties
<1>2. Len(a) \in Nat /\ Len(b) \in Nat
  OBVIOUS
<1>3. \A i \in 1 .. Len(a) : i \in 1 .. Len(a) + Len(b) /\ i <= Len(a)
  BY <1>2
<1>4. \A i \in 1 .. Len(b) : Len(a) + i \in 1 .. Len(a) + Len(b) /\ ~(Len(a) + i <= Len(a)) /\ Len(a) + i - Len(a) = i
  BY <1>2
<1>5. ASSUME NEW i \in 1 .. Len(b) PROVE (a \o b)[Len(a) + i] = b[i]
  <2> DEFINE j == Len(a) + i
  <2>1. j \in 1 .. Len(a) + Len(b) /\ ~(j <= Len(a)) /\ j - Len(a) = i
    BY <1>4
  <2> HIDE DEF j
  <2>2. (a \o b)[j] = b[j - Len(a)]
    BY <1>1, <2>1
  <2> QED  BY <2>1, <2>2 DEF j
<1> QED  BY <1>1, <1>3, <1>5 DEF Concats

\* A way, and relationships that are there.
Walks(c, dir, nodes, rels) ==
    /\ rels \in Seq({r \in Rel : c[r] # Gone})
    /\ \A i \in 1 .. Len(rels) : nodes[i] \in Node /\ nodes[i + 1] \in Node /\ Joins(c, dir, nodes[i], nodes[i + 1], rels[i])

\* A way needs only be linked for its relationships to be there.
LEMMA LinkedWalks ==
    ASSUME NEW c, NEW dir, NEW nodes, NEW T, NEW rels \in Seq(T),
           \A i \in 1 .. Len(rels) : nodes[i] \in Node /\ nodes[i + 1] \in Node /\ Joins(c, dir, nodes[i], nodes[i + 1], rels[i])
    PROVE  Walks(c, dir, nodes, rels)
<1> DEFINE There == {r \in Rel : c[r] # Gone}
<1>0. \A n, m, r : Joins(c, dir, n, m, r) => r \in There
  BY DEF Joins, LinksIn
<1>1. \A i \in 1 .. Len(rels) : rels[i] \in There
  BY <1>0
<1>2. Len(rels) \in Nat /\ rels = [i \in 1 .. Len(rels) |-> rels[i]]
  OBVIOUS
<1> HIDE DEF There
<1>3. rels \in [1 .. Len(rels) -> There]
  BY <1>1, <1>2
<1>4. rels \in Seq(There)
  BY <1>2, <1>3
<1> QED  BY <1>4 DEF Walks, There

\* A chain backwards is a way from the start.
LEMMA BackwardsWalks ==
    ASSUME NEW c, NEW dir, NEW parent \in Parents, NEW start, NEW n, NEW chain,
           Leads(parent, start, n, chain), Linked(c, dir, parent, start)
    PROVE  Walks(c, dir, Reverse(NodesOf(chain)), Reverse(RelsOf(chain)))
<1> DEFINE L == Len(chain)
           nodes == Reverse(NodesOf(chain))
           rels == Reverse(RelsOf(chain))
<1>1. chain \in Seq(Parent) /\ L \in Nat \ {0}
  BY DEF Leads
<1>2. nodes = [i \in 1 .. L |-> chain[L - i + 1].node] /\ rels = [i \in 1 .. L - 1 |-> chain[L - i + 1].rel]
  BY <1>1, BackwardsIs
<1>3. \A i \in 1 .. L - 1 : /\ chain[i].node \in Node /\ chain[i + 1].node \in Node
                            /\ Joins(c, dir, chain[i + 1].node, chain[i].node, chain[i + 1].rel)
  BY ChainsAreLinked
<1> HIDE DEF L, nodes, rels
<1>4. \A i \in 1 .. L - 1 : L - i + 1 \in 1 .. L /\ chain[L - i + 1].rel \in Rel \cup {0}
  <2>1. \A i \in 1 .. L - 1 : L - i + 1 \in 1 .. L
    BY <1>1
  <2>2. \A i \in 1 .. L : chain[i] \in Parent
    BY <1>1 DEF L
  <2> QED  BY <2>1, <2>2 DEF Parent
<1>5. rels \in Seq(Rel \cup {0}) /\ Len(rels) = L - 1
  <2>1. L - 1 \in Nat
    BY <1>1
  <2>2. rels \in [1 .. L - 1 -> Rel \cup {0}]
    BY <1>2, <1>4
  <2> QED  BY <2>1, <2>2
<1>6. ASSUME NEW i \in 1 .. L - 1
      PROVE  nodes[i] \in Node /\ nodes[i + 1] \in Node /\ Joins(c, dir, nodes[i], nodes[i + 1], rels[i])
  <2> DEFINE j == L - i
  <2>1. j \in 1 .. L - 1 /\ L - i + 1 = j + 1 /\ L - (i + 1) + 1 = j /\ i \in 1 .. L /\ i + 1 \in 1 .. L
    BY <1>1
  <2>2. nodes[i] = chain[j + 1].node /\ nodes[i + 1] = chain[j].node /\ rels[i] = chain[j + 1].rel
    BY <1>2, <2>1
  <2> HIDE DEF j
  <2> QED  BY <1>3, <2>1, <2>2
<1>7. Walks(c, dir, nodes, rels)
  BY <1>5, <1>6, LinkedWalks
<1> QED  BY <1>7 DEF nodes, rels

\* Where two chains meet, the one backwards and then the other is a way.
LEMMA MeetingWalks ==
    ASSUME NEW c, NEW dir, NEW forth, NEW back, NEW from, NEW to, NEW n,
           NEW pf \in Parents, NEW pb \in Parents,
           Leads(pf, from, n, forth), Leads(pb, to, n, back),
           Linked(c, dir, pf, from), Linked(c, Opposite(dir), pb, to)
    PROVE  Walks(c, dir, Reverse(NodesOf(forth)) \o Tail(NodesOf(back)), Reverse(RelsOf(forth)) \o RelsOf(back))
<1> DEFINE F == Len(forth)
           B == Len(back)
           nf == Reverse(NodesOf(forth))
           rf == Reverse(RelsOf(forth))
           nb == Tail(NodesOf(back))
           rb == RelsOf(back)
           nodes == nf \o nb
           rels == rf \o rb
<1>1. /\ F \in Nat \ {0} /\ forth \in Seq(Parent) /\ forth[1].node = n
      /\ B \in Nat \ {0} /\ back \in Seq(Parent) /\ back[1].node = n
  BY DEF Leads
<1>2. /\ nf = [i \in 1 .. F |-> forth[F - i + 1].node]
      /\ rf = [i \in 1 .. F - 1 |-> forth[F - i + 1].rel]
  BY <1>1, BackwardsIs
<1>3. Walks(c, dir, nf, rf)
  BY BackwardsWalks
<1>4. \A i \in 1 .. B - 1 : /\ back[i].node \in Node /\ back[i + 1].node \in Node
                            /\ Joins(c, dir, back[i].node, back[i + 1].node, back[i + 1].rel)
  <2>1. \A i \in 1 .. B - 1 : /\ back[i].node \in Node /\ back[i + 1].node \in Node
                              /\ Joins(c, Opposite(dir), back[i + 1].node, back[i].node, back[i + 1].rel)
    BY ChainsAreLinked
  <2> QED  BY <2>1, JoinsBack
<1>5. NodesOf(back) = [i \in 1 .. B |-> back[i].node] /\ rb = [i \in 1 .. B - 1 |-> back[i + 1].rel]
  BY DEF NodesOf, RelsOf
<1>6. nb = [i \in 1 .. B - 1 |-> back[i + 1].node]
  <2>1. \A i \in 1 .. B - 1 : i + 1 \in 1 .. B
    BY <1>1
  <2> DEFINE all == NodesOf(back)
  <2>2. all = [i \in 1 .. B |-> back[i].node] /\ Len(all) = B
    BY <1>1, <1>5
  <2> HIDE DEF all, B
  <2>3. Tail(all) = [i \in 1 .. B - 1 |-> all[i + 1]]
    BY <1>1, <2>2
  <2>4. Tail(all) = [i \in 1 .. B - 1 |-> back[i + 1].node]
    BY <2>1, <2>2, <2>3
  <2> QED  BY <2>4 DEF all
<1>7. /\ \A i \in 1 .. F : forth[i].node \in Node \cup {0} /\ forth[i].rel \in Rel \cup {0}
      /\ \A i \in 1 .. B : back[i].node \in Node \cup {0} /\ back[i].rel \in Rel \cup {0}
  <2>1. (\A i \in 1 .. F : forth[i] \in Parent) /\ \A i \in 1 .. B : back[i] \in Parent
    BY <1>1
  <2>2. \A p \in Parent : p.node \in Node \cup {0} /\ p.rel \in Rel \cup {0}
    BY DEF Parent
  <2> QED  BY <2>1, <2>2
<1> HIDE DEF F, B, nf, rf, nb, rb
<1>8. /\ nf \in Seq(Node \cup {0}) /\ Len(nf) = F
      /\ rf \in Seq(Rel \cup {0}) /\ Len(rf) = F - 1
  <2>1. F - 1 \in Nat /\ \A i \in 1 .. F : F - i + 1 \in 1 .. F
    BY <1>1
  <2>2. \A i \in 1 .. F - 1 : F - i + 1 \in 1 .. F
    BY <1>1
  <2>3. nf \in [1 .. F -> Node \cup {0}] /\ rf \in [1 .. F - 1 -> Rel \cup {0}]
    BY <1>2, <1>7, <2>1, <2>2
  <2> QED  BY <1>1, <2>1, <2>3
<1>9. /\ nb \in Seq(Node \cup {0}) /\ Len(nb) = B - 1
      /\ rb \in Seq(Rel \cup {0}) /\ Len(rb) = B - 1
  <2>1. B - 1 \in Nat /\ \A i \in 1 .. B - 1 : i + 1 \in 1 .. B
    BY <1>1
  <2>2. nb \in [1 .. B - 1 -> Node \cup {0}] /\ rb \in [1 .. B - 1 -> Rel \cup {0}]
    BY <1>5, <1>6, <1>7, <2>1
  <2> QED  BY <2>1, <2>2
<1>10. /\ \A i \in 1 .. F : nodes[i] = nf[i]
       /\ \A i \in 1 .. B - 1 : nodes[F + i] = nb[i]
  <2>1. Concats(Node \cup {0}, nf, nb, nodes)
    BY <1>8, <1>9, JoinedIs
  <2> QED  BY <1>8, <1>9, <2>1 DEF Concats
<1>11. /\ rels \in Seq(Rel \cup {0}) /\ Len(rels) = F - 1 + (B - 1)
       /\ \A i \in 1 .. F - 1 : rels[i] = rf[i]
       /\ \A i \in 1 .. B - 1 : rels[F - 1 + i] = rb[i]
  <2>1. Concats(Rel \cup {0}, rf, rb, rels)
    BY <1>8, <1>9, JoinedIs
  <2> HIDE DEF rels
  <2> QED  BY <1>8, <1>9, <2>1 DEF Concats
<1> HIDE DEF nodes, rels
<1>12. ASSUME NEW i \in 1 .. Len(rels)
       PROVE  nodes[i] \in Node /\ nodes[i + 1] \in Node /\ Joins(c, dir, nodes[i], nodes[i + 1], rels[i])
  <2>1. CASE i <= F - 1
    <3>1. i \in 1 .. F - 1 /\ i \in 1 .. F /\ i + 1 \in 1 .. F
      BY <1>1, <2>1
    <3>2. nodes[i] = nf[i] /\ nodes[i + 1] = nf[i + 1] /\ rels[i] = rf[i]
      BY <1>10, <1>11, <3>1
    <3> QED  BY <1>3, <1>8, <3>1, <3>2 DEF Walks
  <2>2. CASE ~(i <= F - 1)
    <3> DEFINE j == i - (F - 1)
    <3>1. j \in 1 .. B - 1 /\ F - 1 + j = i /\ i + 1 = F + j
      BY <1>1, <1>11, <2>2
    <3> HIDE DEF j
    <3>2. rels[i] = back[j + 1].rel
      BY <1>5, <1>11, <3>1
    <3>3. nodes[i + 1] = back[j + 1].node
      BY <1>6, <1>10, <3>1
    <3>4. nodes[i] = back[j].node
      <4>1. CASE j = 1
        <5>1. i = F /\ F \in 1 .. F /\ F - F + 1 = 1
          BY <1>1, <3>1, <4>1
        <5>2. nodes[i] = forth[1].node
          BY <1>2, <1>10, <5>1
        <5> QED  BY <1>1, <4>1, <5>2
      <4>2. CASE j # 1
        <5>1. j - 1 \in 1 .. B - 1 /\ i = F + (j - 1) /\ j - 1 + 1 = j
          BY <1>1, <3>1, <4>2
        <5>2. nodes[i] = nb[j - 1]
          BY <1>10, <5>1
        <5>3. nb[j - 1] = back[j].node
          BY <1>6, <5>1
        <5> QED  BY <5>2, <5>3
      <4> QED  BY <4>1, <4>2
    <3> QED  BY <1>4, <3>1, <3>2, <3>3, <3>4
  <2> QED  BY <2>1, <2>2
<1>13. Walks(c, dir, nodes, rels)
  BY <1>11, <1>12, LinkedWalks
<1> QED  BY <1>13 DEF nodes, rels, nf, rf, nb, rb

-----------------------------------------------------------------------------
(* The search from both ends finds the shortest *)

LEMMA StartsAre ==
    ASSUME NEW q \in Request, NEW s \in Side
    PROVE  StartOf(q, s) \in Node
BY SearchesAssumption DEF StartOf

\* At first each side has seen its start.
LEMMA FromBothEndsExact ==
    ASSUME NEW c, NEW q \in Request
    PROVE  ShortestExactly(c, q, FromBothEnds(q))
<1> DEFINE w == FromBothEnds(q)
<1>1. /\ w.at = "level"
      /\ w.parent = [s \in Side |-> [n \in {StartOf(q, s)} |-> Root]]
      /\ w.level = [s \in Side |-> {StartOf(q, s)}]
      /\ w.hops = [s \in Side |-> 0]
  BY DEF FromBothEnds, StartOf
<1> HIDE DEF w
<1>2. ASSUME NEW s \in Side PROVE SeenExactly(c, q, w, s)
  <2> DEFINE start == StartOf(q, s)
             dir == DirOf(q, s)
  <2>1. start \in Node
    BY StartsAre
  <2>2. Balls(c, start, dir, BallIn(c, start, dir))
    BY <2>1, BallsAre
  <2>3. DOMAIN w.parent[s] = {start} /\ w.level[s] = {start} /\ DepthReached(w, s) = 0
    BY <1>1 DEF DepthReached
  <2>4. BallIn(c, start, dir)[0] = {start}
    BY <2>2 DEF Balls
  <2>5. Linked(c, dir, w.parent[s], start)
    BY <2>3 DEF Linked
  <2> QED  BY <2>3, <2>4, <2>5 DEF SeenExactly
<1>3. ReadExactly(c, q, w)
  BY <1>1 DEF ReadExactly
<1> QED  BY <1>2, <1>3 DEF ShortestExactly, w

\* A hop begun has seen no more.
LEMMA ExpandLevelKeepsExact ==
    ASSUME IInv, ExpandLevel, NEW c, ShortestExactly(c, request, work)
    PROVE  ShortestExactly(c, request, work')
<1>1. PICK side \in Side : Expanded(side)
  BY ExpandLevelStep
<1>2. work.at = "level" /\ request.kind = "shortest"
  BY DEF ExpandLevel, At
<1>3. work \in ShortestWork
  BY <1>2, ShortestParts
<1>4. work.hops \in [Side -> Nat]
  BY <1>3 DEF ShortestWork
<1>5. /\ work'.at = "reading" /\ work'.side = side /\ work'.parent = work.parent /\ work'.level = work.level
      /\ work'.hops = [work.hops EXCEPT ![side] = @ + 1]
      /\ work'.pending = work.level[side] /\ work'.read = Unread
  BY <1>1 DEF Expanded
<1>6. ASSUME NEW s \in Side PROVE SeenExactly(c, request, work', s)
  <2>1. DepthReached(work', s) = DepthReached(work, s)
    BY <1>2, <1>4, <1>5 DEF DepthReached
  <2>2. SeenExactly(c, request, work, s)
    BY DEF ShortestExactly
  <2> QED  BY <1>5, <2>1, <2>2 DEF SeenExactly
<1>7. ReadExactly(c, request, work')
  BY <1>5, UnreadIs DEF ReadExactly
<1> QED  BY <1>6, <1>7 DEF ShortestExactly

\* The links that arrive are those there are.
LEMMA LinksThatArrive ==
    ASSUME NEW n, NodeGetLinksPeered(n), request.kind # "paths"
    PROVE  LET dir == IF "side" \in DOMAIN work /\ work.side = "backward"
                      THEN Opposite(request.dir)
                      ELSE request.dir
           IN  work' = [work EXCEPT !.pending = @ \ {n},
                                    !.read = [m \in DOMAIN @ \cup {n} |-> IF m = n THEN LinksIn(cost, n, dir) ELSE @[m]]]
<1> DEFINE dir == IF "side" \in DOMAIN work /\ work.side = "backward"
                  THEN Opposite(request.dir)
                  ELSE request.dir
           links == IF request.kind = "paths" /\ ~request.typed THEN {} ELSE NodeGetLinks(n, dir)
<1>1. work' = [work EXCEPT !.pending = @ \ {n},
                           !.read = [m \in DOMAIN @ \cup {n} |-> IF m = n THEN links ELSE @[m]]]
  BY DEF NodeGetLinksPeered
<1> HIDE DEF dir
<1>2. links = LinksIn(cost, n, dir)
  BY TheLinks
<1> HIDE DEF links
<1>3. work' = [work EXCEPT !.pending = @ \ {n},
                           !.read = [m \in DOMAIN @ \cup {n} |-> IF m = n THEN LinksIn(cost, n, dir) ELSE @[m]]]
  BY <1>1, <1>2
<1> QED  BY <1>3 DEF dir

\* The links that arrive are those of now.
LEMMA LinksArriveAtASide ==
    ASSUME IInv, NEW n \in Node, NodeGetLinksPeered(n), request.kind = "shortest", ShortestExactly(cost, request, work)
    PROVE  ShortestExactly(cost, request, work')
<1>1. work.at = "reading" /\ n \in work.pending
  BY DEF NodeGetLinksPeered
<1>2. work \in ShortestWork
  BY <1>1, ShortestParts
<1> DEFINE dir == DirOf(request, work.side)
           more == [m \in DOMAIN work.read \cup {n} |-> IF m = n THEN LinksIn(cost, n, dir) ELSE work.read[m]]
<1>3. work' = [work EXCEPT !.pending = @ \ {n}, !.read = more]
  <2> DEFINE d == IF "side" \in DOMAIN work /\ work.side = "backward"
                  THEN Opposite(request.dir)
                  ELSE request.dir
  <2>1. work' = [work EXCEPT !.pending = @ \ {n},
                             !.read = [m \in DOMAIN @ \cup {n} |-> IF m = n THEN LinksIn(cost, n, d) ELSE @[m]]]
    BY LinksThatArrive
  <2>2. "side" \in DOMAIN work /\ work.side \in Side
    BY <1>2 DEF ShortestWork
  <2>3. d = dir
    BY <2>2 DEF DirOf, Side
  <2> HIDE DEF d, dir
  <2> QED  BY <2>1, <2>3
<1> HIDE DEF dir, more
<1>4. /\ work'.at = work.at /\ work'.side = work.side /\ work'.parent = work.parent
      /\ work'.level = work.level /\ work'.hops = work.hops
      /\ work'.pending = work.pending \ {n} /\ work'.read = more
  BY <1>2, <1>3 DEF ShortestWork
<1>5. ASSUME NEW s \in Side PROVE SeenExactly(cost, request, work', s)
  <2>1. DepthReached(work', s) = DepthReached(work, s)
    BY <1>4 DEF DepthReached
  <2>2. SeenExactly(cost, request, work, s)
    BY DEF ShortestExactly
  <2> QED  BY <1>4, <2>1, <2>2 DEF SeenExactly
<1>6. DOMAIN more = DOMAIN work.read \cup {n}
      /\ \A m \in DOMAIN more : more[m] = IF m = n THEN LinksIn(cost, n, dir) ELSE work.read[m]
  BY DEF more
<1>7. /\ work.level[work.side] \subseteq work.pending \cup DOMAIN work.read
      /\ \A m \in DOMAIN work.read : work.read[m] = LinksIn(cost, m, dir)
  BY <1>1 DEF ShortestExactly, ReadExactly, dir
<1>8. work.level[work.side] \subseteq (work.pending \ {n}) \cup DOMAIN more
  BY <1>6, <1>7
<1>9. \A m \in DOMAIN more : more[m] = LinksIn(cost, m, dir)
  BY <1>6, <1>7
<1>10. ReadExactly(cost, request, work')
  BY <1>4, <1>8, <1>9 DEF ReadExactly, dir
<1> QED  BY <1>5, <1>10 DEF ShortestExactly

\* When a level is read, what was read are all links of the level.
LEMMA LevelRead ==
    ASSUME IInv, HasRead({"shortest"}), ShortestExactly(cost, request, work)
    PROVE  /\ \A l \in LinksRead : /\ l.from \in work.level[work.side] /\ l.node \in Node /\ l.rel \in Rel
                                   /\ Joins(cost, DirOf(request, work.side), l.from, l.node, l.rel)
           /\ \A n \in work.level[work.side] : \A k \in LinksIn(cost, n, DirOf(request, work.side)) :
                 \E l \in LinksRead : l.node = k.node
<1> DEFINE dir == DirOf(request, work.side)
<1>1. work.at = "reading" /\ request.kind = "shortest" /\ work.pending = {}
  BY DEF HasRead, At
<1>2. ShortestOK(request, work) /\ work \in ShortestWork
  BY <1>1, ShortestParts
<1>3. work.read \in Reads
  BY <1>2 DEF ShortestWork
<1>4. DOMAIN work.read \subseteq work.level[work.side]
  BY <1>1, <1>2 DEF ShortestOK, ReadsItsLevel
<1>5. /\ work.level[work.side] \subseteq DOMAIN work.read
      /\ \A n \in DOMAIN work.read : work.read[n] = LinksIn(cost, n, dir)
  BY <1>1 DEF ShortestExactly, ReadExactly
<1> HIDE DEF dir
<1>6. ASSUME NEW l \in LinksRead
      PROVE  /\ l.from \in work.level[work.side] /\ l.node \in Node /\ l.rel \in Rel
             /\ Joins(cost, dir, l.from, l.node, l.rel)
  <2>1. l.from \in DOMAIN work.read /\ l.node \in Node /\ l.rel \in Rel
    BY <1>3, LinksReadAre
  <2>2. PICK n \in DOMAIN work.read : l \in {[from |-> n, node |-> k.node, rel |-> k.rel] : k \in work.read[n]}
    BY DEF LinksRead
  <2>3. PICK k \in work.read[n] : l = [from |-> n, node |-> k.node, rel |-> k.rel]
    BY <2>2
  <2>4. k \in LinksIn(cost, n, dir) /\ l.from = n /\ l.node = k.node /\ l.rel = k.rel
    BY <1>5, <2>2, <2>3
  <2>5. k = [node |-> k.node, rel |-> k.rel]
    BY <2>4, LinksInAre
  <2>6. Joins(cost, dir, l.from, l.node, l.rel)
    BY <2>4, <2>5 DEF Joins
  <2> QED  BY <1>4, <2>1, <2>6
<1>7. ASSUME NEW n \in work.level[work.side], NEW k \in LinksIn(cost, n, dir)
      PROVE  \E l \in LinksRead : l.node = k.node
  <2> DEFINE l == [from |-> n, node |-> k.node, rel |-> k.rel]
  <2>1. n \in DOMAIN work.read /\ k \in work.read[n]
    BY <1>5
  <2>2. l \in LinksRead
    BY <2>1 DEF LinksRead
  <2> QED  BY <2>2
<1> QED  BY <1>6, <1>7 DEF dir

\* A level's new nodes make its ball one hop wider.
LEMMA BallWidens ==
    ASSUME IInv, HasRead({"shortest"}), ShortestExactly(cost, request, work)
    PROVE  LET side == work.side
               dir  == DirOf(request, side)
               seen == DOMAIN work.parent[side]
               new  == {l.node : l \in NewLinks}
           IN  /\ seen \cup new = BallIn(cost, StartOf(request, side), dir)[work.hops[side]]
               /\ seen \cap new = {}
               /\ \A n \in seen : \A k \in LinksIn(cost, n, dir) : k.node \in seen \cup new
               /\ \A l \in NewLinks : Joins(cost, dir, l.from, l.node, l.rel)
<1> DEFINE side  == work.side
           dir   == DirOf(request, side)
           seen  == DOMAIN work.parent[side]
           new   == {l.node : l \in NewLinks}
           level == work.level[side]
           start == StartOf(request, side)
           ball  == BallIn(cost, start, dir)
           d     == work.hops[side] - 1
<1>1. work.at = "reading" /\ request.kind = "shortest"
  BY DEF HasRead, At
<1>2. ShortestOK(request, work) /\ work \in ShortestWork /\ request \in Request
  BY <1>1, ShortestParts
<1>3. side \in Side /\ d \in Nat /\ DepthReached(work, side) = d
  BY ReadingSide
<1>4. d + 1 = work.hops[side]
  BY <1>2, <1>3 DEF ShortestWork
<1>5. seen = ball[d] /\ (\A n \in seen \ level : \A l \in LinksIn(cost, n, dir) : l.node \in seen)
  BY <1>3 DEF ShortestExactly, SeenExactly
<1>6. level \subseteq seen /\ seen \subseteq Node
  BY <1>2, <1>3 DEF ShortestOK, ShortestWork, Layered, Parents
<1>7. Balls(cost, start, dir, ball)
  <2>1. start \in Node
    BY <1>2, <1>3, StartsAre
  <2> QED  BY <2>1, BallsAre
<1>8. /\ \A l \in LinksRead : /\ l.from \in level /\ l.node \in Node /\ l.rel \in Rel
                              /\ Joins(cost, dir, l.from, l.node, l.rel)
      /\ \A n \in level : \A k \in LinksIn(cost, n, dir) : \E l \in LinksRead : l.node = k.node
  BY LevelRead
<1>9. \A l : l \in NewLinks <=> l \in LinksRead /\ l.node \notin seen
  BY DEF NewLinks
<1> HIDE DEF side, dir, seen, level, start, ball, d
<1>10. ASSUME NEW n \in seen, NEW k \in LinksIn(cost, n, dir) PROVE k.node \in seen \cup new
  <2>1. CASE n \notin level
    BY <1>5, <2>1
  <2>2. CASE n \in level
    <3>1. PICK l \in LinksRead : l.node = k.node
      BY <1>8, <2>2
    <3> QED  BY <1>9, <3>1
  <2> QED  BY <2>1, <2>2
<1>11. \A l \in NewLinks : Joins(cost, dir, l.from, l.node, l.rel)
  BY <1>8, <1>9
<1>12. seen \cap new = {}
  BY <1>9
<1>13. new \subseteq Node
  BY <1>8, <1>9
<1>14. ASSUME NEW m \in ball[d + 1] PROVE m \in seen \cup new
  <2>1. m \in Node
    BY <1>3, <1>7 DEF Balls
  <2>2. m \in ball[d] \/ \E k \in ball[d], r \in Rel : Joins(cost, dir, k, m, r)
    BY <1>3, <1>7, <2>1 DEF Balls
  <2>3. ASSUME NEW k \in ball[d], NEW r \in Rel, Joins(cost, dir, k, m, r) PROVE m \in seen \cup new
    <3>1. [node |-> m, rel |-> r] \in LinksIn(cost, k, dir) /\ [node |-> m, rel |-> r].node = m
      BY <2>3 DEF Joins
    <3>2. k \in seen
      BY <1>5
    <3> HIDE DEF new
    <3> QED  BY <1>10, <3>1, <3>2
  <2> QED  BY <1>5, <2>2, <2>3
<1>15. ASSUME NEW m \in seen \cup new PROVE m \in ball[d + 1]
  <2>1. m \in Node
    BY <1>6, <1>13
  <2>2. CASE m \in seen
    BY <1>3, <1>5, <1>7, <2>1, <2>2 DEF Balls
  <2>3. CASE m \in new
    <3>1. PICK l \in NewLinks : m = l.node
      BY <2>3
    <3>2. l.from \in ball[d] /\ l.rel \in Rel /\ Joins(cost, dir, l.from, m, l.rel)
      BY <1>5, <1>6, <1>8, <1>9, <3>1
    <3> QED  BY <1>3, <1>7, <2>1, <3>2 DEF Balls
  <2> QED  BY <2>2, <2>3
<1>16. seen \cup new = ball[work.hops[side]]
  <2>1. seen \cup new = ball[d + 1]
    <3> HIDE DEF new
    <3> QED  BY <1>14, <1>15
  <2> QED  BY <1>4, <2>1
<1> QED  BY <1>10, <1>11, <1>12, <1>16 DEF side, dir, seen, start, ball

\* A hop done has seen the next ball.
LEMMA NextLevelKeepsExact ==
    ASSUME IInv, NextLevel, ShortestExactly(cost, request, work)
    PROVE  ShortestExactly(cost, request, work')
<1> DEFINE side  == work.side
           dir   == DirOf(request, side)
           seen  == DOMAIN work.parent[side]
           new   == {l.node : l \in NewLinks}
           start == StartOf(request, side)
<1>1. /\ HasRead({"shortest"}) /\ work.at = "reading" /\ request.kind = "shortest"
  BY DEF NextLevel, HasRead, At
<1>2. ShortestOK(request, work) /\ work \in ShortestWork /\ request \in Request
  BY <1>1, ShortestParts
<1>3. PICK p : Levelled(p)
  BY NextLevelStep
<1> DEFINE grown == WithParents(work.parent[side], p)
<1>4. /\ p \in [new -> Parent]
      /\ \A n \in new : \E l \in LinksTo(NewLinks, n) : p[n] = [node |-> l.from, rel |-> l.rel]
  BY <1>3, Zenon DEF Levelled
<1>5. /\ work'.at = "level" /\ work'.hops = work.hops
      /\ work'.level = [work.level EXCEPT ![side] = new]
      /\ work'.parent = [work.parent EXCEPT ![side] = grown]
  BY <1>3, Zenon DEF Levelled
<1>6. side \in Side /\ work.level \in [Side -> SUBSET Node] /\ work.parent \in [Side -> Parents]
  BY <1>1, <1>2, ReadingSide DEF ShortestWork
<1>7. /\ seen \cup new = BallIn(cost, start, dir)[work.hops[side]]
      /\ seen \cap new = {}
      /\ \A n \in seen : \A k \in LinksIn(cost, n, dir) : k.node \in seen \cup new
      /\ \A l \in NewLinks : Joins(cost, dir, l.from, l.node, l.rel)
  BY <1>1, BallWidens
<1>8. Linked(cost, dir, work.parent[side], start)
  BY <1>6 DEF ShortestExactly, SeenExactly
<1>9. grown = [n \in seen \cup new |-> IF n \in new THEN p[n] ELSE work.parent[side][n]]
  BY <1>4 DEF WithParents
<1> HIDE DEF grown, new, seen, side, dir, start
<1>10. Linked(cost, dir, grown, start)
  <2> SUFFICES ASSUME NEW n \in DOMAIN grown \ {start}
               PROVE  Joins(cost, dir, grown[n].node, n, grown[n].rel)
    BY DEF Linked
  <2>1. CASE n \in new
    <3>1. PICK l \in LinksTo(NewLinks, n) : p[n] = [node |-> l.from, rel |-> l.rel]
      BY <1>4, <2>1
    <3>2. l \in NewLinks /\ l.node = n
      BY DEF LinksTo
    <3>3. grown[n].node = l.from /\ grown[n].rel = l.rel
      BY <1>9, <2>1, <3>1
    <3> QED  BY <1>7, <3>2, <3>3
  <2>2. CASE n \notin new
    <3>1. n \in seen \ {start} /\ grown[n] = work.parent[side][n]
      BY <1>9, <2>2
    <3> QED  BY <1>8, <3>1 DEF Linked, seen
  <2> QED  BY <2>1, <2>2
<1>11. ASSUME NEW s \in Side, s = side PROVE SeenExactly(cost, request, work', s)
  <2>1. work'.parent[s] = grown /\ work'.level[s] = new /\ DepthReached(work', s) = work.hops[s]
    BY <1>5, <1>6, <1>11 DEF DepthReached
  <2>2. DOMAIN grown = seen \cup new
    BY <1>9
  <2>3. (seen \cup new) \ new = seen
    BY <1>7
  <2>4. DOMAIN grown = BallIn(cost, StartOf(request, s), DirOf(request, s))[DepthReached(work', s)]
    BY <1>7, <1>11, <2>1, <2>2 DEF start, dir
  <2>5. \A n \in DOMAIN grown \ new : \A l \in LinksIn(cost, n, DirOf(request, s)) : l.node \in DOMAIN grown
    BY <1>7, <1>11, <2>2, <2>3 DEF dir
  <2>6. Linked(cost, DirOf(request, s), grown, StartOf(request, s))
    BY <1>10, <1>11 DEF dir, start
  <2> QED  BY <2>1, <2>4, <2>5, <2>6 DEF SeenExactly
<1>12. ASSUME NEW s \in Side, s # side PROVE SeenExactly(cost, request, work', s)
  <2>1. work'.parent[s] = work.parent[s] /\ work'.level[s] = work.level[s]
    BY <1>5, <1>6, <1>12
  <2>2. DepthReached(work', s) = DepthReached(work, s)
    BY <1>5, <1>12 DEF DepthReached, side
  <2>3. SeenExactly(cost, request, work, s)
    BY DEF ShortestExactly
  <2> QED  BY <2>1, <2>2, <2>3 DEF SeenExactly
<1>13. ReadExactly(cost, request, work')
  BY <1>5 DEF ReadExactly
<1> QED  BY <1>11, <1>12, <1>13 DEF ShortestExactly

\* The balls of the two sides have no node in common, so no way is as short as their hops together.
LEMMA NoShorterWay ==
    ASSUME NEW c, NEW q \in Request, NEW w, ShortestExactly(c, q, w),
           \A n : ~(n \in DOMAIN w.parent["forward"] /\ n \in DOMAIN w.parent["backward"]),
           DepthReached(w, "forward") \in Nat, DepthReached(w, "backward") \in Nat
    PROVE  q.to \notin BallIn(c, q.from, q.dir)[DepthReached(w, "forward") + DepthReached(w, "backward")]
<1> DEFINE a == DepthReached(w, "forward")
           b == DepthReached(w, "backward")
<1>1. q.from \in Node /\ q.to \in Node
  BY SearchesAssumption
<1>2. DOMAIN w.parent["forward"] = BallIn(c, q.from, q.dir)[a]
  <2>1. SeenExactly(c, q, w, "forward")
    BY DEF ShortestExactly, Side
  <2>2. StartOf(q, "forward") = q.from /\ DirOf(q, "forward") = q.dir
    BY DEF StartOf, DirOf
  <2> QED  BY <2>1, <2>2 DEF SeenExactly
<1>3. DOMAIN w.parent["backward"] = BallIn(c, q.to, Opposite(q.dir))[b]
  <2>1. SeenExactly(c, q, w, "backward")
    BY DEF ShortestExactly, Side
  <2>2. StartOf(q, "backward") = q.to /\ DirOf(q, "backward") = Opposite(q.dir)
    BY DEF StartOf, DirOf
  <2> QED  BY <2>1, <2>2 DEF SeenExactly
<1> SUFFICES ASSUME q.to \in BallIn(c, q.from, q.dir)[a + b] PROVE FALSE
  OBVIOUS
<1>4. a \in Nat /\ b \in Nat
  OBVIOUS
<1> HIDE DEF a, b
<1>5. PICK k \in Node : k \in BallIn(c, q.from, q.dir)[a] /\ k \in BallIn(c, q.to, Opposite(q.dir))[b]
  BY <1>1, <1>4, HalfWay
<1> QED  BY <1>2, <1>3, <1>5

\* Where the sides meet is a path, and there is none of fewer hops.
LEMMA MeetFinds ==
    ASSUME IInv, Meet, ShortestExactly(cost, request, work)
    PROVE  FoundExactly(cost, filled, request, work')
<1>1. PICK l, parent, forth, back : Meets(l, parent, forth, back) /\ work' = JoinedPath(forth, back)
  BY MeetingChains
<1>2. HasRead({"shortest"}) /\ work.at = "reading" /\ request.kind = "shortest"
  BY Zenon DEF Meet, HasRead, At
<1>3. ShortestOK(request, work) /\ work \in ShortestWork /\ request.max \in Nat /\ request \in Request
  BY <1>2, ShortestParts
<1> DEFINE side  == work.side
           nodes == Reverse(NodesOf(forth)) \o Tail(NodesOf(back))
           rels  == Reverse(RelsOf(forth)) \o RelsOf(back)
           pf == parent["forward"]
           pb == parent["backward"]
<1>4. /\ l \in MeetingLinks
      /\ parent = [work.parent EXCEPT ![work.side] = WithParents(@, [n \in {l.node} |-> [node |-> l.from, rel |-> l.rel]])]
      /\ pf \in Parents /\ Leads(pf, request.from, l.node, forth)
      /\ pb \in Parents /\ Leads(pb, request.to, l.node, back)
      /\ \A m : m \in DOMAIN pf /\ m \in DOMAIN pb => m = l.node
      /\ Len(forth) - 1 <= work.hops["forward"] /\ Len(back) - 1 <= work.hops["backward"]
  BY <1>1, Zenon DEF Meets, Side
<1>5. work.side \in Side /\ work.parent \in [Side -> Parents]
  BY <1>3 DEF ShortestWork
<1>6. Joins(cost, DirOf(request, side), l.from, l.node, l.rel)
  <2>1. l \in NewLinks
    BY <1>4 DEF MeetingLinks
  <2> QED  BY <1>2, <2>1, BallWidens
<1>7. ASSUME NEW s \in Side
      PROVE  Linked(cost, DirOf(request, s), parent[s], StartOf(request, s))
  <2> DEFINE dir == DirOf(request, s)
             start == StartOf(request, s)
             old == work.parent[s]
             p == [n \in {l.node} |-> [node |-> l.from, rel |-> l.rel]]
  <2>1. Linked(cost, dir, old, start)
    BY DEF ShortestExactly, SeenExactly
  <2>2. CASE s # side
    <3>1. parent[s] = old
      BY <1>4, <1>5, <2>2
    <3> QED  BY <2>1, <3>1
  <2>3. CASE s = side
    <3>1. parent[s] = WithParents(old, p)
      BY <1>4, <1>5, <2>3
    <3>2. DOMAIN p = {l.node} /\ p[l.node] = [node |-> l.from, rel |-> l.rel]
      OBVIOUS
    <3>3. Joins(cost, dir, l.from, l.node, l.rel)
      BY <1>6, <2>3
    <3> HIDE DEF p, old, dir, start
    <3>4. parent[s] = [n \in DOMAIN old \cup {l.node} |-> IF n = l.node THEN p[n] ELSE old[n]]
      BY <3>1, <3>2 DEF WithParents
    <3>5. ASSUME NEW n \in DOMAIN parent[s] \ {start}
          PROVE  Joins(cost, dir, parent[s][n].node, n, parent[s][n].rel)
      <4>1. CASE n = l.node
        BY <3>2, <3>3, <3>4, <4>1
      <4>2. CASE n # l.node
        <5>1. n \in DOMAIN old \ {start} /\ parent[s][n] = old[n]
          BY <3>4, <4>2
        <5> QED  BY <2>1, <5>1 DEF Linked
      <4> QED  BY <4>1, <4>2
    <3>6. Linked(cost, dir, parent[s], start)
      BY <3>5 DEF Linked
    <3> QED  BY <3>6 DEF dir, start
  <2> QED  BY <2>2, <2>3
<1> HIDE DEF pf, pb
<1>8. Linked(cost, request.dir, pf, request.from) /\ Linked(cost, Opposite(request.dir), pb, request.to)
  <2>1. /\ DirOf(request, "forward") = request.dir /\ DirOf(request, "backward") = Opposite(request.dir)
        /\ StartOf(request, "forward") = request.from /\ StartOf(request, "backward") = request.to
    BY DEF DirOf, StartOf
  <2>2. "forward" \in Side /\ "backward" \in Side
    BY DEF Side
  <2>3. /\ Linked(cost, DirOf(request, "forward"), parent["forward"], StartOf(request, "forward"))
        /\ Linked(cost, DirOf(request, "backward"), parent["backward"], StartOf(request, "backward"))
    BY <1>7, <2>2
  <2> QED  BY <2>1, <2>3 DEF pf, pb
<1>9. Walks(cost, request.dir, nodes, rels)
  <2> DEFINE from == request.from
             to == request.to
             dir == request.dir
  <2>1. Leads(pf, from, l.node, forth) /\ Leads(pb, to, l.node, back)
        /\ Linked(cost, dir, pf, from) /\ Linked(cost, Opposite(dir), pb, to)
    BY <1>4, <1>8
  <2> HIDE DEF from, to, dir
  <2>2. Walks(cost, dir, Reverse(NodesOf(forth)) \o Tail(NodesOf(back)), Reverse(RelsOf(forth)) \o RelsOf(back))
    BY <1>4, <2>1, MeetingWalks
  <2> QED  BY <2>2 DEF dir
<1>10. GoodPath(nodes, rels, request.from, request.to) /\ Len(rels) = Len(forth) + Len(back) - 2
  BY <1>4, MeetingIsPath
<1>11. work'.nodes = nodes /\ work'.rels = rels
  BY <1>1 DEF JoinedPath
<1> HIDE DEF nodes, rels
<1> DEFINE hf == work.hops["forward"]
           hb == work.hops["backward"]
           ball == BallIn(cost, request.from, request.dir)
           L == Len(rels)
<1>12. hf \in Nat /\ hb \in Nat /\ hf + hb <= request.max
  BY <1>3 DEF ShortestOK, ShortestWork, Side
<1>13. L \in Nat /\ L <= hf + hb /\ L <= request.max
  <2>1. Len(forth) \in Nat /\ Len(back) \in Nat
    BY <1>4 DEF Leads
  <2>2. L \in Nat
    BY <1>9 DEF Walks
  <2>3. L = Len(forth) + Len(back) - 2
    BY <1>10
  <2>4. Len(forth) - 1 <= hf /\ Len(back) - 1 <= hb
    BY <1>4
  <2>5. request.max \in Nat
    BY <1>3
  <2> HIDE DEF L, hf, hb
  <2>6. L <= hf + hb
    BY <1>12, <2>1, <2>2, <2>3, <2>4
  <2> QED  BY <1>12, <2>2, <2>5, <2>6
<1>14. request.from \in Node
  BY <1>3, SearchesAssumption
<1>15. request.to \in ball[L]
  <2>1. \A i \in 1 .. L : /\ nodes[i + 1] \in Node /\ rels[i] \in Rel
                          /\ Joins(cost, request.dir, nodes[i], nodes[i + 1], rels[i])
    BY <1>9 DEF Walks
  <2>2. nodes[1] = request.from
    BY <1>10 DEF GoodPath
  <2>3. nodes[L + 1] \in ball[L]
    <3> HIDE DEF L
    <3> QED  BY <1>13, <1>14, <2>1, <2>2, WaysStayInBalls
  <2>4. nodes[L + 1] = request.to
    BY <1>10 DEF GoodPath, Last
  <2> QED  BY <2>3, <2>4
<1>16. request.to \in ball[request.max]
  <2>1. ball[L] \subseteq ball[request.max]
    <3> HIDE DEF L
    <3> QED  BY <1>3, <1>13, <1>14, BallsGrow
  <2> QED  BY <1>15, <2>1
<1>17. ASSUME L # 0 PROVE request.to \notin ball[L - 1]
  <2> DEFINE a == DepthReached(work, "forward")
             b == DepthReached(work, "backward")
  <2>1. a \in Nat /\ b \in Nat /\ a + b = hf + hb - 1
    <3>1. work.hops[side] - 1 \in Nat /\ side \in Side
          /\ DepthReached(work, side) = work.hops[side] - 1
          /\ DepthReached(work, Other(side)) = work.hops[Other(side)]
      BY <1>2, ReadingSide
    <3>2. CASE side = "forward"
      <4>1. Other(side) = "backward"
        BY <3>2 DEF Other
      <4> QED  BY <1>12, <3>1, <3>2, <4>1
    <3>3. CASE side = "backward"
      <4>1. Other(side) = "forward"
        BY <3>3 DEF Other
      <4> QED  BY <1>12, <3>1, <3>3, <4>1
    <3> QED  BY <3>1, <3>2, <3>3 DEF Side
  <2>2. request.to \notin ball[a + b]
    <3>1. \A n : ~(n \in DOMAIN work.parent["forward"] /\ n \in DOMAIN work.parent["backward"])
      BY <1>3 DEF ShortestOK
    <3> QED  BY <1>3, <2>1, <3>1, NoShorterWay
  <2> HIDE DEF a, b
  <2>3. L - 1 \in Nat /\ a + b \in Nat /\ L - 1 <= a + b
    BY <1>12, <1>13, <1>17, <2>1
  <2> DEFINE k == L - 1
             m == a + b
  <2>4. k \in Nat /\ m \in Nat /\ k <= m
    BY <2>3
  <2> HIDE DEF k, m
  <2>5. ball[k] \subseteq ball[m]
    BY <1>14, <2>4, BallsGrow
  <2> QED  BY <2>2, <2>5 DEF k, m
<1> DEFINE p == [nodes |-> work'.nodes, rels |-> work'.rels, weight |-> work'.weight]
<1>18. p.nodes = nodes /\ p.rels = rels
  BY <1>11
<1>19. IsPathIn(cost, nodes, rels, request)
  <2>1. \A i \in 1 .. Len(rels) : Joins(cost, request.dir, nodes[i], nodes[i + 1], rels[i])
    BY <1>9 DEF Walks
  <2> QED  BY <1>10, <2>1 DEF IsPathIn, GoodPath
<1> HIDE DEF p
<1>20. ShortestAnswer(cost, request, p)
  BY <1>16, <1>17, <1>18, <1>19 DEF ShortestAnswer
<1>21. work'.rels \in Seq({r \in Rel : cost[r] # Gone})
  BY <1>9, <1>11 DEF Walks
<1> QED  BY <1>2, <1>20, <1>21 DEF FoundExactly, p

\* A side that finds no new node has seen all it can.
LEMMA EmptyLevelIsClosed ==
    ASSUME NEW c, NEW q \in Request, NEW w, NEW s \in Side, w \in ShortestWork, SeenExactly(c, q, w, s), w.level[s] = {},
           StartOf(q, s) \in DOMAIN w.parent[s], NEW j \in Nat
    PROVE  BallIn(c, StartOf(q, s), DirOf(q, s))[j] \subseteq DOMAIN w.parent[s]
<1> DEFINE seen == DOMAIN w.parent[s]
           start == StartOf(q, s)
           dir == DirOf(q, s)
<1>1. start \in Node /\ seen \in SUBSET Node /\ start \in seen
  <2>1. w.parent[s] \in Parents
    BY DEF ShortestWork
  <2> QED  BY <2>1, StartsAre DEF Parents
<1>2. \A n \in seen : \A l \in LinksIn(c, n, dir) : l.node \in seen
  BY DEF SeenExactly
<1> HIDE DEF seen, start, dir
<1>3. BallIn(c, start, dir)[j] \subseteq seen
  BY <1>1, <1>2, ClosedHoldsBalls
<1> QED  BY <1>3 DEF seen, start, dir

\* Where a side has nowhere to go, or the hops are spent, there is no path.
LEMMA NotFoundIsRight ==
    ASSUME IInv, NotFound, ShortestExactly(cost, request, work)
    PROVE  ShortestAnswer(cost, request, NoPath)
<1>1. work.at = "level" /\ request.kind = "shortest" /\ ~GoesOn
  BY DEF NotFound, At
<1>2. ShortestOK(request, work) /\ work \in ShortestWork /\ request.max \in Nat /\ request \in Request
  BY <1>1, ShortestParts
<1> DEFINE hf == work.hops["forward"]
           hb == work.hops["backward"]
           seenf == DOMAIN work.parent["forward"]
           seenb == DOMAIN work.parent["backward"]
           ball == BallIn(cost, request.from, request.dir)
<1>3. hf \in Nat /\ hb \in Nat /\ hf + hb <= request.max
  BY <1>2 DEF ShortestOK, ShortestWork, Side
<1>4. DepthReached(work, "forward") = hf /\ DepthReached(work, "backward") = hb
  BY <1>1 DEF DepthReached
<1>5. \A n : ~(n \in seenf /\ n \in seenb)
  BY <1>2 DEF ShortestOK
<1>6. \A s \in Side : StartOf(request, s) \in DOMAIN work.parent[s]
  BY <1>2 DEF ShortestOK, Layered, Rooted
<1>7. \A s \in Side : SeenExactly(cost, request, work, s)
  BY DEF ShortestExactly
<1>8. /\ DirOf(request, "forward") = request.dir /\ DirOf(request, "backward") = Opposite(request.dir)
      /\ StartOf(request, "forward") = request.from /\ StartOf(request, "backward") = request.to
      /\ "forward" \in Side /\ "backward" \in Side
  BY DEF DirOf, StartOf, Side
<1>9. request.from \in Node /\ request.to \in Node /\ request.from \in seenf /\ request.to \in seenb
  <2>1. request.from \in Node /\ request.to \in Node
    BY <1>2, SearchesAssumption
  <2> QED  BY <1>6, <1>8, <2>1
<1>10. request.to \notin ball[request.max]
  <2>1. CASE work.level["forward"] = {}
    <3>1. BallIn(cost, StartOf(request, "forward"), DirOf(request, "forward"))[request.max] \subseteq seenf
      BY <1>2, <1>6, <1>7, <1>8, <2>1, EmptyLevelIsClosed
    <3>2. ball[request.max] \subseteq seenf
      BY <1>8, <3>1
    <3> QED  BY <1>5, <1>9, <3>2
  <2>2. CASE work.level["backward"] = {}
    <3>1. BallIn(cost, StartOf(request, "backward"), DirOf(request, "backward"))[request.max] \subseteq seenb
      BY <1>2, <1>6, <1>7, <1>8, <2>2, EmptyLevelIsClosed
    <3>2. BallIn(cost, request.to, Opposite(request.dir))[request.max] \subseteq seenb
      BY <1>8, <3>1
    <3> SUFFICES ASSUME request.to \in ball[request.max] PROVE FALSE
      OBVIOUS
    <3>3. 0 \in Nat /\ request.to \in ball[0 + request.max]
      BY <1>2
    <3>4. PICK k \in Node : k \in ball[0] /\ k \in BallIn(cost, request.to, Opposite(request.dir))[request.max]
      BY <1>2, <1>9, <3>3, HalfWay
    <3>5. ball[0] = {request.from}
      <4>1. Balls(cost, request.from, request.dir, ball)
        BY <1>9, BallsAre
      <4> QED  BY <4>1 DEF Balls
    <3> QED  BY <1>5, <1>9, <3>2, <3>4, <3>5
  <2>3. CASE ~(HopsSpent < request.max)
    <3>1. hf + hb = request.max
      BY <1>2, <1>3, <2>3 DEF HopsSpent
    <3>2. request.to \notin ball[hf + hb]
      BY <1>2, <1>3, <1>4, <1>5, NoShorterWay
    <3> QED  BY <3>1, <3>2
  <2> QED  BY <1>1, <2>1, <2>2, <2>3 DEF GoesOn, Side
<1> QED  BY <1>10 DEF ShortestAnswer

\* Relationships that are all there are all collected.
LEMMA AllStillThere ==
    ASSUME NEW rels \in Seq({r \in Rel : cost[r] # Gone})
    PROVE  StillThere(rels) = rels
<1> DEFINE L == Len(rels)
           there == {i \in 1 .. L : cost[rels[i]] # Gone}
<1>1. L \in Nat /\ rels = [n \in 1 .. L |-> rels[n]]
  OBVIOUS
<1>2. there = 1 .. L
  OBVIOUS
<1>3. StillThere(rels) = [n \in 1 .. Cardinality(there) |->
         rels[CHOOSE i \in there : Cardinality({j \in there : j <= i}) = n]]
  BY DEF StillThere
<1> HIDE DEF L, there
<1>4. \A i \in Nat : Cardinality(1 .. i) = i
  <2> TAKE i \in Nat
  <2>1. Cardinality(1 .. i) = IF 1 > i THEN 0 ELSE i - 1 + 1
    BY FS_Interval
  <2> QED  BY <2>1
<1>5. ASSUME NEW i \in 1 .. L PROVE Cardinality({j \in there : j <= i}) = i
  <2>1. {j \in there : j <= i} = 1 .. i
    BY <1>1, <1>2
  <2>2. i \in Nat
    BY <1>1
  <2>3. Cardinality(1 .. i) = i
    BY <1>4, <2>2
  <2> QED  BY <2>1, <2>3, Zenon
<1>6. ASSUME NEW n \in 1 .. L
      PROVE  (CHOOSE i \in there : Cardinality({j \in there : j <= i}) = n) = n
  <2>1. \A i \in there : Cardinality({j \in there : j <= i}) = i
    BY <1>2, <1>5
  <2>2. n \in there
    BY <1>2
  <2> QED  BY <2>1, <2>2
<1>7. Cardinality(there) = L
  BY <1>1, <1>2, <1>4
<1>8. [n \in 1 .. Cardinality(there) |-> rels[CHOOSE i \in there : Cardinality({j \in there : j <= i}) = n]]
        = [n \in 1 .. L |-> rels[n]]
  <2> DEFINE pick(n) == CHOOSE i \in there : Cardinality({j \in there : j <= i}) = n
  <2>1. \A n \in 1 .. L : pick(n) = n
    BY <1>6
  <2> HIDE DEF pick
  <2>2. [n \in 1 .. L |-> rels[pick(n)]] = [n \in 1 .. L |-> rels[n]]
    BY <2>1
  <2>3. [n \in 1 .. Cardinality(there) |-> rels[pick(n)]] = [n \in 1 .. L |-> rels[n]]
    BY <1>7, <2>2
  <2> QED  BY <2>3 DEF pick
<1> QED  BY <1>1, <1>3, <1>8

-----------------------------------------------------------------------------
(* Weights *)

\* sum[i] is what the first i relationships cost together.
Sums(c, col, q, nodes, rels, sum) ==
    /\ sum \in [0 .. Len(rels) -> Nat]
    /\ sum[0] = 0
    /\ \A i \in 1 .. Len(rels) : sum[i] = sum[i - 1] + PriceIn(c, col, q, nodes[i], rels[i])

LEMMA PriceIsNumber == \A c, col, q, n, r : PriceIn(c, col, q, n, r) \in Nat
BY SearchesAssumption DEF PriceIn

\* The weight of a path is the last sum, and none is greater.
LEMMA WeightIs ==
    ASSUME NEW c, NEW col, NEW q, NEW p, Len(p.rels) \in Nat
    PROVE  \E sum : Sums(c, col, q, p.nodes, p.rels, sum) /\ WeightIn(c, col, q, p) = sum[Len(p.rels)]
<1> DEFINE rels == p.rels
           toll(i) == PriceIn(c, col, q, p.nodes[i], p.rels[i])
           L == Len(rels)
           price(i) == IF i \in 1 .. L THEN toll(i) ELSE 0
           T == Nat \X Nat
           a == <<0, 0>>
           G == [t \in T |-> <<t[1] + 1, t[2] + price(t[1] + 1)>>]
<1>1. L \in Nat /\ \A i : price(i) \in Nat
  BY PriceIsNumber
<1>2. \A i \in 1 .. L : price(i) = toll(i)
  OBVIOUS
<1> HIDE DEF L, price, toll
<1>3. a \in T /\ G \in [T -> T]
  <2>1. \A t \in T : t[1] + 1 \in Nat /\ t[2] + price(t[1] + 1) \in Nat
    BY <1>1
  <2> QED  BY <2>1
<1>4. PICK f \in [Nat -> T] : f[0] = a /\ \A i \in Nat : f[i + 1] = G[f[i]]
  <2> HIDE DEF T, a, G
  <2>1. Forever(T, a, G)
    BY <1>3, FollowedForever
  <2> QED  BY <2>1, Zenon DEF Forever
<1> DEFINE Counts == {i \in Nat : f[i][1] = i}
<1>5. \A i \in Nat : f[i + 1] = <<f[i][1] + 1, f[i][2] + price(f[i][1] + 1)>>
  BY <1>4
<1>6. \A i \in Nat : f[i][1] = i
  <2>1. 0 \in Counts
    BY <1>4
  <2>2. ASSUME NEW i \in Nat, i \in Counts PROVE i + 1 \in Counts
    <3>1. i + 1 \in Nat /\ f[i][1] = i
      BY <2>2
    <3>2. f[i + 1][1] = f[i][1] + 1
      <4> HIDE DEF T, a, G, Counts
      <4> QED  BY <1>5
    <3> QED  BY <3>1, <3>2
  <2> HIDE DEF Counts
  <2>3. \A i \in Nat : i \in Counts
    BY <2>1, <2>2, EveryNumber
  <2> QED  BY <2>3 DEF Counts
<1>7. \A i \in Nat : f[i + 1][2] = f[i][2] + price(i + 1) /\ f[i][2] \in Nat
  <2> TAKE i \in Nat
  <2>1. f[i][2] \in Nat
    <3>1. f[i] \in T
      BY <1>4
    <3> QED  BY <3>1
  <2> HIDE DEF T, a, G, Counts
  <2>2. f[i + 1][2] = f[i][2] + price(f[i][1] + 1)
    BY <1>5
  <2>3. f[i][1] = i
    BY <1>6
  <2> QED  BY <2>1, <2>2, <2>3
<1>8. f[0][2] = 0
  BY <1>4
<1> HIDE DEF T, a, G
<1> DEFINE s == [i \in 0 .. L |-> f[i][2]]
<1>9. s = [i \in 0 .. L |-> IF i = 0 THEN 0 ELSE s[i - 1] + toll(i)]
  <2>1. ASSUME NEW i \in 0 .. L PROVE s[i] = IF i = 0 THEN 0 ELSE s[i - 1] + toll(i)
    <3>1. CASE i = 0
      BY <1>8, <3>1
    <3>2. CASE i # 0
      <4> DEFINE j == i - 1
      <4>1. j \in Nat /\ j + 1 = i /\ j \in 0 .. L /\ i \in 1 .. L
        BY <1>1, <3>2
      <4> HIDE DEF j
      <4>2. f[i][2] = f[j][2] + price(i)
        BY <1>7, <4>1
      <4>3. s[i] = s[j] + toll(i)
        BY <1>2, <4>1, <4>2
      <4> QED  BY <3>2, <4>3 DEF j
    <3> QED  BY <3>1, <3>2
  <2>2. s = [i \in 0 .. L |-> s[i]]
    OBVIOUS
  <2> HIDE DEF s
  <2> QED  BY <2>1, <2>2
<1> HIDE DEF s
<1> DEFINE sum == CHOOSE g : g = [i \in 0 .. L |-> IF i = 0 THEN 0 ELSE g[i - 1] + toll(i)]
<1>10. WeightIn(c, col, q, p) = sum[L]
  BY DEF WeightIn, L, toll
<1>11. sum = [i \in 0 .. L |-> IF i = 0 THEN 0 ELSE sum[i - 1] + toll(i)]
  BY <1>9, Zenon
<1> HIDE DEF sum
<1>12. sum[0] = 0
  BY <1>1, <1>11
<1>13. \A i \in 1 .. L : sum[i] = sum[i - 1] + toll(i)
  <2> TAKE i \in 1 .. L
  <2>1. i \in 0 .. L /\ i # 0
    BY <1>1
  <2> QED  BY <1>11, <2>1
<1> DEFINE Number == {i \in Nat : i <= L => sum[i] \in Nat}
<1>14. \A i \in Nat : i <= L => sum[i] \in Nat
  <2>1. 0 \in Number
    BY <1>12
  <2>2. ASSUME NEW i \in Nat, i \in Number PROVE i + 1 \in Number
    <3> SUFFICES ASSUME i + 1 <= L PROVE sum[i + 1] \in Nat
      OBVIOUS
    <3>1. i <= L /\ i + 1 \in 1 .. L /\ i + 1 - 1 = i
      BY <1>1
    <3>2. sum[i + 1] = sum[i] + toll(i + 1)
      BY <1>13, <3>1
    <3>3. sum[i] \in Nat /\ toll(i + 1) \in Nat
      BY <1>1, <1>2, <2>2, <3>1
    <3> QED  BY <3>2, <3>3
  <2> HIDE DEF Number
  <2>3. \A i \in Nat : i \in Number
    BY <2>1, <2>2, EveryNumber
  <2> QED  BY <2>3 DEF Number
<1>15. sum \in [0 .. L -> Nat]
  <2>1. sum = [i \in 0 .. L |-> sum[i]]
    BY <1>11
  <2>2. \A i \in 0 .. L : sum[i] \in Nat
    BY <1>1, <1>14
  <2> QED  BY <2>1, <2>2
<1>16. Sums(c, col, q, p.nodes, p.rels, sum)
  BY <1>12, <1>13, <1>15 DEF Sums, L, toll
<1> QED  BY <1>10, <1>16 DEF L

\* Sums only grow.
LEMMA SumsGrow ==
    ASSUME NEW c, NEW col, NEW q, NEW nodes, NEW rels, Len(rels) \in Nat,
           NEW sum, Sums(c, col, q, nodes, rels, sum), NEW i \in 0 .. Len(rels)
    PROVE  sum[i] <= sum[Len(rels)]
<1> DEFINE L == Len(rels)
           toll(j) == PriceIn(c, col, q, nodes[j], rels[j])
           Grows == {k \in Nat : i + k <= L => sum[i] <= sum[i + k]}
<1>1. L \in Nat /\ sum \in [0 .. L -> Nat]
  BY DEF Sums
<1>2. \A j \in 1 .. L : sum[j] = sum[j - 1] + toll(j) /\ toll(j) \in Nat
  BY PriceIsNumber DEF Sums
<1> HIDE DEF L, toll
<1>3. 0 \in Grows
  BY <1>1 DEF L
<1>4. ASSUME NEW k \in Nat, k \in Grows PROVE k + 1 \in Grows
  <2> SUFFICES ASSUME i + (k + 1) <= L PROVE sum[i] <= sum[i + (k + 1)]
    OBVIOUS
  <2> DEFINE j == i + (k + 1)
  <2>1. i \in Nat /\ i <= L
    BY <1>1 DEF L
  <2>2. j \in 1 .. L /\ j - 1 = i + k /\ i + k \in 0 .. L /\ i + k <= L /\ j \in 0 .. L /\ i \in 0 .. L
    BY <1>1, <2>1
  <2> HIDE DEF j
  <2>3. sum[i] <= sum[i + k]
    BY <1>4, <2>2
  <2>4. sum[j] = sum[i + k] + toll(j) /\ toll(j) \in Nat
    BY <1>2, <2>2
  <2>5. sum[i] \in Nat /\ sum[i + k] \in Nat /\ sum[j] \in Nat
    BY <1>1, <2>2
  <2>6. sum[i] <= sum[j]
    BY <2>3, <2>4, <2>5
  <2> QED  BY <2>6 DEF j
<1> HIDE DEF Grows
<1>5. \A k \in Nat : k \in Grows
  BY <1>3, <1>4, EveryNumber
<1>6. L - i \in Nat /\ i + (L - i) = L /\ L <= L
  BY <1>1 DEF L
<1>7. L - i \in Grows
  BY <1>5, <1>6
<1> QED  BY <1>6, <1>7 DEF Grows, L

-----------------------------------------------------------------------------
(* Trails *)

Trail == [nodes : Seq(Node), rels : Seq(Rel)]

\* A trail and one more link.
Onward(c, q, p) ==
    {[nodes |-> Append(p.nodes, l.node), rels |-> Append(p.rels, l.rel)] :
     l \in {l \in LinksIn(c, Last(p.nodes), q.dir) : \A i \in 1 .. Len(p.rels) : p.rels[i] # l.rel}}

\* What the trails are: those one link longer go on from the others.
Trails(c, q, trails) ==
    /\ trails[0] = {[nodes |-> <<q.from>>, rels |-> <<>>]}
    /\ \A i \in Nat : trails[i + 1] = UNION {Onward(c, q, p) : p \in trails[i]}

LEMMA OnwardAre ==
    ASSUME NEW c, NEW q, NEW p \in Trail
    PROVE  Onward(c, q, p) \in SUBSET Trail
<1> SUFFICES ASSUME NEW x \in Onward(c, q, p) PROVE x \in Trail
  OBVIOUS
<1>1. PICK l \in LinksIn(c, Last(p.nodes), q.dir) : x = [nodes |-> Append(p.nodes, l.node), rels |-> Append(p.rels, l.rel)]
  BY DEF Onward
<1>2. l \in Link
  BY LinksInAre
<1>3. l.node \in Node /\ l.rel \in Rel
  BY <1>2 DEF Link
<1>4. p.nodes \in Seq(Node) /\ p.rels \in Seq(Rel)
  BY DEF Trail
<1>5. Append(p.nodes, l.node) \in Seq(Node) /\ Append(p.rels, l.rel) \in Seq(Rel)
  BY <1>3, <1>4
<1> QED  BY <1>1, <1>5 DEF Trail

\* TrailsIn is recursive as well.
LEMMA TrailsAre ==
    ASSUME NEW c, NEW q \in Request
    PROVE  Trails(c, q, TrailsIn(c, q))
<1> DEFINE T == SUBSET Trail
           start == [nodes |-> <<q.from>>, rels |-> <<>>]
           a == {start}
           more(S) == UNION {Onward(c, q, p) : p \in S}
           G == [S \in T |-> more(S)]
           trails == TrailsIn(c, q)
<1>1. a \in T
  <2>1. q.from \in Node
    BY SearchesAssumption
  <2>2. <<q.from>> \in Seq(Node) /\ <<>> \in Seq(Rel)
    BY <2>1
  <2> QED  BY <2>2 DEF Trail
<1>2. ASSUME NEW S \in T PROVE more(S) \in T
  <2>1. \A p \in S : Onward(c, q, p) \in SUBSET Trail
    BY OnwardAre
  <2> QED  BY <2>1
<1>3. G \in [T -> T]
  <2> HIDE DEF more, T
  <2> QED  BY <1>2
<1>4. PICK f \in [Nat -> T] : f[0] = a /\ \A i \in Nat : f[i + 1] = G[f[i]]
  <2> HIDE DEF T, a, G
  <2>1. Forever(T, a, G)
    BY <1>1, <1>3, FollowedForever
  <2> QED  BY <2>1, Zenon DEF Forever
<1>5. \A i \in Nat : f[i + 1] = more(f[i])
  <2> HIDE DEF more, T
  <2> QED  BY <1>4
<1> HIDE DEF more, a, T, G
<1>6. f = [i \in Nat |-> IF i = 0 THEN a ELSE more(f[i - 1])]
  <2>1. ASSUME NEW i \in Nat PROVE f[i] = IF i = 0 THEN a ELSE more(f[i - 1])
    <3>1. CASE i = 0
      BY <1>4, <3>1
    <3>2. CASE i # 0
      <4>1. i - 1 \in Nat /\ i - 1 + 1 = i
        BY <3>2
      <4>2. f[i - 1 + 1] = more(f[i - 1])
        BY <1>5, <4>1
      <4> QED  BY <3>2, <4>1, <4>2
    <3> QED  BY <3>1, <3>2
  <2>2. f = [i \in Nat |-> f[i]]
    OBVIOUS
  <2> QED  BY <2>1, <2>2
<1>7. trails = CHOOSE g : g = [i \in Nat |-> IF i = 0 THEN a ELSE more(g[i - 1])]
  BY Zenon DEF TrailsIn, Onward, a, more
<1> HIDE DEF trails
<1>8. trails = [i \in Nat |-> IF i = 0 THEN a ELSE more(trails[i - 1])]
  BY <1>6, <1>7, Zenon
<1>9. trails[0] = a
  BY <1>8
<1>10. ASSUME NEW i \in Nat PROVE trails[i + 1] = more(trails[i])
  <2>1. i + 1 \in Nat /\ i + 1 # 0 /\ i + 1 - 1 = i
    OBVIOUS
  <2>2. trails[i + 1] = more(trails[i + 1 - 1])
    BY <1>8, <2>1
  <2> QED  BY <2>1, <2>2
<1> QED  BY <1>9, <1>10 DEF Trails, trails, a, more

\* A trail of i links.
IsTrail(c, q, i, p) ==
    /\ p \in Trail /\ Len(p.rels) = i /\ Len(p.nodes) = i + 1
    /\ p.nodes[1] = q.from
    /\ \A j \in 1 .. i : Joins(c, q.dir, p.nodes[j], p.nodes[j + 1], p.rels[j])

LEMMA OnwardIsTrail ==
    ASSUME NEW c, NEW q, NEW i \in Nat, NEW p, IsTrail(c, q, i, p), NEW x \in Onward(c, q, p)
    PROVE  IsTrail(c, q, i + 1, x)
<1>1. PICK l \in LinksIn(c, Last(p.nodes), q.dir) : x = [nodes |-> Append(p.nodes, l.node), rels |-> Append(p.rels, l.rel)]
  BY DEF Onward
<1>2. /\ p \in Trail /\ Len(p.rels) = i /\ Len(p.nodes) = i + 1
      /\ p.nodes[1] = q.from
      /\ \A j \in 1 .. i : Joins(c, q.dir, p.nodes[j], p.nodes[j + 1], p.rels[j])
  BY DEF IsTrail
<1>3. l \in Link /\ l = [node |-> l.node, rel |-> l.rel]
  BY LinksInAre
<1>4. l.node \in Node /\ l.rel \in Rel
  BY <1>3 DEF Link
<1>5. Joins(c, q.dir, p.nodes[i + 1], l.node, l.rel)
  BY <1>2, <1>3 DEF Joins, Last
<1> DEFINE N == p.nodes
           R == p.rels
           n == l.node
           r == l.rel
<1>6. N \in Seq(Node) /\ R \in Seq(Rel) /\ Len(R) = i /\ Len(N) = i + 1
  BY <1>2 DEF Trail
<1> HIDE DEF N, R, n, r
<1>7. /\ Append(N, n) \in Seq(Node) /\ Len(Append(N, n)) = i + 2
      /\ \A j \in 1 .. i + 1 : Append(N, n)[j] = N[j]
      /\ Append(N, n)[i + 2] = n
  BY <1>4, <1>6 DEF n
<1>8. /\ Append(R, r) \in Seq(Rel) /\ Len(Append(R, r)) = i + 1
      /\ \A j \in 1 .. i : Append(R, r)[j] = R[j]
      /\ Append(R, r)[i + 1] = r
  BY <1>4, <1>6 DEF r
<1>9. x.nodes = Append(N, n) /\ x.rels = Append(R, r) /\ x = [nodes |-> x.nodes, rels |-> x.rels]
  BY <1>1 DEF N, R, n, r
<1>10. ASSUME NEW j \in 1 .. i + 1 PROVE Joins(c, q.dir, x.nodes[j], x.nodes[j + 1], x.rels[j])
  <2>1. CASE j = i + 1
    <3>1. x.nodes[j] = N[i + 1] /\ x.nodes[j + 1] = n /\ x.rels[j] = r
      BY <1>7, <1>8, <1>9, <2>1
    <3> QED  BY <1>5, <3>1 DEF N, n, r
  <2>2. CASE j # i + 1
    <3>1. j \in 1 .. i /\ j \in 1 .. i + 1 /\ j + 1 \in 1 .. i + 1
      BY <2>2
    <3>2. x.nodes[j] = N[j] /\ x.nodes[j + 1] = N[j + 1] /\ x.rels[j] = R[j]
      BY <1>7, <1>8, <1>9, <3>1
    <3> QED  BY <1>2, <3>1, <3>2 DEF N, R
  <2> QED  BY <2>1, <2>2
<1>11. x \in Trail
  BY <1>7, <1>8, <1>9 DEF Trail
<1>12. x.nodes[1] = q.from
  <2>1. 1 \in 1 .. i + 1
    OBVIOUS
  <2> QED  BY <1>2, <1>7, <1>9, <2>1 DEF N
<1>13. Len(x.rels) = i + 1 /\ Len(x.nodes) = i + 1 + 1
  BY <1>7, <1>8, <1>9
<1> QED  BY <1>10, <1>11, <1>12, <1>13 DEF IsTrail

\* The trails of i links are trails of i links.
LEMMA AllAreTrails ==
    ASSUME NEW c, NEW q \in Request
    PROVE  \A i \in Nat : \A p \in TrailsIn(c, q)[i] : IsTrail(c, q, i, p)
<1> DEFINE trails == TrailsIn(c, q)
           Holds == {i \in Nat : \A p \in trails[i] : IsTrail(c, q, i, p)}
<1>1. Trails(c, q, trails)
  BY TrailsAre
<1> HIDE DEF trails
<1>2. 0 \in Holds
  <2> SUFFICES ASSUME NEW p \in trails[0] PROVE IsTrail(c, q, 0, p)
    OBVIOUS
  <2>1. p = [nodes |-> <<q.from>>, rels |-> <<>>]
    BY <1>1 DEF Trails
  <2>2. q.from \in Node
    BY SearchesAssumption
  <2>3. p \in Trail /\ Len(p.rels) = 0 /\ Len(p.nodes) = 1 /\ p.nodes[1] = q.from
    BY <2>1, <2>2 DEF Trail
  <2>4. \A j \in 1 .. 0 : FALSE
    OBVIOUS
  <2> QED  BY <2>3, <2>4 DEF IsTrail
<1>3. ASSUME NEW i \in Nat, i \in Holds PROVE i + 1 \in Holds
  <2> SUFFICES ASSUME NEW x \in trails[i + 1] PROVE IsTrail(c, q, i + 1, x)
    OBVIOUS
  <2>1. PICK p \in trails[i] : x \in Onward(c, q, p)
    BY <1>1 DEF Trails
  <2>2. IsTrail(c, q, i, p)
    BY <1>3
  <2> QED  BY <2>1, <2>2, OnwardIsTrail
<1> HIDE DEF Holds
<1>4. \A i \in Nat : i \in Holds
  BY <1>2, <1>3, EveryNumber
<1> QED  BY <1>4 DEF Holds, trails

\* The first i links of a way.
Part(nodes, rels, i) == [nodes |-> [j \in 1 .. i + 1 |-> nodes[j]], rels |-> [j \in 1 .. i |-> rels[j]]]

LEMMA PartsGrow ==
    ASSUME NEW nodes, NEW rels, NEW i \in Nat
    PROVE  Part(nodes, rels, i + 1)
             = [nodes |-> Append(Part(nodes, rels, i).nodes, nodes[i + 1 + 1]), rels |-> Append(Part(nodes, rels, i).rels, rels[i + 1])]
<1> DEFINE N == [j \in 1 .. i + 1 |-> nodes[j]]
           R == [j \in 1 .. i |-> rels[j]]
           S == {nodes[j] : j \in 1 .. i + 2}
           T == {rels[j] : j \in 1 .. i + 1}
<1>1. i + 1 \in Nat /\ i + 2 \in Nat /\ i + 1 + 1 = i + 2
  OBVIOUS
<1>2. \A j \in 1 .. i + 1 : j \in 1 .. i + 2 /\ nodes[j] \in S
  OBVIOUS
<1>3. \A j \in 1 .. i : j \in 1 .. i + 1 /\ rels[j] \in T
  OBVIOUS
<1>4. nodes[i + 2] \in S /\ rels[i + 1] \in T
  OBVIOUS
<1> HIDE DEF S, T
<1>5. N \in Seq(S) /\ Len(N) = i + 1 /\ \A j \in 1 .. i + 1 : N[j] = nodes[j]
  BY <1>1, <1>2
<1>6. R \in Seq(T) /\ Len(R) = i /\ \A j \in 1 .. i : R[j] = rels[j]
  BY <1>1, <1>3
<1> DEFINE n == nodes[i + 2]
           r == rels[i + 1]
<1> HIDE DEF N, R, n, r
<1>7. Append(N, n) = [j \in 1 .. i + 2 |-> nodes[j]]
  <2>1. Append(N, n) = [j \in 1 .. i + 2 |-> IF j = i + 2 THEN n ELSE N[j]]
    <3>1. n \in S
      BY <1>4 DEF n
    <3>2. Append(N, n) \in Seq(S) /\ Len(Append(N, n)) = i + 2
      BY <1>1, <1>5, <3>1
    <3>3. Append(N, n) = [j \in 1 .. i + 2 |-> Append(N, n)[j]]
      <4> DEFINE more == Append(N, n)
      <4>1. more \in Seq(S) /\ Len(more) = i + 2
        BY <3>2
      <4> HIDE DEF more
      <4>2. more = [j \in 1 .. i + 2 |-> more[j]]
        BY <4>1
      <4> QED  BY <4>2 DEF more
    <3>4. \A j \in 1 .. i + 2 : Append(N, n)[j] = IF j = i + 2 THEN n ELSE N[j]
      BY <1>1, <1>5, <3>1
    <3> QED  BY <3>3, <3>4
  <2>2. \A j \in 1 .. i + 2 : (IF j = i + 2 THEN n ELSE N[j]) = nodes[j]
    <3> TAKE j \in 1 .. i + 2
    <3>1. j # i + 2 => j \in 1 .. i + 1
      OBVIOUS
    <3> QED  BY <1>5, <3>1 DEF n
  <2> QED  BY <2>1, <2>2
<1>8. Append(R, r) = [j \in 1 .. i + 1 |-> rels[j]]
  <2>1. Append(R, r) = [j \in 1 .. i + 1 |-> IF j = i + 1 THEN r ELSE R[j]]
    <3>1. r \in T
      BY <1>4 DEF r
    <3>2. Append(R, r) \in Seq(T) /\ Len(Append(R, r)) = i + 1
      BY <1>1, <1>6, <3>1
    <3>3. Append(R, r) = [j \in 1 .. i + 1 |-> Append(R, r)[j]]
      <4> DEFINE more == Append(R, r)
      <4>1. more \in Seq(T) /\ Len(more) = i + 1
        BY <3>2
      <4> HIDE DEF more
      <4>2. more = [j \in 1 .. i + 1 |-> more[j]]
        BY <4>1
      <4> QED  BY <4>2 DEF more
    <3>4. \A j \in 1 .. i + 1 : Append(R, r)[j] = IF j = i + 1 THEN r ELSE R[j]
      BY <1>1, <1>6, <3>1
    <3> QED  BY <3>3, <3>4
  <2>2. \A j \in 1 .. i + 1 : (IF j = i + 1 THEN r ELSE R[j]) = rels[j]
    <3> TAKE j \in 1 .. i + 1
    <3>1. j # i + 1 => j \in 1 .. i
      OBVIOUS
    <3> QED  BY <1>6, <3>1 DEF r
  <2> QED  BY <2>1, <2>2
<1>9. Part(nodes, rels, i + 1) = [nodes |-> [j \in 1 .. i + 2 |-> nodes[j]], rels |-> [j \in 1 .. i + 1 |-> rels[j]]]
  BY <1>1 DEF Part
<1>10. Part(nodes, rels, i).nodes = N /\ Part(nodes, rels, i).rels = R
  BY DEF Part, N, R
<1> QED  BY <1>1, <1>7, <1>8, <1>9, <1>10 DEF n, r

\* Where relationships do not repeat, a way is a trail.
LEMMA WaysAreTrails ==
    ASSUME NEW c, NEW q \in Request, NEW nodes \in Seq(Node), NEW rels \in Seq(Rel),
           Len(nodes) = Len(rels) + 1, nodes[1] = q.from,
           \A i \in 1 .. Len(rels) : Joins(c, q.dir, nodes[i], nodes[i + 1], rels[i]),
           \A i, j \in 1 .. Len(rels) : i # j => rels[i] # rels[j]
    PROVE  [nodes |-> nodes, rels |-> rels] \in TrailsIn(c, q)[Len(rels)]
<1> DEFINE trails == TrailsIn(c, q)
           L == Len(rels)
           part(i) == Part(nodes, rels, i)
           Holds == {i \in Nat : i <= L => part(i) \in trails[i]}
<1>1. Trails(c, q, trails)
  BY TrailsAre
<1>2. L \in Nat /\ nodes = [i \in 1 .. L + 1 |-> nodes[i]] /\ rels = [i \in 1 .. L |-> rels[i]]
  OBVIOUS
<1>3. /\ \A i \in 1 .. L : Joins(c, q.dir, nodes[i], nodes[i + 1], rels[i])
      /\ \A i, j \in 1 .. L : i # j => rels[i] # rels[j]
  OBVIOUS
<1> HIDE DEF trails, L
<1>4. 0 \in Holds
  <2>1. [j \in 1 .. 0 + 1 |-> nodes[j]] = <<q.from>>
    <3>1. 0 + 1 = 1 /\ 1 .. 1 = {1}
      OBVIOUS
    <3>2. [j \in 1 .. 0 + 1 |-> nodes[j]] = [j \in 1 .. 1 |-> q.from]
      BY <3>1
    <3>3. <<q.from>> = [j \in 1 .. 1 |-> q.from]
      BY <3>1
    <3> QED  BY <3>2, <3>3
  <2>2. [j \in 1 .. 0 |-> rels[j]] = <<>>
    OBVIOUS
  <2>3. part(0) = [nodes |-> <<q.from>>, rels |-> <<>>]
    BY <2>1, <2>2 DEF Part
  <2> QED  BY <1>1, <2>3 DEF Trails
<1>5. ASSUME NEW i \in Nat, i \in Holds PROVE i + 1 \in Holds
  <2> SUFFICES ASSUME i + 1 <= L PROVE part(i + 1) \in trails[i + 1]
    OBVIOUS
  <2>1. i <= L /\ i + 1 \in 1 .. L
    BY <1>2
  <2>2. part(i) \in trails[i]
    BY <1>5, <2>1
  <2> DEFINE p == part(i)
             l == [node |-> nodes[i + 1 + 1], rel |-> rels[i + 1]]
             N == p.nodes
             R == p.rels
  <2>3. N = [j \in 1 .. i + 1 |-> nodes[j]] /\ R = [j \in 1 .. i |-> rels[j]]
    BY DEF Part
  <2> HIDE DEF p
  <2>4. Len(N) = i + 1 /\ N[i + 1] = nodes[i + 1] /\ Len(R) = i
    <3> HIDE DEF N, R
    <3> QED  BY <2>3
  <2>5. l \in LinksIn(c, Last(p.nodes), q.dir)
    <3>1. Last(p.nodes) = nodes[i + 1]
      BY <2>4 DEF Last
    <3>2. Joins(c, q.dir, nodes[i + 1], nodes[i + 1 + 1], rels[i + 1])
      BY <1>3, <2>1
    <3> QED  BY <3>1, <3>2 DEF Joins
  <2>6. ASSUME NEW j \in 1 .. Len(p.rels) PROVE p.rels[j] # l.rel
    <3>1. j \in 1 .. i
      BY <2>4
    <3>2. j \in 1 .. L /\ j # i + 1
      BY <1>2, <2>1, <3>1
    <3>3. p.rels[j] = rels[j]
      BY <2>3, <3>1
    <3> QED  BY <1>3, <2>1, <3>2, <3>3
  <2>7. part(i + 1) = [nodes |-> Append(p.nodes, l.node), rels |-> Append(p.rels, l.rel)]
    <3>1. part(i + 1) = [nodes |-> Append(part(i).nodes, nodes[i + 1 + 1]), rels |-> Append(part(i).rels, rels[i + 1])]
      <4> HIDE DEF part
      <4> QED  BY PartsGrow DEF part
    <3> QED  BY <3>1 DEF p
  <2>8. part(i + 1) \in Onward(c, q, p)
    <3> HIDE DEF l, N, R, part
    <3> QED  BY <2>5, <2>6, <2>7 DEF Onward
  <2> HIDE DEF part
  <2>9. part(i + 1) \in UNION {Onward(c, q, o) : o \in trails[i]}
    BY <2>2, <2>8 DEF p
  <2> QED  BY <1>1, <2>9 DEF Trails
<1> HIDE DEF Holds
<1>6. \A i \in Nat : i \in Holds
  BY <1>4, <1>5, EveryNumber
<1>7. part(L) \in trails[L]
  <2>1. L <= L /\ L \in Holds
    BY <1>2, <1>6
  <2> HIDE DEF part
  <2> QED  BY <2>1 DEF Holds
<1>8. part(L) = [nodes |-> nodes, rels |-> rels]
  BY <1>2 DEF Part
<1> QED  BY <1>7, <1>8 DEF trails, L

\* A way from the start to the end.
Leaves(c, q, nodes, rels) ==
    /\ Walks(c, q.dir, nodes, rels)
    /\ Len(nodes) = Len(rels) + 1
    /\ nodes[1] = q.from /\ nodes[Len(rels) + 1] = q.to

\* A simple path is a way from the start to the end.
LEMMA SimpleAre ==
    ASSUME NEW c, NEW q \in Request, NEW p \in SimpleIn(c, q)
    PROVE  Leaves(c, q, p.nodes, p.rels)
<1>1. /\ p \in UNION {TrailsIn(c, q)[i] : i \in 0 .. Cardinality(Node) - 1}
      /\ Last(p.nodes) = q.to
  BY DEF SimpleIn
<1>2. PICK i \in 0 .. Cardinality(Node) - 1 : p \in TrailsIn(c, q)[i]
  BY <1>1
<1>3. i \in Nat
  BY <1>2, SearchesAssumption, FS_CardinalityType
<1>4. IsTrail(c, q, i, p)
  BY <1>2, <1>3, AllAreTrails
<1>5. /\ p \in Trail /\ Len(p.rels) = i /\ Len(p.nodes) = i + 1
      /\ p.nodes[1] = q.from
      /\ \A j \in 1 .. i : Joins(c, q.dir, p.nodes[j], p.nodes[j + 1], p.rels[j])
  BY <1>4 DEF IsTrail
<1> DEFINE N == p.nodes
           R == p.rels
<1>6. N \in Seq(Node) /\ R \in Seq(Rel) /\ Len(R) = i /\ Len(N) = i + 1
  BY <1>5 DEF Trail
<1>7. N[Len(R) + 1] = q.to
  BY <1>1, <1>5 DEF Last
<1> HIDE DEF N, R
<1>8. \A j \in 1 .. Len(R) : N[j] \in Node /\ N[j + 1] \in Node /\ Joins(c, q.dir, N[j], N[j + 1], R[j])
  <2> TAKE j \in 1 .. Len(R)
  <2>1. j \in 1 .. i /\ j \in 1 .. Len(N) /\ j + 1 \in 1 .. Len(N)
    BY <1>3, <1>6
  <2> QED  BY <1>5, <1>6, <2>1 DEF N, R
<1>9. Walks(c, q.dir, N, R)
  BY <1>6, <1>8, LinkedWalks
<1> QED  BY <1>5, <1>7, <1>9 DEF Leaves, N, R

\* A way whose nodes do not repeat takes no relationship twice.
LEMMA SimpleWays ==
    ASSUME NEW c, NEW dir, NEW nodes \in Seq(Node), NEW rels, Walks(c, dir, nodes, rels),
           Len(nodes) = Len(rels) + 1,
           \A i, j \in 1 .. Len(nodes) : i # j => nodes[i] # nodes[j]
    PROVE  \A i, j \in 1 .. Len(rels) : i # j => rels[i] # rels[j]
<1> DEFINE L == Len(rels)
<1>1. L \in Nat /\ Len(nodes) = L + 1
  BY DEF Walks
<1>2. \A i \in 1 .. L : nodes[i] \in Node /\ nodes[i + 1] \in Node /\ Joins(c, dir, nodes[i], nodes[i + 1], rels[i])
  BY DEF Walks
<1>3. \A i, j \in 1 .. L + 1 : i # j => nodes[i] # nodes[j]
  BY <1>1
<1> HIDE DEF L
<1>4. \A i \in 1 .. L : Ends[rels[i]] = <<nodes[i], nodes[i + 1]>> \/ Ends[rels[i]] = <<nodes[i + 1], nodes[i]>>
  <2> TAKE i \in 1 .. L
  <2> DEFINE a == nodes[i]
             b == nodes[i + 1]
             r == rels[i]
  <2>1. a \in Node /\ b \in Node /\ Joins(c, dir, a, b, r)
    BY <1>2
  <2> HIDE DEF a, b, r
  <2>2. /\ r \in Rel /\ c[r] # Gone
        /\ (dir # "IN" /\ Ends[r] = <<a, b>>) \/ (dir # "OUT" /\ Ends[r] = <<b, a>>)
    BY <2>1, JoinsIs
  <2>3. Ends[r] = <<a, b>> \/ Ends[r] = <<b, a>>
    BY <2>2
  <2> QED  BY <2>3 DEF a, b, r
<1>5. ASSUME NEW i \in 1 .. L, NEW j \in 1 .. L, i < j PROVE rels[i] # rels[j]
  <2>1. i \in 1 .. L + 1 /\ i + 1 \in 1 .. L + 1 /\ j + 1 \in 1 .. L + 1 /\ j + 1 # i /\ j + 1 # i + 1
    BY <1>1, <1>5
  <2>2. nodes[j + 1] # nodes[i] /\ nodes[j + 1] # nodes[i + 1]
    BY <1>3, <2>1
  <2> DEFINE a == nodes[i]
             b == nodes[i + 1]
             d == nodes[j]
             e == nodes[j + 1]
  <2>3. Ends[rels[i]] = <<a, b>> \/ Ends[rels[i]] = <<b, a>>
    BY <1>4
  <2>4. Ends[rels[j]] = <<d, e>> \/ Ends[rels[j]] = <<e, d>>
    BY <1>4
  <2>5. e # a /\ e # b
    BY <2>2
  <2> HIDE DEF a, b, d, e
  <2> QED  BY <2>3, <2>4, <2>5
<1>6. ASSUME NEW i \in 1 .. L, NEW j \in 1 .. L, i # j PROVE rels[i] # rels[j]
  <2>1. i < j \/ j < i
    BY <1>1, <1>6
  <2> QED  BY <1>5, <2>1
<1> QED  BY <1>6 DEF L

\* And every such way whose nodes do not repeat is a simple path: it has no more nodes than there
\* are.
LEMMA SimpleHas ==
    ASSUME NEW c, NEW q \in Request, NEW nodes \in Seq(Node), NEW rels, Leaves(c, q, nodes, rels),
           \A i, j \in 1 .. Len(nodes) : i # j => nodes[i] # nodes[j]
    PROVE  [nodes |-> nodes, rels |-> rels] \in SimpleIn(c, q)
<1> DEFINE L == Len(rels)
           p == [nodes |-> nodes, rels |-> rels]
<1>1. /\ Walks(c, q.dir, nodes, rels) /\ Len(nodes) = L + 1
      /\ nodes[1] = q.from /\ nodes[L + 1] = q.to
  BY DEF Leaves
<1>2. rels \in Seq({r \in Rel : c[r] # Gone}) /\ L \in Nat
  BY <1>1 DEF Walks
<1>3. rels \in Seq(Rel)
  <2> DEFINE There == {r \in Rel : c[r] # Gone}
  <2>1. rels \in Seq(There) /\ \A r \in There : r \in Rel
    BY <1>2
  <2> HIDE DEF There
  <2>2. rels = [i \in 1 .. L |-> rels[i]] /\ \A i \in 1 .. L : rels[i] \in Rel
    BY <2>1
  <2> QED  BY <1>2, <2>2
<1>4. \A i \in 1 .. L : Joins(c, q.dir, nodes[i], nodes[i + 1], rels[i])
  BY <1>1 DEF Walks
<1>5. \A i, j \in 1 .. L : i # j => rels[i] # rels[j]
  BY <1>1, SimpleWays
<1>6. p \in TrailsIn(c, q)[L]
  BY <1>1, <1>3, <1>4, <1>5, WaysAreTrails
<1>7. L \in 0 .. Cardinality(Node) - 1
  <2>1. IsFiniteSet(Node) /\ Cardinality(Node) \in Nat
    BY SearchesAssumption, FS_CardinalityType
  <2> SUFFICES ASSUME Cardinality(Node) < L + 1 PROVE FALSE
    BY <1>2, <2>1
  <2>2. 1 \in Int /\ L + 1 \in Int /\ L + 1 \in Nat
    BY <1>2
  <2>3. IsFiniteSet(1 .. L + 1) /\ Cardinality(1 .. L + 1) = L + 1
    <3>1. 1 <= L + 1 /\ L + 1 - 1 + 1 = L + 1
      BY <1>2
    <3> QED  BY <2>2, <3>1, FS_Interval
  <2>4. nodes \in [1 .. L + 1 -> Node]
    BY <1>1
  <2>5. \E x, y \in 1 .. L + 1 : x # y /\ nodes[x] = nodes[y]
    <3> DEFINE I == 1 .. L + 1
    <3>1. IsFiniteSet(I) /\ Cardinality(Node) < Cardinality(I) /\ nodes \in [I -> Node]
      BY <2>3, <2>4
    <3> HIDE DEF I
    <3>2. \E x, y \in I : x # y /\ nodes[x] = nodes[y]
      BY <2>1, <3>1, FS_PigeonHole
    <3> QED  BY <3>2 DEF I
  <2> QED  BY <1>1, <2>5
<1>8. p.nodes = nodes /\ Last(p.nodes) = q.to
  BY <1>1 DEF Last
<1> HIDE DEF p
<1>9. p \in UNION {TrailsIn(c, q)[i] : i \in 0 .. Cardinality(Node) - 1}
  BY <1>6, <1>7
<1>10. p \in SimpleIn(c, q)
  BY <1>8, <1>9 DEF SimpleIn
<1> QED  BY <1>10 DEF p

-----------------------------------------------------------------------------
(* Dijkstra's finds the cheapest *)

\* At first nothing is done.
LEMMA FromStartExact ==
    ASSUME NEW c, NEW col, NEW q \in Request, q.from # q.to
    PROVE  CheapestExactly(c, col, q, FromStart(q))
<1> DEFINE w == FromStart(q)
<1>1. /\ w.at = "queue" /\ w.distances = [n \in {q.from} |-> 0] /\ w.pq = {<<0, q.from>>}
  BY DEF FromStart
<1> HIDE DEF w
<1>2. Closed(c, col, q, w, {})
  BY <1>1 DEF Closed
<1>3. TopExactly(c, q, w, {})
  BY <1>1 DEF TopExactly
<1>4. {} \in SUBSET DOMAIN w.distances
  OBVIOUS
<1>5. CheapestExactly(c, col, q, w)
  BY <1>2, <1>3, <1>4, Zenon DEF CheapestExactly
<1> QED  BY <1>5 DEF w

\* The top is taken: no node done is farther.
LEMMA PopKeepsExact ==
    ASSUME IInv, Pop, request.kind = "cheapest", NEW c, NEW col, CheapestExactly(c, col, request, work)
    PROVE  CheapestExactly(c, col, request, work')
<1>1. Popped
  BY PopStep
<1>2. work.at = "queue" /\ work.pq # {} /\ Top[2] # request.to
  BY DEF Pop, At, Ending, Arrives
<1>3. CheapestOK(request, work) /\ work \in CheapestWork
  BY <1>2, CheapestParts
<1> DEFINE t == Top
           d == work.distances
<1>4. /\ t \in work.pq /\ t \in Nat \X Node
      /\ work'.distances = d /\ work'.parent = work.parent /\ work'.pq = work.pq \ {t}
      /\ \/ work'.at = "queue" /\ t[1] > d[t[2]]
         \/ /\ work'.at = "reading" /\ t[1] = d[t[2]]
            /\ work'.top = t /\ work'.pending = {t[2]} /\ work'.read = Unread
  BY <1>1 DEF Popped
<1>5. \A e \in work.pq : t[1] <= e[1]
  <2>1. \A e \in work.pq : Before(Top, e)
    <3>1. work.pq \in SUBSET (Nat \X Node)
      BY <1>3 DEF CheapestWork
    <3>2. \E a \in work.pq : \A b \in work.pq : Before(a, b)
      BY <1>2, <1>3, <3>1, LeastEntry
    <3> QED  BY <3>2 DEF Top
  <2>2. \A e \in work.pq : e[1] \in Nat
    BY <1>3 DEF CheapestWork
  <2>3. t[1] \in Nat
    BY <1>4
  <2> HIDE DEF t
  <2>4. \A e \in work.pq : t[1] < e[1] \/ t[1] = e[1]
    BY <2>1 DEF Before, t
  <2> QED  BY <2>2, <2>3, <2>4
<1>6. PICK done \in SUBSET DOMAIN d : Closed(c, col, request, work, done) /\ TopExactly(c, request, work, done)
  BY DEF CheapestExactly
<1>7. /\ done \subseteq DOMAIN d /\ request.to \notin done
      /\ \A n \in done : \A l \in LinksIn(c, n, request.dir) :
            l.node \in DOMAIN d /\ d[l.node] <= d[n] + PriceIn(c, col, request, n, l.rel)
      /\ \A n \in DOMAIN d \ done : <<d[n], n>> \in work.pq
      /\ \A n \in done, e \in work.pq : d[n] <= e[1]
      /\ \A n \in DOMAIN d \ {request.from} : \A p \in work.parent[n] :
            /\ p.node \in done /\ Joins(c, request.dir, p.node, n, p.rel)
            /\ d[n] = d[p.node] + PriceIn(c, col, request, p.node, p.rel)
  BY <1>2, <1>6 DEF Closed
<1>8. t[2] # request.to
  BY <1>2
<1> HIDE DEF t, d
<1>9. ASSUME NEW n \in DOMAIN d \ done
      PROVE  <<d[n], n>> \in work'.pq \/ (work'.at = "reading" /\ n = work'.top[2])
  <2>1. <<d[n], n>> \in work.pq
    BY <1>7
  <2>2. CASE <<d[n], n>> # t
    BY <1>4, <2>1, <2>2
  <2>3. CASE <<d[n], n>> = t
    <3>1. t[1] = d[n] /\ t[2] = n /\ t[1] \in Nat
      BY <1>4, <2>3
    <3>2. ~(t[1] > d[t[2]])
      BY <3>1
    <3> QED  BY <1>4, <3>1, <3>2
  <2> QED  BY <2>2, <2>3
<1>10. Closed(c, col, request, work', done)
  <2>1. work'.distances = d /\ work'.parent = work.parent /\ \A e \in work'.pq : e \in work.pq
    BY <1>4
  <2> QED  BY <1>7, <1>9, <2>1 DEF Closed
<1>11. TopExactly(c, request, work', done)
  <2> SUFFICES ASSUME work'.at = "reading" PROVE TopExactly(c, request, work', done)
    BY DEF TopExactly
  <2>1. work'.top = t /\ work'.pending = {t[2]} /\ work'.read = Unread /\ work'.distances = d
    BY <1>4
  <2>2. \A n \in done : d[n] <= t[1]
    BY <1>4, <1>7
  <2>3. \A e \in work'.pq : t[1] <= e[1]
    BY <1>4, <1>5
  <2>4. DOMAIN Unread = {}
    BY UnreadIs
  <2> QED  BY <1>8, <2>1, <2>2, <2>3, <2>4 DEF TopExactly
<1>12. done \in SUBSET DOMAIN work'.distances
  BY <1>4, <1>6 DEF d
<1> QED  BY <1>10, <1>11, <1>12, Zenon DEF CheapestExactly

LEMMA LinksArriveAtTheTop ==
    ASSUME IInv, NEW n \in Node, NodeGetLinksPeered(n), request.kind = "cheapest", CheapestExactly(cost, filled, request, work)
    PROVE  CheapestExactly(cost, filled, request, work')
<1>1. work.at = "reading" /\ n \in work.pending
  BY DEF NodeGetLinksPeered
<1>2. CheapestOK(request, work) /\ work \in CheapestWork
  BY <1>1, CheapestParts
<1> DEFINE dir == IF "side" \in DOMAIN work /\ work.side = "backward"
                  THEN Opposite(request.dir)
                  ELSE request.dir
           more == [m \in DOMAIN work.read \cup {n} |-> IF m = n THEN LinksIn(cost, n, dir) ELSE work.read[m]]
<1>3. work' = [work EXCEPT !.pending = @ \ {n}, !.read = more]
  BY LinksThatArrive
<1>4. dir = request.dir
  <2>1. "side" \notin DOMAIN work
    BY <1>2 DEF CheapestWork
  <2> QED  BY <2>1
<1> HIDE DEF dir
<1>5. DOMAIN more = DOMAIN work.read \cup {n} /\ \A m \in DOMAIN more : more[m] = IF m = n THEN LinksIn(cost, n, request.dir) ELSE work.read[m]
  BY <1>4
<1> HIDE DEF more
<1>6. /\ work'.at = work.at /\ work'.distances = work.distances /\ work'.parent = work.parent
      /\ work'.pq = work.pq /\ work'.top = work.top
      /\ work'.pending = work.pending \ {n} /\ work'.read = more
  BY <1>2, <1>3 DEF CheapestWork
<1>7. PICK done \in SUBSET DOMAIN work.distances : Closed(cost, filled, request, work, done) /\ TopExactly(cost, request, work, done)
  BY DEF CheapestExactly
<1>8. Closed(cost, filled, request, work', done)
  <2>1. Closed(cost, filled, request, work, done)
    BY <1>7
  <2>2. /\ work'.at = work.at /\ work'.distances = work.distances /\ work'.parent = work.parent
        /\ work'.pq = work.pq /\ work'.top = work.top
    BY <1>6
  <2> QED  BY <2>1, <2>2 DEF Closed
<1>9. TopExactly(cost, request, work', done)
  <2>1. /\ work.top[2] # request.to
        /\ \A m \in done : work.distances[m] <= work.top[1]
        /\ \A e \in work.pq : work.top[1] <= e[1]
        /\ work.top[2] \in work.pending \cup DOMAIN work.read
        /\ \A m \in DOMAIN work.read : work.read[m] = LinksIn(cost, m, request.dir)
    BY <1>1, <1>7 DEF TopExactly
  <2>2. work.top[2] \in work'.pending \cup DOMAIN work'.read
    BY <1>5, <1>6, <2>1
  <2>3. \A m \in DOMAIN work'.read : work'.read[m] = LinksIn(cost, m, request.dir)
    BY <1>5, <1>6, <2>1
  <2> QED  BY <1>6, <2>1, <2>2, <2>3 DEF TopExactly
<1>10. done \in SUBSET DOMAIN work'.distances
  BY <1>6, <1>7
<1> QED  BY <1>8, <1>9, <1>10, Zenon DEF CheapestExactly

\* The links read are those of the top, at what they cost.
TopRead ==
    LET u == work.top[2]
    IN  /\ \A l \in LinksRead :
              /\ Joins(cost, request.dir, u, l.node, l.rel)
              /\ Charge(RelsRead, l.rel) = PriceIn(cost, filled, request, u, l.rel)
        /\ \A k \in LinksIn(cost, u, request.dir) : \E l \in LinksRead : l.node = k.node /\ l.rel = k.rel

LEMMA LinksOfTheTop ==
    ASSUME IInv, HasRead({"cheapest"}), NEW done, TopExactly(cost, request, work, done)
    PROVE  TopRead
<1>1. work.at = "reading" /\ request.kind = "cheapest" /\ work.pending = {}
  BY DEF HasRead, At
<1>2. CheapestOK(request, work) /\ work \in CheapestWork
  BY <1>1, CheapestParts
<1> DEFINE u == work.top[2]
           links == LinksIn(cost, u, request.dir)
<1>3. u \in DOMAIN work.read /\ DOMAIN work.read \subseteq {u} /\ work.read[u] = links
  BY <1>1, <1>2 DEF TopExactly, CheapestOK, ReadsItsTop
<1>4. \A k \in links : cost[k.rel] # Gone /\ k = [node |-> k.node, rel |-> k.rel]
  BY LinksInAre
<1> HIDE DEF u, links
<1>7. RelsRead = {k.rel : k \in links}
  <2>1. LinksRead = {[from |-> u, node |-> k.node, rel |-> k.rel] : k \in links}
    <3>1. DOMAIN work.read = {u}
      BY <1>3
    <3> DEFINE All(n) == {[from |-> n, node |-> k.node, rel |-> k.rel] : k \in work.read[n]}
    <3>2. LinksRead = UNION {All(n) : n \in {u}}
      BY <3>1, Zenon DEF LinksRead
    <3>3. LinksRead = All(u)
      <4> HIDE DEF All
      <4> QED  BY <3>2
    <3> QED  BY <1>3, <3>3
  <2>2. \A l \in LinksRead : \E k \in links : l.rel = k.rel
    BY <2>1
  <2>3. \A k \in links : \E l \in LinksRead : l.rel = k.rel
    <3> TAKE k \in links
    <3> DEFINE l == [from |-> u, node |-> k.node, rel |-> k.rel]
    <3>1. l \in LinksRead /\ l.rel = k.rel
      BY <2>1
    <3> QED  BY <3>1
  <2>4. {l.rel : l \in LinksRead} = {k.rel : k \in links}
    BY <2>2, <2>3
  <2> QED  BY <2>4 DEF RelsRead
<1>8. \A r : Charge(RelsRead, r) = PriceIn(cost, filled, request, u, r)
  BY <1>7, Zenon DEF Charge, Legible, PriceIn, links
<1>5. ASSUME NEW l \in LinksRead
      PROVE  /\ Joins(cost, request.dir, u, l.node, l.rel)
             /\ Charge(RelsRead, l.rel) = PriceIn(cost, filled, request, u, l.rel)
  <2>1. PICK n \in DOMAIN work.read : l \in {[from |-> n, node |-> k.node, rel |-> k.rel] : k \in work.read[n]}
    BY DEF LinksRead
  <2>2. n = u /\ work.read[n] = links
    BY <1>3
  <2>3. PICK k \in links : l = [from |-> n, node |-> k.node, rel |-> k.rel]
    BY <2>1, <2>2
  <2>4. l.node = k.node /\ l.rel = k.rel
    BY <2>3
  <2>5. [node |-> l.node, rel |-> l.rel] \in links
    BY <1>4, <2>4
  <2> QED  BY <1>8, <2>5 DEF Joins, links
<1>6. ASSUME NEW k \in links PROVE \E l \in LinksRead : l.node = k.node /\ l.rel = k.rel
  <2> DEFINE l == [from |-> u, node |-> k.node, rel |-> k.rel]
  <2>1. l \in {[from |-> u, node |-> j.node, rel |-> j.rel] : j \in work.read[u]}
    BY <1>3
  <2>2. l \in LinksRead
    <3> HIDE DEF l
    <3> QED  BY <1>3, <2>1 DEF LinksRead
  <2> QED  BY <2>2
<1> QED  BY <1>5, <1>6 DEF TopRead, u, links

\* The top is done: what it leads to has its distance noted.
LEMMA RelaxKeepsExact ==
    ASSUME IInv, Relax, request.kind = "cheapest", CheapestExactly(cost, filled, request, work)
    PROVE  CheapestExactly(cost, filled, request, work')
<1>1. PICK better, least, first, queued : Relaxed(better, least, first, queued)
  BY Relaxing
<1>2. work.at = "reading" /\ HasRead({"cheapest"})
  BY DEF Relax, HasRead, At
<1>3. CheapestOK(request, work) /\ work \in CheapestWork
  BY <1>2, CheapestParts
<1>4. PICK done \in SUBSET DOMAIN work.distances : Closed(cost, filled, request, work, done) /\ TopExactly(cost, request, work, done)
  BY DEF CheapestExactly
<1>5. TopRead
  BY <1>2, <1>4, LinksOfTheTop
<1> DEFINE u == work.top[2]
           S == DOMAIN work.distances
           d == work.distances
           e == work'.distances
           parent == work.parent
           parents == work'.parent
           more == done \cup {u}
           to == request.to
           from == request.from
           dir == request.dir
           dist(l) == work.top[1] + Charge(RelsRead, l.rel)
           price(n, r) == PriceIn(cost, filled, request, n, r)
<1>6. /\ u \in S /\ work.top[1] = d[u] /\ d[u] \in Nat
      /\ S \in SUBSET Node /\ d \in [S -> Nat]
      /\ DOMAIN parent = S
  BY <1>2, <1>3 DEF CheapestOK, CheapestWork, ReadsItsTop
<1>7. /\ done \subseteq S /\ to \notin done
      /\ \A n \in done : \A l \in LinksIn(cost, n, dir) : l.node \in S /\ d[l.node] <= d[n] + price(n, l.rel)
      /\ \A n \in S \ done : <<d[n], n>> \in work.pq \/ n = u
      /\ \A n \in done, x \in work.pq : d[n] <= x[1]
      /\ \A n \in S \ {from} : \A p \in parent[n] :
            p.node \in done /\ Joins(cost, dir, p.node, n, p.rel) /\ d[n] = d[p.node] + price(p.node, p.rel)
  BY <1>4 DEF Closed
<1>8. /\ u # to
      /\ \A n \in done : d[n] <= d[u]
      /\ \A x \in work.pq : d[u] <= x[1]
  BY <1>2, <1>4, <1>6 DEF TopExactly
<1>9. /\ \A l \in LinksRead : Joins(cost, dir, u, l.node, l.rel) /\ Charge(RelsRead, l.rel) = price(u, l.rel)
      /\ \A k \in LinksIn(cost, u, dir) : \E l \in LinksRead : l.node = k.node /\ l.rel = k.rel
  BY <1>5 DEF TopRead
<1>10. /\ better \in SUBSET Node /\ least \in [better -> Nat] /\ first \in [better -> Parent]
       /\ work'.at = "queue" /\ work'.pq = work.pq \cup queued
       /\ e = [n \in S \cup better |-> IF n \in better THEN least[n] ELSE d[n]]
       /\ parents = [n \in S \cup better |-> IF n \in better THEN {first[n]} ELSE parent[n]]
  BY <1>1, Zenon DEF Relaxed
<1>11. \A n \in better : n # u /\ n # from /\ least[n] >= d[u] /\ (n \in S => least[n] < d[n]) /\ <<least[n], n>> \in queued
  BY <1>1, <1>6 DEF Relaxed
<1>12. \A n \in better : \E l \in LinksTo(LinksRead, n) : first[n] = [node |-> u, rel |-> l.rel] /\ least[n] = dist(l)
  BY <1>1, Zenon DEF Relaxed
<1>13. \A l \in LinksRead :
         /\ l.node \in better => least[l.node] <= dist(l)
         /\ l.node \notin better => l.node \in S /\ d[l.node] <= dist(l)
  BY <1>1, Zenon DEF Relaxed
<1>14. \A x \in queued : x \in Nat \X Node /\ x[2] \in better /\ least[x[2]] <= x[1]
  BY <1>1, Zenon DEF Relaxed
<1>18. \A n, r : price(n, r) \in Nat
  BY PriceIsNumber
<1> HIDE DEF S, e, parent, parents, d, u, to, from, dir, price
<1>15. /\ \A n \in better : e[n] = least[n] /\ least[n] \in Nat
       /\ \A n \in S : n \notin better => e[n] = d[n]
       /\ DOMAIN e = S \cup better
       /\ \A n \in S : d[n] \in Nat
  BY <1>6, <1>10
<1>16. \A n \in more : n \in S /\ n \notin better /\ e[n] = d[n] /\ e[n] <= d[u]
  <2> TAKE n \in more
  <2>1. n \in S
    BY <1>6, <1>7
  <2>2. d[n] <= d[u] /\ d[n] \in Nat
    BY <1>6, <1>8, <1>15, <2>1
  <2>3. n \notin better
    <3> SUFFICES ASSUME n \in better PROVE FALSE
      OBVIOUS
    <3>1. least[n] >= d[u] /\ least[n] < d[n] /\ least[n] \in Nat
      BY <1>11, <1>15, <2>1
    <3> QED  BY <1>6, <2>2, <3>1
  <2> QED  BY <1>15, <2>1, <2>2, <2>3
<1>17. \A n \in S : e[n] \in Nat /\ e[n] <= d[n]
  <2> TAKE n \in S
  <2>1. d[n] \in Nat
    BY <1>15
  <2>2. CASE n \in better
    <3>1. e[n] = least[n] /\ least[n] < d[n] /\ least[n] \in Nat
      BY <1>11, <1>15, <2>2
    <3> QED  BY <2>1, <3>1
  <2>3. CASE n \notin better
    BY <1>15, <2>1, <2>3
  <2> QED  BY <2>2, <2>3
<1>19. ASSUME NEW n \in more, NEW l \in LinksIn(cost, n, dir)
       PROVE  l.node \in DOMAIN e /\ e[l.node] <= e[n] + price(n, l.rel)
  <2>1. CASE n \in done
    <3>1. l.node \in S /\ d[l.node] <= d[n] + price(n, l.rel)
      BY <1>7, <2>1
    <3>2. price(n, l.rel) \in Nat
      BY <1>18
    <3>3. e[l.node] <= d[l.node] /\ e[l.node] \in Nat /\ d[l.node] \in Nat /\ e[n] = d[n] /\ d[n] \in Nat
      BY <1>15, <1>16, <1>17, <3>1
    <3> QED  BY <1>15, <3>1, <3>2, <3>3
  <2>2. CASE n = u
    <3>1. PICK k \in LinksRead : k.node = l.node /\ k.rel = l.rel
      BY <1>9, <2>2
    <3>2. dist(k) = e[n] + price(n, l.rel)
      <4>1. Charge(RelsRead, k.rel) = price(n, l.rel)
        BY <1>9, <2>2, <3>1
      <4>2. work.top[1] = e[n]
        BY <1>6, <1>16, <2>2
      <4> QED  BY <4>1, <4>2
    <3> HIDE DEF dist
    <3>3. CASE l.node \in better
      BY <1>13, <1>15, <3>1, <3>2, <3>3
    <3>4. CASE l.node \notin better
      BY <1>13, <1>15, <3>1, <3>2, <3>4
    <3> QED  BY <3>3, <3>4
  <2> QED  BY <2>1, <2>2
<1>20. ASSUME NEW n \in DOMAIN e \ more PROVE <<e[n], n>> \in work'.pq
  <2>1. CASE n \in better
    BY <1>10, <1>11, <1>15, <2>1
  <2>2. CASE n \notin better
    <3>1. n \in S \ done /\ n # u /\ e[n] = d[n]
      BY <1>15, <2>2
    <3> QED  BY <1>7, <1>10, <3>1
  <2> QED  BY <2>1, <2>2
<1>21. ASSUME NEW n \in more, NEW x \in work'.pq PROVE e[n] <= x[1]
  <2>0. e[n] <= d[u] /\ e[n] \in Nat /\ d[u] \in Nat
    BY <1>6, <1>15, <1>16
  <2>1. CASE x \in work.pq
    <3>1. d[u] <= x[1] /\ x[1] \in Nat
      BY <1>3, <1>8, <2>1 DEF CheapestWork
    <3> QED  BY <2>0, <3>1
  <2>2. CASE x \in queued
    <3>1. x[2] \in better /\ least[x[2]] <= x[1] /\ x[1] \in Nat
      BY <1>14, <2>2
    <3>2. least[x[2]] >= d[u] /\ least[x[2]] \in Nat
      BY <1>11, <1>15, <3>1
    <3> QED  BY <2>0, <3>1, <3>2
  <2> QED  BY <1>10, <2>1, <2>2
<1>22. ASSUME NEW n \in DOMAIN e \ {from}, NEW p \in parents[n]
       PROVE  p.node \in more /\ Joins(cost, dir, p.node, n, p.rel) /\ e[n] = e[p.node] + price(p.node, p.rel)
  <2>1. CASE n \in better
    <3>1. PICK l \in LinksTo(LinksRead, n) : first[n] = [node |-> u, rel |-> l.rel] /\ least[n] = dist(l)
      BY <1>12, <2>1
    <3>2. p = first[n]
      BY <1>10, <2>1
    <3>3. p.node = u /\ p.rel = l.rel /\ l.node = n /\ l \in LinksRead
      BY <3>1, <3>2 DEF LinksTo
    <3>4. Joins(cost, dir, u, n, l.rel) /\ Charge(RelsRead, l.rel) = price(u, l.rel)
      BY <1>9, <3>3
    <3>5. e[n] = work.top[1] + price(u, l.rel)
      <4>1. e[n] = dist(l)
        BY <1>15, <2>1, <3>1
      <4> QED  BY <3>4, <4>1
    <3>6. work.top[1] = e[u]
      BY <1>6, <1>16
    <3> QED  BY <3>3, <3>4, <3>5, <3>6
  <2>2. CASE n \notin better
    <3>1. n \in S \ {from} /\ e[n] = d[n] /\ parents[n] = parent[n]
      BY <1>10, <1>15, <2>2
    <3>2. p.node \in done /\ Joins(cost, dir, p.node, n, p.rel) /\ d[n] = d[p.node] + price(p.node, p.rel)
      BY <1>7, <3>1
    <3>3. e[p.node] = d[p.node]
      BY <1>16, <3>2
    <3> QED  BY <3>1, <3>2, <3>3
  <2> QED  BY <2>1, <2>2
<1>23. more \subseteq DOMAIN e /\ to \notin more
  BY <1>7, <1>8, <1>15, <1>16
<1> HIDE DEF more
<1>24. Closed(cost, filled, request, work', more)
  BY <1>19, <1>20, <1>21, <1>22, <1>23 DEF Closed, e, parents, to, from, dir, price
<1>25. TopExactly(cost, request, work', more)
  BY <1>10 DEF TopExactly
<1>26. more \in SUBSET DOMAIN work'.distances
  BY <1>23 DEF e
<1> QED  BY <1>24, <1>25, <1>26, Zenon DEF CheapestExactly

\* A way has a length, and its relationships are there.
LEMMA WaysCost ==
    ASSUME NEW c, NEW dir, NEW nodes, NEW rels, Walks(c, dir, nodes, rels)
    PROVE  Len(rels) \in Nat /\ \A i \in 1 .. Len(rels) : rels[i] \in Rel
<1>1. rels \in Seq({r \in Rel : c[r] # Gone})
  BY DEF Walks
<1> QED  BY <1>1

\* Every way from the start to the end leaves what is done at a node that waits in the queue, at
\* no more than the way costs.
LEMMA WayOut ==
    ASSUME NEW c, NEW col, NEW q \in Request, NEW w, w.at = "queue", CheapestOK(q, w),
           NEW done, Closed(c, col, q, w, done), NEW nodes, NEW rels, Leaves(c, q, nodes, rels),
           NEW sum, Sums(c, col, q, nodes, rels, sum)
    PROVE  \E e \in w.pq : e[1] <= sum[Len(rels)]
<1> DEFINE L == Len(rels)
           d == w.distances
           price(n, r) == PriceIn(c, col, q, n, r)
           S == DOMAIN d
           Waits(i) == nodes[i + 1] \in S \ done /\ d[nodes[i + 1]] <= sum[i]
           IsDone(i) == nodes[i + 1] \in done /\ d[nodes[i + 1]] <= sum[i]
           Holds == {i \in Nat : i <= L => IsDone(i) \/ \E k \in 0 .. L : Waits(k)}
<1>1. Walks(c, q.dir, nodes, rels) /\ nodes[1] = q.from /\ nodes[L + 1] = q.to
  BY DEF Leaves
<1>2. L \in Nat /\ \A n, r : price(n, r) \in Nat
  BY <1>1, WaysCost, PriceIsNumber
<1>3. sum \in [0 .. L -> Nat] /\ sum[0] = 0 /\ \A i \in 1 .. L : sum[i] = sum[i - 1] + price(nodes[i], rels[i])
  BY DEF Sums
<1>4. /\ done \subseteq S /\ q.to \notin done
      /\ \A n \in done : \A l \in LinksIn(c, n, q.dir) : l.node \in S /\ d[l.node] <= d[n] + price(n, l.rel)
      /\ \A n \in S \ done : <<d[n], n>> \in w.pq
  BY DEF Closed
<1>5. \A i \in 1 .. L : [node |-> nodes[i + 1], rel |-> rels[i]] \in LinksIn(c, nodes[i], q.dir)
  BY <1>1 DEF Walks, Joins
<1>6. d \in [S -> Nat] /\ q.from \in S /\ d[q.from] = 0
  BY DEF CheapestOK, CheapestWork
<1>7. \A i \in 0 .. L : sum[i] <= sum[L]
  BY <1>2, SumsGrow
<1> HIDE DEF L, d, S, price
<1>8. 0 \in Holds
  <2>1. nodes[0 + 1] = q.from /\ d[q.from] <= sum[0] /\ 0 \in 0 .. L
    BY <1>1, <1>2, <1>3, <1>6
  <2>2. IsDone(0) \/ Waits(0)
    BY <1>6, <2>1
  <2> HIDE DEF Waits, IsDone
  <2> QED  BY <2>1, <2>2
<1>9. ASSUME NEW i \in Nat, i \in Holds PROVE i + 1 \in Holds
  <2> SUFFICES ASSUME i + 1 <= L PROVE IsDone(i + 1) \/ \E k \in 0 .. L : Waits(k)
    OBVIOUS
  <2>1. i <= L /\ i + 1 \in 1 .. L /\ i + 1 \in 0 .. L /\ i \in 0 .. L /\ i + 1 - 1 = i
    BY <1>2
  <2>2. CASE \E k \in 0 .. L : Waits(k)
    BY <2>2
  <2>3. CASE IsDone(i)
    <3> DEFINE l == [node |-> nodes[i + 1 + 1], rel |-> rels[i + 1]]
               n == nodes[i + 1]
               m == nodes[i + 1 + 1]
    <3>1. l \in LinksIn(c, n, q.dir) /\ n \in done
      BY <1>5, <2>1, <2>3
    <3>2. l.node \in S /\ d[l.node] <= d[n] + price(n, l.rel)
      <4> HIDE DEF l, n
      <4> QED  BY <1>4, <3>1
    <3>3. m \in S /\ d[m] <= d[n] + price(n, rels[i + 1])
      BY <3>2
    <3>4. d[n] <= sum[i] /\ n \in S
      BY <1>4, <2>3
    <3>5. /\ sum[i + 1] = sum[i] + price(n, rels[i + 1]) /\ price(n, rels[i + 1]) \in Nat
          /\ sum[i] \in Nat /\ sum[i + 1] \in Nat
      <4>1. sum[i + 1] = sum[i + 1 - 1] + price(nodes[i + 1], rels[i + 1])
        BY <1>3, <2>1
      <4> QED  BY <1>2, <1>3, <2>1, <4>1
    <3> HIDE DEF l, n, m
    <3>6. d[m] <= sum[i + 1]
      <4>1. d[m] \in Nat /\ d[n] \in Nat
        BY <1>6, <3>3, <3>4
      <4> QED  BY <3>3, <3>4, <3>5, <4>1
    <3>7. IsDone(i + 1) \/ Waits(i + 1)
      BY <3>3, <3>6 DEF m
    <3> HIDE DEF IsDone, Waits
    <3> QED  BY <2>1, <3>7
  <2> HIDE DEF IsDone, Waits
  <2> QED  BY <1>9, <2>1, <2>2, <2>3
<1> HIDE DEF Holds
<1>10. \A i \in Nat : i \in Holds
  BY <1>8, <1>9, EveryNumber
<1>11. IsDone(L) \/ \E k \in 0 .. L : Waits(k)
  <2>1. L \in Holds /\ L <= L
    BY <1>2, <1>10
  <2> HIDE DEF IsDone, Waits
  <2> QED  BY <2>1 DEF Holds
<1>12. PICK k \in 0 .. L : Waits(k)
  BY <1>1, <1>4, <1>11
<1> DEFINE n == nodes[k + 1]
           e == <<d[n], n>>
<1>13. e \in w.pq /\ e[1] = d[n] /\ d[n] <= sum[k] /\ n \in S
  BY <1>4, <1>12
<1>14. sum[k] <= sum[L] /\ sum[k] \in Nat /\ sum[L] \in Nat
  BY <1>2, <1>3, <1>7
<1>15. d[n] \in Nat
  BY <1>6, <1>13
<1> HIDE DEF e, n
<1>16. e[1] <= sum[L]
  BY <1>13, <1>14, <1>15
<1> QED  BY <1>13, <1>16 DEF L

\* So much a path costs at least.
LEMMA PathsCostNoLess ==
    ASSUME NEW c, NEW col, NEW q \in Request, NEW w, w.at = "queue", CheapestOK(q, w),
           NEW done, Closed(c, col, q, w, done), NEW o \in SimpleIn(c, q)
    PROVE  \E e \in w.pq : e[1] <= WeightIn(c, col, q, o)
<1>1. Leaves(c, q, o.nodes, o.rels)
  BY SimpleAre
<1>2. Walks(c, q.dir, o.nodes, o.rels)
  BY <1>1 DEF Leaves
<1>3. Len(o.rels) \in Nat
  BY <1>2, WaysCost
<1>4. PICK sum : Sums(c, col, q, o.nodes, o.rels, sum) /\ WeightIn(c, col, q, o) = sum[Len(o.rels)]
  BY <1>3, WeightIs
<1>5. \E e \in w.pq : e[1] <= sum[Len(o.rels)]
  BY <1>1, <1>4, WayOut
<1> QED  BY <1>4, <1>5

\* With no entry left there is no way out, so no path.
LEMMA UnreachableIsRight ==
    ASSUME IInv, Unreachable, CheapestExactly(cost, filled, request, work)
    PROVE  CheapestAnswer(cost, filled, request, NoPath)
<1>1. work.at = "queue" /\ request.kind = "cheapest" /\ work.pq = {}
  BY DEF Unreachable, At
<1>2. CheapestOK(request, work) /\ request \in Request
  BY <1>1, CheapestParts
<1>3. PICK done : Closed(cost, filled, request, work, done)
  BY DEF CheapestExactly
<1>4. SimpleIn(cost, request) = {}
  BY <1>1, <1>2, <1>3, PathsCostNoLess
<1> QED  BY <1>4 DEF CheapestAnswer

\* Every node is as far as the one before it and the relationship between.
Adds(c, col, q, d, nodes, rels) ==
    \A i \in 1 .. Len(rels) : d[nodes[i + 1]] = d[nodes[i]] + PriceIn(c, col, q, nodes[i], rels[i])

\* The last is then as far as the way costs.
LEMMA DistancesAdd ==
    ASSUME NEW c, NEW col, NEW q, NEW nodes, NEW rels, Len(rels) \in Nat, NEW sum, Sums(c, col, q, nodes, rels, sum),
           NEW d, d[nodes[1]] = 0, Adds(c, col, q, d, nodes, rels)
    PROVE  d[nodes[Len(rels) + 1]] = sum[Len(rels)]
<1> DEFINE L == Len(rels)
           toll(i) == PriceIn(c, col, q, nodes[i], rels[i])
           Holds == {i \in Nat : i <= L => d[nodes[i + 1]] = sum[i]}
<1>1. /\ L \in Nat /\ sum[0] = 0
      /\ \A i \in 1 .. L : sum[i] = sum[i - 1] + toll(i)
      /\ \A i \in 1 .. L : d[nodes[i + 1]] = d[nodes[i]] + toll(i)
  BY DEF Sums, Adds
<1> HIDE DEF L, toll
<1>2. 0 \in Holds
  BY <1>1
<1>3. ASSUME NEW i \in Nat, i \in Holds PROVE i + 1 \in Holds
  <2> SUFFICES ASSUME i + 1 <= L PROVE d[nodes[i + 1 + 1]] = sum[i + 1]
    OBVIOUS
  <2>1. i <= L /\ i + 1 \in 1 .. L /\ i + 1 - 1 = i
    BY <1>1
  <2>2. d[nodes[i + 1]] = sum[i]
    BY <1>3, <2>1
  <2>3. sum[i + 1] = sum[i] + toll(i + 1)
    BY <1>1, <2>1
  <2>4. d[nodes[i + 1 + 1]] = d[nodes[i + 1]] + toll(i + 1)
    BY <1>1, <2>1
  <2> DEFINE k == i + 1
             m == nodes[k + 1]
             n == nodes[k]
             price == toll(k)
  <2>5. d[n] = sum[i] /\ sum[k] = sum[i] + price /\ d[m] = d[n] + price
    BY <2>2, <2>3, <2>4
  <2> HIDE DEF k, m, n, price
  <2>6. d[m] = sum[k]
    BY <2>5
  <2> QED  BY <2>6 DEF m, k
<1> HIDE DEF Holds
<1>4. L \in Holds /\ L <= L
  <2>1. \A i \in Nat : i \in Holds
    BY <1>2, <1>3, EveryNumber
  <2> QED  BY <1>1, <2>1
<1> QED  BY <1>4 DEF Holds, L

\* Where the parents are nearer by their relationships, the chain backwards adds these up.
LEMMA TracedDistances ==
    ASSUME NEW c, NEW col, NEW q, NEW parent \in Parents, NEW start, NEW n, NEW chain, Leads(parent, start, n, chain), NEW d,
           \A m \in DOMAIN parent \ {start} : d[m] = d[parent[m].node] + PriceIn(c, col, q, parent[m].node, parent[m].rel)
    PROVE  /\ Reverse(NodesOf(chain)) \in Seq(DOMAIN parent)
           /\ Adds(c, col, q, d, Reverse(NodesOf(chain)), Reverse(RelsOf(chain)))
<1> DEFINE L == Len(chain)
           nodes == Reverse(NodesOf(chain))
           rels == Reverse(RelsOf(chain))
<1>1. chain \in Seq(Parent) /\ L \in Nat \ {0}
  BY DEF Leads
<1>2. nodes = [i \in 1 .. L |-> chain[L - i + 1].node] /\ rels = [i \in 1 .. L - 1 |-> chain[L - i + 1].rel]
  BY <1>1, BackwardsIs
<1>3. /\ \A i \in 1 .. L : chain[i].node \in DOMAIN parent
      /\ \A i \in 1 .. L - 1 : chain[i].node # start /\ chain[i + 1] = parent[chain[i].node]
  BY DEF Leads
<1> HIDE DEF L, nodes, rels
<1>4. nodes \in Seq(DOMAIN parent)
  <2>1. \A i \in 1 .. L : L - i + 1 \in 1 .. L
    BY <1>1
  <2>2. nodes \in [1 .. L -> DOMAIN parent]
    BY <1>2, <1>3, <2>1
  <2> QED  BY <1>1, <2>2
<1>5. Len(rels) = L - 1
  <2>1. L - 1 \in Nat
    BY <1>1
  <2> QED  BY <1>2, <2>1
<1>6. ASSUME NEW i \in 1 .. L - 1 PROVE d[nodes[i + 1]] = d[nodes[i]] + PriceIn(c, col, q, nodes[i], rels[i])
  <2> DEFINE j == L - i
  <2>1. j \in 1 .. L - 1 /\ L - i + 1 = j + 1 /\ L - (i + 1) + 1 = j /\ i \in 1 .. L /\ i + 1 \in 1 .. L /\ j \in 1 .. L
    BY <1>1
  <2>2. nodes[i] = chain[j + 1].node /\ nodes[i + 1] = chain[j].node /\ rels[i] = chain[j + 1].rel
    BY <1>2, <2>1
  <2> HIDE DEF j
  <2> DEFINE m == chain[j].node
  <2>3. m \in DOMAIN parent \ {start} /\ chain[j + 1] = parent[m]
    BY <1>3, <2>1
  <2>4. d[m] = d[parent[m].node] + PriceIn(c, col, q, parent[m].node, parent[m].rel)
    BY <2>3
  <2> QED  BY <2>2, <2>3, <2>4
<1>7. Adds(c, col, q, d, nodes, rels)
  BY <1>5, <1>6 DEF Adds
<1> QED  BY <1>4, <1>7 DEF nodes, rels

\* The end node is the top: every path costs at least as much.
LEMMA TraceBackFinds ==
    ASSUME IInv, TraceBack, CheapestExactly(cost, filled, request, work)
    PROVE  FoundExactly(cost, filled, request, work')
<1>1. PICK parent, chain : Traces(parent, chain) /\ work' = TracedPath(chain)
  BY TracingBack
<1>2. request.kind = "cheapest" /\ work.at = "queue" /\ work.pq # {} /\ Top[2] = request.to
  BY DEF TraceBack, At, Arrives
<1>3. CheapestOK(request, work) /\ work \in CheapestWork /\ request \in Request
  BY <1>2, CheapestParts
<1>4. PICK done \in SUBSET DOMAIN work.distances : Closed(cost, filled, request, work, done)
  BY DEF CheapestExactly
<1> DEFINE from == request.from
           to == request.to
           dir == request.dir
           d == work.distances
           nodes == Reverse(NodesOf(chain))
           rels == Reverse(RelsOf(chain))
           L == Len(rels)
           p == [nodes |-> nodes, rels |-> rels]
           cut == Cut(p)
           found == [nodes |-> cut.nodes, rels |-> cut.rels, weight |-> d[to]]
           price(n, r) == PriceIn(cost, filled, request, n, r)
<1>5. /\ parent \in Parents /\ DOMAIN parent = DOMAIN d
      /\ \A m \in DOMAIN parent \ {from} : parent[m] \in work.parent[m]
      /\ Leads(parent, from, to, chain)
  BY <1>1 DEF Traces
<1>6. \A m \in DOMAIN d \ {from} : \A x \in work.parent[m] :
        Joins(cost, dir, x.node, m, x.rel) /\ d[m] = d[x.node] + price(x.node, x.rel)
  BY <1>4 DEF Closed
<1>7. \A m \in DOMAIN parent \ {from} :
        Joins(cost, dir, parent[m].node, m, parent[m].rel) /\ d[m] = d[parent[m].node] + price(parent[m].node, parent[m].rel)
  BY <1>5, <1>6
<1>9. d[from] = 0 /\ DOMAIN d \in SUBSET Node
  BY <1>3 DEF CheapestOK, CheapestWork
<1> HIDE DEF from, to, dir, d
<1>10. Walks(cost, dir, nodes, rels)
  <2>1. Linked(cost, dir, parent, from)
    BY <1>7 DEF Linked
  <2> HIDE DEF nodes, rels
  <2>2. Walks(cost, dir, Reverse(NodesOf(chain)), Reverse(RelsOf(chain)))
    BY <1>5, <2>1, BackwardsWalks
  <2> QED  BY <2>2 DEF nodes, rels
<1>11. GoodPath(nodes, rels, from, to)
  BY <1>5, BackwardsIsPath
<1>12. nodes \in Seq(DOMAIN parent) /\ Adds(cost, filled, request, d, nodes, rels)
  BY <1>5, <1>7, TracedDistances
<1>13. work'.nodes = cut.nodes /\ work'.rels = cut.rels /\ work'.weight = d[to]
  BY <1>1 DEF TracedPath, Backwards, d, to
<1> HIDE DEF nodes, rels, cut
<1>14. nodes \in Seq(Node)
  <2>1. nodes = [i \in 1 .. Len(nodes) |-> nodes[i]] /\ \A i \in 1 .. Len(nodes) : nodes[i] \in DOMAIN parent
    BY <1>12
  <2>2. \A i \in 1 .. Len(nodes) : nodes[i] \in Node
    BY <1>5, <1>9, <2>1
  <2>3. Len(nodes) \in Nat
    BY <1>12
  <2> QED  BY <2>1, <2>2, <2>3
<1>15. L \in Nat
  BY <1>10, WaysCost
<1>16. /\ Len(nodes) = L + 1 /\ nodes[1] = from /\ nodes[L + 1] = to
       /\ \A i, j \in 1 .. Len(nodes) : i # j => nodes[i] # nodes[j]
  BY <1>11 DEF GoodPath, Last
<1>17. p \in SimpleIn(cost, request)
  <2>1. Leaves(cost, request, nodes, rels)
    BY <1>10, <1>16 DEF Leaves, from, to, dir
  <2> QED  BY <1>3, <1>14, <1>16, <2>1, SimpleHas
<1>18. p.rels = rels /\ p.nodes = nodes
  OBVIOUS
<1> HIDE DEF p
<1>19. WeightIn(cost, filled, request, p) = d[to]
  <2>1. PICK sum : Sums(cost, filled, request, nodes, rels, sum) /\ WeightIn(cost, filled, request, p) = sum[L]
    <3>1. \E sum : Sums(cost, filled, request, p.nodes, p.rels, sum) /\ WeightIn(cost, filled, request, p) = sum[Len(p.rels)]
      BY <1>15, <1>18, WeightIs
    <3> QED  BY <1>18, <3>1
  <2>2. d[nodes[1]] = 0
    BY <1>9, <1>16
  <2>3. d[nodes[Len(rels) + 1]] = sum[Len(rels)]
    BY <1>12, <1>15, <2>1, <2>2, DistancesAdd
  <2> QED  BY <1>16, <2>1, <2>3
<1>20. Top \in work.pq /\ \A e \in work.pq : Top[1] <= e[1]
  <2>1. work.pq \in SUBSET (Nat \X Node)
    BY <1>3 DEF CheapestWork
  <2>2. \E a \in work.pq : \A b \in work.pq : Before(a, b)
    BY <1>2, <2>1, LeastEntry
  <2>3. Top \in work.pq /\ \A b \in work.pq : Before(Top, b)
    BY <2>2 DEF Top
  <2> DEFINE t == Top
  <2>4. t \in work.pq /\ \A b \in work.pq : Before(t, b)
    BY <2>3
  <2> HIDE DEF t
  <2>5. \A e \in work.pq : t[1] < e[1] \/ t[1] = e[1]
    BY <2>4 DEF Before
  <2>6. \A e \in work.pq : e[1] \in Nat
    BY <2>1
  <2>7. \A e \in work.pq : t[1] <= e[1]
    BY <2>4, <2>5, <2>6
  <2> QED  BY <2>4, <2>7 DEF t
<1>21. d[to] <= Top[1] /\ Top[1] \in Nat /\ d[to] \in Nat
  <2>1. Top[2] \in DOMAIN work.distances /\ work.distances[Top[2]] <= Top[1]
    BY <1>3, <1>20 DEF CheapestOK
  <2>2. work.pq \in SUBSET (Nat \X Node) /\ \A x \in DOMAIN work.distances : work.distances[x] \in Nat
    BY <1>3 DEF CheapestWork
  <2> QED  BY <1>2, <1>20, <2>1, <2>2 DEF d, to
<1>22. ASSUME NEW o \in SimpleIn(cost, request) PROVE d[to] <= WeightIn(cost, filled, request, o)
  <2>1. PICK e \in work.pq : e[1] <= WeightIn(cost, filled, request, o)
    BY <1>2, <1>3, <1>4, PathsCostNoLess
  <2>2. e[1] \in Nat
    BY <1>3 DEF CheapestWork
  <2>3. WeightIn(cost, filled, request, o) \in Nat
    <3>1. Leaves(cost, request, o.nodes, o.rels)
      BY <1>3, SimpleAre
    <3>2. Walks(cost, request.dir, o.nodes, o.rels)
      BY <3>1 DEF Leaves
    <3>3. Len(o.rels) \in Nat
      BY <3>2, WaysCost
    <3>4. PICK sum : Sums(cost, filled, request, o.nodes, o.rels, sum) /\ WeightIn(cost, filled, request, o) = sum[Len(o.rels)]
      BY <3>3, WeightIs
    <3>5. sum \in [0 .. Len(o.rels) -> Nat] /\ Len(o.rels) \in 0 .. Len(o.rels)
      BY <3>3, <3>4 DEF Sums
    <3> QED  BY <3>4, <3>5
  <2>4. Top[1] <= e[1]
    BY <1>20
  <2> QED  BY <1>21, <2>1, <2>2, <2>3, <2>4
<1>23. p \in CheapestIn(cost, filled, request)
  BY <1>17, <1>19, <1>22 DEF CheapestIn
<1>24. /\ cut = [nodes |-> cut.nodes, rels |-> cut.rels]
       /\ cut.rels \in Seq({r \in Rel : cost[r] # Gone})
  <2> DEFINE T == {r \in Rel : cost[r] # Gone}
  <2>1. rels \in Seq(T) /\ Len(nodes) = Len(rels) + 1
    BY <1>10, <1>16 DEF Walks
  <2> HIDE DEF T
  <2>2. Shortened(cut, T, nodes, rels)
    BY <1>14, <2>1, CutIs DEF cut, p
  <2> QED  BY <2>2 DEF Shortened, T
<1>25. CheapestAnswer(cost, filled, request, found)
  <2>1. Unweighted(found) = cut /\ found.weight = d[to]
    BY <1>24 DEF Unweighted
  <2>2. Unweighted(found) = Cut(p) /\ found.weight = WeightIn(cost, filled, request, p)
    BY <1>19, <2>1 DEF cut
  <2> HIDE DEF found
  <2>3. SimpleIn(cost, request) # {}
    BY <1>17
  <2> QED  BY <1>23, <2>2, <2>3, Zenon DEF CheapestAnswer
<1>26. found = [nodes |-> work'.nodes, rels |-> work'.rels, weight |-> work'.weight]
  BY <1>13
<1> HIDE DEF found
<1> QED  BY <1>2, <1>13, <1>24, <1>25, <1>26 DEF FoundExactly

-----------------------------------------------------------------------------
(* The path of one node *)

\* It is the shortest.
LEMMA HereIsShortest ==
    ASSUME NEW c, NEW q \in Request, q.from = q.to
    PROVE  ShortestAnswer(c, q, OneNode(q.from))
<1> DEFINE ball == BallIn(c, q.from, q.dir)
           p == OneNode(q.from)
<1>1. q.from \in Node /\ q.max \in Nat
  BY SearchesAssumption
<1>2. ball[0] = {q.from}
  <2> HIDE DEF ball
  <2>1. Balls(c, q.from, q.dir, ball)
    BY <1>1, BallsAre DEF ball
  <2> QED  BY <2>1 DEF Balls
<1>3. ball[0] \subseteq ball[q.max]
  <2>1. 0 \in Nat /\ 0 <= q.max
    BY <1>1
  <2> QED  BY <1>1, <2>1, BallsGrow
<1>4. q.to \in ball[q.max]
  BY <1>2, <1>3
<1>5. p.nodes = <<q.from>> /\ p.rels = <<>> /\ Len(p.rels) = 0
  BY DEF OneNode
<1>6. IsPathIn(c, p.nodes, p.rels, q)
  <2>1. Len(p.nodes) = 1 /\ p.nodes[1] = q.from /\ Last(p.nodes) = q.to
    BY <1>5 DEF Last
  <2>2. \A i \in 1 .. 0 : FALSE
    OBVIOUS
  <2> QED  BY <1>5, <2>1, <2>2 DEF IsPathIn
<1> HIDE DEF p
<1>7. ShortestAnswer(c, q, p)
  BY <1>4, <1>5, <1>6 DEF ShortestAnswer
<1> QED  BY <1>7 DEF p

\* And the cheapest: no weight is negative.
LEMMA HereIsCheapest ==
    ASSUME NEW c, NEW col, NEW q \in Request, q.from = q.to
    PROVE  CheapestAnswer(c, col, q, OneNode(q.from))
<1> DEFINE a == OneNode(q.from)
           p == [nodes |-> <<q.from>>, rels |-> <<>>]
           nodes == <<q.from>>
           rels == <<>>
<1>1. q.from \in Node
  BY SearchesAssumption
<1>2. /\ p.nodes = nodes /\ p.rels = rels /\ Len(rels) = 0
      /\ p = [nodes |-> nodes, rels |-> rels] /\ Unweighted(a) = p /\ a.weight = 0
  BY DEF OneNode, Unweighted
<1>3. nodes \in Seq(Node) /\ Len(nodes) = 1 /\ nodes[1] = q.from
  BY <1>1
<1>4. \A i \in 1 .. 0 : FALSE
  OBVIOUS
<1>5. Walks(c, q.dir, nodes, rels)
  BY <1>2, <1>4 DEF Walks
<1> HIDE DEF a, p, nodes, rels
<1>6. Leaves(c, q, nodes, rels)
  BY <1>2, <1>3, <1>5 DEF Leaves
<1>7. [nodes |-> nodes, rels |-> rels] \in SimpleIn(c, q)
  <2>1. \A i, j \in 1 .. Len(nodes) : i = j
    BY <1>3
  <2>2. \A i, j \in 1 .. Len(nodes) : i # j => nodes[i] # nodes[j]
    BY <2>1
  <2> QED  BY <1>3, <1>6, <2>2, SimpleHas
<1>8. WeightIn(c, col, q, p) = 0
  <2>1. Len(p.rels) \in Nat
    BY <1>2
  <2>2. PICK sum : Sums(c, col, q, p.nodes, p.rels, sum) /\ WeightIn(c, col, q, p) = sum[Len(p.rels)]
    BY <2>1, WeightIs
  <2> QED  BY <1>2, <2>2 DEF Sums
<1>9. \A o \in SimpleIn(c, q) : WeightIn(c, col, q, p) <= WeightIn(c, col, q, o)
  <2> TAKE o \in SimpleIn(c, q)
  <2>1. Leaves(c, q, o.nodes, o.rels)
    BY SimpleAre
  <2>2. Walks(c, q.dir, o.nodes, o.rels)
    BY <2>1 DEF Leaves
  <2>3. Len(o.rels) \in Nat
    BY <2>2, WaysCost
  <2>4. PICK sum : Sums(c, col, q, o.nodes, o.rels, sum) /\ WeightIn(c, col, q, o) = sum[Len(o.rels)]
    BY <2>3, WeightIs
  <2>5. sum \in [0 .. Len(o.rels) -> Nat] /\ Len(o.rels) \in 0 .. Len(o.rels)
    BY <2>3, <2>4 DEF Sums
  <2> QED  BY <1>8, <2>4, <2>5
<1>10. p \in CheapestIn(c, col, q)
  BY <1>2, <1>7, <1>9 DEF CheapestIn
<1>11. Cut(p) = p
  <2>1. 0 - TraceLimit <= 0
    BY SearchesAssumption
  <2>2. Len(p.rels) = 0
    BY <1>2
  <2> QED  BY <2>1, <2>2 DEF Cut
<1>12. CheapestAnswer(c, col, q, a)
  <2>1. Unweighted(a) = Cut(p) /\ a.weight = WeightIn(c, col, q, p)
    BY <1>2, <1>8, <1>11
  <2>2. SimpleIn(c, q) # {}
    BY <1>7
  <2> QED  BY <1>10, <2>1, <2>2, Zenon DEF CheapestAnswer
<1> QED  BY <1>12 DEF a

-----------------------------------------------------------------------------
(* All actions, while nothing changes *)

LEMMA OtherKindIsExact ==
    ASSUME work'.at = "idle" \/ request'.kind \notin {"shortest", "cheapest"}
    PROVE  Exact'
BY DEF Exact, At

LEMMA AnswersAre == \A a : Answered(a).answer = a
BY DEF Answered

\* A search begins.
LEMMA AskIsExact ==
    ASSUME IInv, NEW q \in Request, Ask(q)
    PROVE  Exact'
<1>1. request' = q /\ work' = Start(q) /\ cost' = cost /\ filled' = filled
  BY DEF Ask
<1>3. CASE q.kind = "shortest"
  <2>1. CASE q.from = q.to
    <3>1. work' = Answered(OneNode(q.from))
      BY <1>1, <1>3, <2>1 DEF Start
    <3>2. work'.at = "answered" /\ work'.answer = OneNode(q.from)
      BY <3>1, AnsweredIs, AnswersAre
    <3>3. ShortestAnswer(cost, q, OneNode(q.from))
      BY <2>1, HereIsShortest
    <3>4. ShortestAnswer(cost', request', work'.answer)
      BY <1>1, <3>2, <3>3
    <3> QED  BY <1>1, <1>3, <3>2, <3>4 DEF Exact, At
  <2>2. CASE q.from # q.to
    <3>1. work' = FromBothEnds(q)
      BY <1>1, <1>3, <2>2 DEF Start
    <3>2. work'.at = "level"
      BY <3>1 DEF FromBothEnds
    <3>3. ShortestExactly(cost', request', work')
      <4>1. ShortestExactly(cost, q, FromBothEnds(q))
        BY FromBothEndsExact
      <4> QED  BY <1>1, <3>1, <4>1
    <3> QED  BY <1>1, <1>3, <3>2, <3>3 DEF Exact, At
  <2> QED  BY <2>1, <2>2
<1>4. CASE q.kind = "cheapest"
  <2>1. CASE q.from = q.to
    <3>1. work' = Answered(OneNode(q.from))
      BY <1>1, <1>4, <2>1 DEF Start
    <3>2. work'.at = "answered" /\ work'.answer = OneNode(q.from)
      BY <3>1, AnsweredIs, AnswersAre
    <3>3. CheapestAnswer(cost, filled, q, OneNode(q.from))
      BY <2>1, HereIsCheapest
    <3>4. CheapestAnswer(cost', filled', request', work'.answer)
      BY <1>1, <3>2, <3>3
    <3> QED  BY <1>1, <1>4, <3>2, <3>4 DEF Exact, At
  <2>2. CASE q.from # q.to
    <3>1. work' = FromStart(q)
      BY <1>1, <1>4, <2>2 DEF Start
    <3>2. work'.at = "queue"
      BY <3>1 DEF FromStart
    <3>3. CheapestExactly(cost', filled', request', work')
      <4>1. CheapestExactly(cost, filled, q, FromStart(q))
        BY <2>2, FromStartExact
      <4> QED  BY <1>1, <3>1, <4>1
    <3> QED  BY <1>1, <1>4, <3>2, <3>3 DEF Exact, At
  <2> QED  BY <2>1, <2>2
<1>5. CASE q.kind \notin {"shortest", "cheapest"}
  BY <1>1, <1>5, OtherKindIsExact
<1> QED  BY <1>3, <1>4, <1>5

LEMMA ShortestGoesOn ==
    ASSUME UNCHANGED <<cost, filled, request>>, request.kind = "shortest", work'.at \in {"level", "reading"},
           ShortestExactly(cost, request, work')
    PROVE  Exact'
<1>1. ShortestExactly(cost', request', work')
  BY Zenon
<1> QED  BY <1>1 DEF Exact, At

LEMMA CheapestGoesOn ==
    ASSUME UNCHANGED <<cost, filled, request>>, request.kind = "cheapest", work'.at \in {"queue", "reading"},
           CheapestExactly(cost, filled, request, work')
    PROVE  Exact'
<1>1. CheapestExactly(cost', filled', request', work')
  BY Zenon
<1> QED  BY <1>1 DEF Exact, At

LEMMA FoundIsExact ==
    ASSUME UNCHANGED <<cost, filled, request>>, work'.at = "found", FoundExactly(cost, filled, request, work')
    PROVE  Exact'
<1>1. FoundExactly(cost', filled', request', work')
  BY Zenon
<1> QED  BY <1>1 DEF Exact, At

LEMMA LinksThatArriveAreExact ==
    ASSUME IInv, Exact, NEW n \in Node, NodeGetLinksPeered(n)
    PROVE  Exact'
<1>1. work.at = "reading" /\ UNCHANGED <<cost, filled, request>>
  BY DEF NodeGetLinksPeered
<1>2. CASE request.kind = "shortest"
  <2>1. ShortestExactly(cost, request, work) /\ work \in ShortestWork
    BY <1>1, <1>2, ShortestParts DEF Exact, At
  <2>2. ShortestExactly(cost, request, work')
    BY <1>2, <2>1, LinksArriveAtASide
  <2>3. work'.at = "reading"
    BY <1>1, <1>2, <2>1, LinksThatArrive DEF ShortestWork
  <2> QED  BY <1>1, <1>2, <2>2, <2>3, ShortestGoesOn
<1>3. CASE request.kind = "cheapest"
  <2>1. CheapestExactly(cost, filled, request, work) /\ work \in CheapestWork
    BY <1>1, <1>3, CheapestParts DEF Exact, At
  <2>2. CheapestExactly(cost, filled, request, work')
    BY <1>3, <2>1, LinksArriveAtTheTop
  <2>3. work'.at = "reading"
    BY <1>1, <1>3, <2>1, LinksThatArrive DEF CheapestWork
  <2> QED  BY <1>1, <1>3, <2>2, <2>3, CheapestGoesOn
<1>4. CASE request.kind \notin {"shortest", "cheapest"}
  BY <1>1, <1>4, OtherKindIsExact
<1> QED  BY <1>2, <1>3, <1>4

\* The answer is the path found: all its relationships are there.
LEMMA CollectIsExact ==
    ASSUME Exact, Collect
    PROVE  Exact'
<1>1. At({"shortest", "cheapest"}, "found") /\ UNCHANGED <<cost, filled, request>>
      /\ work' = Answered([nodes |-> work.nodes, weight |-> work.weight, rels |-> StillThere(work.rels)])
  BY DEF Collect
<1> DEFINE p == [nodes |-> work.nodes, rels |-> work.rels, weight |-> work.weight]
<1>2. /\ work.rels \in Seq({r \in Rel : cost[r] # Gone})
      /\ request.kind = "shortest" => ShortestAnswer(cost, request, p)
      /\ request.kind = "cheapest" => CheapestAnswer(cost, filled, request, p)
  BY <1>1 DEF Exact, FoundExactly
<1>3. StillThere(work.rels) = work.rels
  BY <1>2, AllStillThere
<1>4. work'.at = "answered" /\ work'.answer = p
  BY <1>1, <1>3, AnsweredIs, AnswersAre
<1> HIDE DEF p
<1>5. /\ request'.kind = "shortest" => ShortestAnswer(cost', request', work'.answer)
      /\ request'.kind = "cheapest" => CheapestAnswer(cost', filled', request', work'.answer)
  BY <1>1, <1>2, <1>4
<1> QED  BY <1>4, <1>5 DEF Exact, At

\* A step of the search itself.
LEMMA StepsAreExact ==
    ASSUME IInv, Exact, Step
    PROVE  Exact'
<1>1. ASSUME NEW n \in Node, NodeGetLinksPeered(n) PROVE Exact'
  BY <1>1, LinksThatArriveAreExact
<1>2. CASE ExpandLevel
  <2>1. UNCHANGED <<cost, filled, request>> /\ request.kind = "shortest" /\ ShortestExactly(cost, request, work)
    BY <1>2, Zenon DEF ExpandLevel, Exact, At
  <2>2. ShortestExactly(cost, request, work')
    BY <1>2, <2>1, ExpandLevelKeepsExact
  <2>3. work'.at = "reading"
    BY <1>2, ExpandLevelStep DEF Expanded
  <2> QED  BY <2>1, <2>2, <2>3, ShortestGoesOn
<1>3. CASE NextLevel
  <2>1. UNCHANGED <<cost, filled, request>> /\ request.kind = "shortest" /\ ShortestExactly(cost, request, work)
    BY <1>3, Zenon DEF NextLevel, HasRead, Exact, At
  <2>2. ShortestExactly(cost, request, work')
    BY <1>3, <2>1, NextLevelKeepsExact
  <2>3. work'.at = "level"
    BY <1>3, NextLevelStep DEF Levelled
  <2> QED  BY <2>1, <2>2, <2>3, ShortestGoesOn
<1>4. CASE Meet
  <2>1. UNCHANGED <<cost, filled, request>> /\ ShortestExactly(cost, request, work)
    BY <1>4, Zenon DEF Meet, HasRead, Exact, At
  <2>2. FoundExactly(cost, filled, request, work')
    BY <1>4, <2>1, MeetFinds
  <2>3. work'.at = "found"
    BY <1>4, MeetingChains DEF JoinedPath
  <2> QED  BY <2>1, <2>2, <2>3, FoundIsExact
<1>5. CASE NotFound
  <2>1. /\ UNCHANGED <<cost, filled, request>> /\ request.kind = "shortest" /\ ShortestExactly(cost, request, work)
        /\ work' = Answered(NoPath)
    BY <1>5 DEF NotFound, Exact, At
  <2>2. ShortestAnswer(cost, request, NoPath)
    BY <1>5, <2>1, NotFoundIsRight
  <2>3. work'.at = "answered" /\ work'.answer = NoPath
    BY <2>1, AnsweredIs, AnswersAre
  <2>4. ShortestAnswer(cost', request', work'.answer)
    BY <2>1, <2>2, <2>3
  <2> QED  BY <2>1, <2>3, <2>4 DEF Exact, At
<1>6. CASE Pop
  <2>1. UNCHANGED <<cost, filled, request>> /\ work.at = "queue"
    BY <1>6 DEF Pop, At
  <2>2. CASE request.kind = "cheapest"
    <3>1. CheapestExactly(cost, filled, request, work)
      BY <2>1, <2>2 DEF Exact, At
    <3>2. CheapestExactly(cost, filled, request, work')
      BY <1>6, <2>2, <3>1, PopKeepsExact
    <3>3. work'.at \in {"queue", "reading"}
      BY <1>6, <2>2, PopStep DEF Popped
    <3> QED  BY <2>1, <2>2, <3>2, <3>3, CheapestGoesOn
  <2>3. CASE request.kind # "cheapest"
    <3>1. request'.kind = "allCheapest"
      BY <1>6, <2>1, <2>3 DEF Pop, At, Weighted
    <3> QED  BY <3>1, OtherKindIsExact
  <2> QED  BY <2>2, <2>3
<1>7. CASE Relax
  <2>1. UNCHANGED <<cost, filled, request>> /\ work.at = "reading"
    BY <1>7 DEF Relax, HasRead, At
  <2>2. CASE request.kind = "cheapest"
    <3>1. CheapestExactly(cost, filled, request, work)
      BY <2>1, <2>2 DEF Exact, At
    <3>2. CheapestExactly(cost, filled, request, work')
      BY <1>7, <2>2, <3>1, RelaxKeepsExact
    <3>3. work'.at \in {"queue", "reading"}
      <4>1. PICK better, least, first, queued : Relaxed(better, least, first, queued)
        BY <1>7, <2>2, Relaxing
      <4> QED  BY <4>1 DEF Relaxed
    <3> QED  BY <2>1, <2>2, <3>2, <3>3, CheapestGoesOn
  <2>3. CASE request.kind # "cheapest"
    <3>1. request'.kind = "allCheapest"
      BY <1>7, <2>1, <2>3 DEF Relax, HasRead, At, Weighted
    <3> QED  BY <3>1, OtherKindIsExact
  <2> QED  BY <2>2, <2>3
<1>8. CASE Unreachable
  <2>1. /\ UNCHANGED <<cost, filled, request>> /\ request.kind = "cheapest" /\ CheapestExactly(cost, filled, request, work)
        /\ work' = Answered(NoPath)
    BY <1>8 DEF Unreachable, Exact, At
  <2>2. CheapestAnswer(cost, filled, request, NoPath)
    BY <1>8, <2>1, UnreachableIsRight
  <2>3. work'.at = "answered" /\ work'.answer = NoPath
    BY <2>1, AnsweredIs, AnswersAre
  <2>4. CheapestAnswer(cost', filled', request', work'.answer)
    BY <2>1, <2>2, <2>3
  <2> QED  BY <2>1, <2>3, <2>4 DEF Exact, At
<1>9. CASE TraceBack
  <2>1. UNCHANGED <<cost, filled, request>> /\ CheapestExactly(cost, filled, request, work)
    BY <1>9, Zenon DEF TraceBack, Exact, At
  <2>2. FoundExactly(cost, filled, request, work')
    BY <1>9, <2>1, TraceBackFinds
  <2>3. work'.at = "found"
    BY <1>9, TracingBack DEF TracedPath
  <2> QED  BY <2>1, <2>2, <2>3, FoundIsExact
<1>10. CASE ExpandTrails \/ TrailsLevel \/ Resize \/ CollectAll
  <2>1. request'.kind = "paths"
    BY <1>10 DEF ExpandTrails, TrailsLevel, Resize, CollectAll, HasRead, At
  <2> QED  BY <2>1, OtherKindIsExact
<1>11. CASE FirstPath \/ Spur \/ NextBest \/ NoMore
  <2>1. request'.kind = "kCheapest"
    BY <1>11, Zenon DEF FirstPath, Spur, NextBest, NoMore, At
  <2> QED  BY <2>1, OtherKindIsExact
<1>12. CASE ExpandHop \/ NextHop \/ HopsDone
  <2>1. request'.kind = "khop"
    BY <1>12 DEF ExpandHop, NextHop, HopsDone, HasRead, At
  <2> QED  BY <2>1, OtherKindIsExact
<1>13. CASE \/ Backtrack \/ CollectEach
            \/ AllRelationshipIds \/ EdgesOfIds \/ AllEdgeNodes \/ SourceOfEdge \/ TargetOfEdge \/ EdgesOfNodes
  <2>1. request'.kind \in {"allCheapest", "analysis"}
    BY <1>13
    DEF Backtrack, CollectEach, AllRelationshipIds, EdgesOfIds, AllEdgeNodes, SourceOfEdge, TargetOfEdge, EdgesOfNodes, At
  <2> QED  BY <2>1, OtherKindIsExact
<1>14. CASE Collect
  BY <1>14, CollectIsExact
<1>15. CASE Reply
  <2>1. work'.at = "idle"
    BY <1>15 DEF Reply, Idle
  <2> QED  BY <2>1, OtherKindIsExact
<1> QED
  BY <1>1, <1>2, <1>3, <1>4, <1>5, <1>6, <1>7, <1>8, <1>9, <1>10, <1>11, <1>12, <1>13, <1>14, <1>15 DEF Step

\* Every action keeps it; a change leaves nothing to say.
LEMMA NextKeepsEInv == EInv /\ [Next]_vars => EInv'
<1> SUFFICES ASSUME EInv, [Next]_vars PROVE EInv'
  OBVIOUS
<1>1. IInv /\ changes \in Nat /\ (changes = 0 => Exact)
  BY DEF EInv
<1>2. IInv'
  BY <1>1, NextKeepsIInv
<1>3. ASSUME NEW q \in Request, Ask(q) PROVE changes' \in Nat /\ (changes' = 0 => Exact')
  <2>1. changes' = 0
    BY <1>3 DEF Ask
  <2>2. Exact'
    BY <1>1, <1>3, AskIsExact
  <2> QED  BY <2>1, <2>2
<1>4. ASSUME NEW r \in Changing, NEW c \in Cost \cup {Gone, Unset}, Change(r, c) PROVE changes' \in Nat /\ (changes' = 0 => Exact')
  BY <1>1, <1>4 DEF Change
<1>5. ASSUME Step PROVE changes' \in Nat /\ (changes' = 0 => Exact')
  <2>1. CASE Reply
    <3>1. changes' = 0 /\ work'.at = "idle"
      BY <2>1 DEF Reply, Idle
    <3> QED  BY <3>1, OtherKindIsExact
  <2>2. CASE ~Reply
    <3>1. changes' = changes
      BY <1>5, <2>2, Zenon
      DEF Step, NodeGetLinksPeered, ExpandLevel, NextLevel, Meet, NotFound, Pop, Relax, Unreachable, TraceBack, Backtrack,
          ExpandTrails, TrailsLevel, Resize, FirstPath, Spur, NextBest, NoMore, ExpandHop, NextHop, HopsDone,
          AllRelationshipIds, EdgesOfIds, AllEdgeNodes, SourceOfEdge, TargetOfEdge, EdgesOfNodes,
          Collect, CollectEach, CollectAll
    <3>2. changes = 0 => Exact'
      BY <1>1, <1>5, StepsAreExact
    <3> QED  BY <1>1, <3>1, <3>2
  <2> QED  BY <2>1, <2>2
<1>6. CASE UNCHANGED vars
  <2>1. cost' = cost /\ filled' = filled /\ request' = request /\ work' = work /\ changes' = changes
    BY <1>6 DEF vars
  <2>2. Exact => Exact'
    BY <2>1 DEF Exact, At
  <2> QED  BY <1>1, <1>2, <2>1, <2>2 DEF EInv
<1>7. CASE Next
  <2>1. changes' \in Nat /\ (changes' = 0 => Exact')
    BY <1>3, <1>4, <1>5, <1>7 DEF Next
  <2> QED  BY <1>2, <2>1 DEF EInv
<1> QED  BY <1>6, <1>7

LEMMA InitEInv == Init => EInv
<1> SUFFICES ASSUME Init PROVE EInv
  OBVIOUS
<1>1. IInv
  BY InitIInv
<1>2. work.at = "idle" /\ changes = 0
  BY DEF Init, Idle
<1>3. Exact
  BY <1>2 DEF Exact, At
<1> QED  BY <1>1, <1>2, <1>3 DEF EInv

\* EInv holds in every state.
LEMMA ExactInvariance == Spec => []EInv
BY InitEInv, NextKeepsEInv, PTL DEF Spec

\* BestPathExact: while nothing changes, stopping where the two breadth-first searches first meet
\* loses no shorter path and finds one whenever there is one within max_hops, and Dijkstra's finds
\* a path whenever there is one, none is cheaper at the prices the batches give, and what is
\* answered is that path up to the trace limit with the weight of all of it.
THEOREM BestPathExactHolds == Spec => []BestPathExact
<1>1. EInv => BestPathExact
  <2> SUFFICES ASSUME EInv PROVE BestPathExact
    OBVIOUS
  <2>1. ASSUME Undisturbed({"shortest"}) PROVE ShortestExact
    <3>1. ShortestAnswer(cost, request, work.answer)
      BY <2>1 DEF EInv, Exact, Undisturbed
    <3>2. Within(request.from, request.dir) = BallIn(cost, request.from, request.dir)
      BY Zenon DEF Within, BallIn, NodeGetLinks, LinksIn
    <3>3. IsPath(work.answer, request) <=> IsPathIn(cost, work.answer.nodes, work.answer.rels, request)
      BY TheLinks DEF IsPath, IsPathIn, Joins
    <3> QED  BY <3>1, <3>2, <3>3 DEF ShortestAnswer, ShortestExact
  <2>2. ASSUME Undisturbed({"cheapest"}) PROVE CheapestExact
    <3>1. CheapestAnswer(cost, filled, request, work.answer)
      BY <2>2 DEF EInv, Exact, Undisturbed
    <3>2. SimplePaths(request) = SimpleIn(cost, request)
      <4>1. TrailsFrom(request) = TrailsIn(cost, request)
        BY Zenon DEF TrailsFrom, TrailsIn, NodeGetLinks, LinksIn
      <4> QED  BY <4>1 DEF SimplePaths, SimpleIn
    <3>3. \A p : Weight(p) = WeightIn(cost, filled, request, p)
      <4>1. \A n, r : PriceFrom(n, r) = PriceIn(cost, filled, request, n, r)
        BY TheLinks, Zenon DEF PriceFrom, PriceIn, Charge, Legible
      <4> QED  BY <4>1, Zenon DEF Weight, WeightIn
    <3>4. Cheapest(request) = CheapestIn(cost, filled, request)
      BY <3>2, <3>3 DEF Cheapest, CheapestIn
    <3> QED  BY <3>1, <3>2, <3>3, <3>4, Zenon DEF CheapestAnswer, CheapestExact
  <2> QED  BY <2>1, <2>2 DEF BestPathExact
<1> QED  BY <1>1, ExactInvariance, PTL

=============================================================================
