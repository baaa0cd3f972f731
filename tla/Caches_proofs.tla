----------------------------- MODULE Caches_proofs -----------------------------
(***************************************************************************)
(* What Caches keeps for every number of shards, queries and writes and    *)
(* every capacity: the plan cache holds the queries used last, no plan     *)
(* outlives what it was made from but for a clear that is on its way, and  *)
(* no closure but for word that is on its way.                             *)
(***************************************************************************)
EXTENDS Caches, SequenceTheorems, FiniteSetTheorems, TLAPS

NoRepeats(l) == \A i, j \in 1 .. Len(l) : i # j => l[i] # l[j]

Fit(n) == IF n < capacity THEN n ELSE capacity

\* List l is the beginning of history u, as much of it as fits.
Recent(u, l) ==
    /\ u \in Seq(Query) /\ l \in Seq(Query)
    /\ NoRepeats(u)
    /\ Len(l) = Fit(Len(u))
    /\ \A i \in 1 .. Len(l) : l[i] = u[i]

-----------------------------------------------------------------------------
(* Lists *)

LEMMA PushedFront ==
    ASSUME NEW l \in Seq(Query), NEW k \in Query, NEW r, r = <<k>> \o l
    PROVE  /\ r \in Seq(Query)
           /\ Len(r) = Len(l) + 1
           /\ r[1] = k
           /\ \A i \in 2 .. Len(r) : r[i] = l[i - 1]
<1>1. <<k>> \in Seq(Query) /\ Len(<<k>>) = 1 /\ <<k>>[1] = k
  OBVIOUS
<1>2. Len(l) \in Nat
  BY LenProperties
<1>3. /\ r \in Seq(Query)
      /\ Len(r) = 1 + Len(l)
      /\ \A i \in 1 .. 1 + Len(l) : r[i] = IF i <= 1 THEN <<k>>[i] ELSE l[i - 1]
  BY <1>1, ConcatProperties
<1> QED  BY <1>1, <1>2, <1>3

LEMMA Removed ==
    ASSUME NEW l \in Seq(Query), NEW p \in 1 .. Len(l), NEW r, r = RemoveAt(l, p)
    PROVE  /\ r \in Seq(Query)
           /\ Len(r) = Len(l) - 1
           /\ \A i \in 1 .. Len(r) : r[i] = IF i < p THEN l[i] ELSE l[i + 1]
<1> DEFINE a == SubSeq(l, 1, p - 1)
           b == SubSeq(l, p + 1, Len(l))
<1>1. Len(l) \in Nat /\ \A i \in 1 .. Len(l) : l[i] \in Query
  BY LenProperties, ElementOfSeq
<1>2. /\ a \in Seq(Query)
      /\ Len(a) = p - 1
      /\ \A i \in 1 .. p - 1 : a[i] = l[i]
  <2>1. 1 \in Int /\ p - 1 \in Int /\ \A i \in 1 .. p - 1 : l[i] \in Query
    BY <1>1
  <2>2. /\ a \in Seq(Query)
        /\ Len(a) = IF 1 <= p - 1 THEN (p - 1) - 1 + 1 ELSE 0
        /\ \A i \in 1 .. (p - 1) - 1 + 1 : a[i] = l[1 + i - 1]
    BY <2>1, SubSeqProperties
  <2> HIDE DEF a
  <2> QED  BY <2>2
<1>3. /\ b \in Seq(Query)
      /\ Len(b) = Len(l) - p
      /\ \A i \in 1 .. Len(l) - p : b[i] = l[p + i]
  <2>1. p + 1 \in Int /\ Len(l) \in Int /\ \A i \in p + 1 .. Len(l) : l[i] \in Query
    BY <1>1
  <2>2. /\ b \in Seq(Query)
        /\ Len(b) = IF p + 1 <= Len(l) THEN Len(l) - (p + 1) + 1 ELSE 0
        /\ \A i \in 1 .. Len(l) - (p + 1) + 1 : b[i] = l[(p + 1) + i - 1]
    BY <2>1, SubSeqProperties
  <2> HIDE DEF b
  <2> QED  BY <1>1, <2>2
<1>4. r = a \o b
  BY DEF RemoveAt
<1> HIDE DEF a, b
<1>5. /\ r \in Seq(Query)
      /\ Len(r) = Len(a) + Len(b)
      /\ \A i \in 1 .. Len(a) + Len(b) : r[i] = IF i <= Len(a) THEN a[i] ELSE b[i - Len(a)]
  <2>1. a \in Seq(Query) /\ b \in Seq(Query)
    BY <1>2, <1>3
  <2>2. /\ a \o b \in Seq(Query)
        /\ Len(a \o b) = Len(a) + Len(b)
        /\ \A i \in 1 .. Len(a) + Len(b) : (a \o b)[i] = IF i <= Len(a) THEN a[i] ELSE b[i - Len(a)]
    BY <2>1, ConcatProperties
  <2> QED  BY <1>4, <2>2
<1>6. Len(r) = Len(l) - 1
  BY <1>1, <1>2, <1>3, <1>5
<1>7. ASSUME NEW i \in 1 .. Len(r) PROVE r[i] = IF i < p THEN l[i] ELSE l[i + 1]
  <2>1. CASE i < p
    BY <1>1, <1>2, <1>3, <1>5, <1>6, <2>1
  <2>2. CASE ~(i < p)
    <3>1. r[i] = b[i - (p - 1)] /\ i - (p - 1) \in 1 .. Len(l) - p
      BY <1>1, <1>2, <1>3, <1>5, <1>6, <2>2
    <3>2. b[i - (p - 1)] = l[p + (i - (p - 1))] /\ p + (i - (p - 1)) = i + 1
      BY <1>1, <1>3, <3>1
    <3> QED  BY <2>2, <3>1, <3>2
  <2> QED  BY <2>1, <2>2
<1> QED  BY <1>5, <1>6, <1>7

\* List r is l with k moved from place p, or from behind the last, to the front.
Moved(l, k, r, p) ==
    /\ p <= Len(l) => l[p] = k
    /\ p = Len(l) + 1 => \A i \in 1 .. Len(l) : l[i] # k
    /\ Len(r) = IF p <= Len(l) THEN Len(l) ELSE Len(l) + 1
    /\ r[1] = k
    /\ \A i \in 2 .. Len(r) : r[i] = IF i <= p THEN l[i - 1] ELSE l[i]

LEMMA MovedToFront ==
    ASSUME NEW l \in Seq(Query), NoRepeats(l), NEW k \in Query, NEW r, r = ToFront(l, k)
    PROVE  /\ r \in Seq(Query)
           /\ NoRepeats(r)
           /\ \E p \in 1 .. Len(l) + 1 : Moved(l, k, r, p)
<1>1. Len(l) \in Nat /\ DOMAIN l = 1 .. Len(l)
  BY LenProperties
<1>2. CASE k \in Range(l)
  <2> DEFINE p == Place(l, k)
             q == RemoveAt(l, p)
  <2>1. p \in 1 .. Len(l) /\ l[p] = k
    BY <1>1, <1>2 DEF Place, Range
  <2> HIDE DEF p
  <2>2. /\ q \in Seq(Query)
        /\ Len(q) = Len(l) - 1
        /\ \A i \in 1 .. Len(q) : q[i] = IF i < p THEN l[i] ELSE l[i + 1]
    BY <2>1, Removed
  <2>3. r = <<k>> \o q
    BY <1>2 DEF ToFront, p
  <2> HIDE DEF q
  <2>4. /\ r \in Seq(Query)
        /\ Len(r) = Len(q) + 1
        /\ r[1] = k
        /\ \A i \in 2 .. Len(r) : r[i] = q[i - 1]
    BY <2>2, <2>3, PushedFront
  <2>5. \A i \in 2 .. Len(r) : r[i] = IF i <= p THEN l[i - 1] ELSE l[i]
    <3> SUFFICES ASSUME NEW i \in 2 .. Len(r) PROVE r[i] = IF i <= p THEN l[i - 1] ELSE l[i]
      OBVIOUS
    <3>1. i - 1 \in 1 .. Len(q) /\ (i - 1 < p <=> i <= p) /\ (i - 1) + 1 = i
      BY <1>1, <2>1, <2>2, <2>4
    <3>2. q[i - 1] = IF i - 1 < p THEN l[i - 1] ELSE l[(i - 1) + 1]
      BY <2>2, <3>1
    <3> QED  BY <2>4, <3>1, <3>2
  <2>6. \A i \in 2 .. Len(r) : r[i] # k
    BY <1>1, <2>1, <2>2, <2>4, <2>5 DEF NoRepeats
  <2>7. ASSUME NEW i \in 2 .. Len(r), NEW j \in 2 .. Len(r), i # j PROVE r[i] # r[j]
    <3> DEFINE a == IF i <= p THEN i - 1 ELSE i
               b == IF j <= p THEN j - 1 ELSE j
    <3>1. a \in 1 .. Len(l) /\ b \in 1 .. Len(l) /\ a # b
      BY <1>1, <2>1, <2>2, <2>4, <2>7
    <3>2. r[i] = l[a] /\ r[j] = l[b]
      BY <2>5
    <3> HIDE DEF a, b
    <3> QED  BY <3>1, <3>2 DEF NoRepeats
  <2>8. NoRepeats(r)
    <3>1. \A i \in 1 .. Len(r) : i = 1 \/ i \in 2 .. Len(r)
      BY <1>1, <2>2, <2>4
    <3> QED  BY <2>4, <2>6, <2>7, <3>1 DEF NoRepeats
  <2>9. /\ p \in 1 .. Len(l) + 1 /\ p <= Len(l) /\ p # Len(l) + 1
        /\ Len(r) = Len(l)
    BY <1>1, <2>1, <2>2, <2>4
  <2> QED  BY <2>1, <2>4, <2>5, <2>8, <2>9 DEF Moved
<1>3. CASE k \notin Range(l)
  <2>1. r = <<k>> \o l
    BY <1>3 DEF ToFront
  <2>2. /\ r \in Seq(Query)
        /\ Len(r) = Len(l) + 1
        /\ r[1] = k
        /\ \A i \in 2 .. Len(r) : r[i] = l[i - 1]
    BY <2>1, PushedFront
  <2>3. \A i \in 1 .. Len(l) : l[i] # k
    BY <1>1, <1>3 DEF Range
  <2>4. \A i \in 1 .. Len(r) : i = 1 \/ (i \in 2 .. Len(r) /\ i - 1 \in 1 .. Len(l))
    BY <1>1, <2>2
  <2>5. NoRepeats(r)
    <3> SUFFICES ASSUME NEW i \in 1 .. Len(r), NEW j \in 1 .. Len(r), i # j PROVE r[i] # r[j]
      BY DEF NoRepeats
    <3>1. CASE i = 1
      <4>1. j \in 2 .. Len(r) /\ j - 1 \in 1 .. Len(l)
        BY <2>4, <3>1
      <4> QED  BY <2>2, <2>3, <3>1, <4>1
    <3>2. CASE j = 1
      <4>1. i \in 2 .. Len(r) /\ i - 1 \in 1 .. Len(l)
        BY <2>4, <3>2
      <4> QED  BY <2>2, <2>3, <3>2, <4>1
    <3>3. CASE i # 1 /\ j # 1
      <4>1. /\ i \in 2 .. Len(r) /\ i - 1 \in 1 .. Len(l)
            /\ j \in 2 .. Len(r) /\ j - 1 \in 1 .. Len(l)
        BY <2>4, <3>3
      <4>2. i - 1 # j - 1
        BY <4>1
      <4>3. l[i - 1] # l[j - 1]
        BY <4>1, <4>2 DEF NoRepeats
      <4> QED  BY <2>2, <4>1, <4>3
    <3> QED  BY <3>1, <3>2, <3>3
  <2>6. \A i \in 2 .. Len(r) : i <= Len(l) + 1
    BY <1>1, <2>2
  <2> QED  BY <1>1, <2>2, <2>3, <2>5, <2>6 DEF Moved
<1> QED  BY <1>2, <1>3

LEMMA FrontOf ==
    ASSUME NEW l \in Seq(Query), NEW n \in Nat, Len(l) = n + 1, NEW r, r = Front(l)
    PROVE  /\ r \in Seq(Query)
           /\ Len(r) = n
           /\ \A i \in 1 .. n : r[i] = l[i]
<1>1. Len(l) - 1 = n
  OBVIOUS
<1>2. r = SubSeq(l, 1, n)
  BY <1>1 DEF Front
<1>3. 1 \in Int /\ n \in Int /\ \A i \in 1 .. n : l[i] \in Query
  BY ElementOfSeq
<1>4. /\ r \in Seq(Query)
      /\ Len(r) = IF 1 <= n THEN n - 1 + 1 ELSE 0
      /\ \A i \in 1 .. n - 1 + 1 : r[i] = l[1 + i - 1]
  BY <1>2, <1>3, SubSeqProperties
<1> QED  BY <1>4

LEMMA SizeOfRange ==
    ASSUME NEW l \in Seq(Query), NoRepeats(l)
    PROVE  IsFiniteSet(Range(l)) /\ Cardinality(Range(l)) = Len(l)
<1>1. Len(l) \in Nat /\ DOMAIN l = 1 .. Len(l) /\ l \in [1 .. Len(l) -> Query]
  BY LenProperties
<1>2. l \in [1 .. Len(l) -> Range(l)] /\ \A y \in Range(l) : \E i \in 1 .. Len(l) : l[i] = y
  BY <1>1 DEF Range
<1>3. \A i, j \in 1 .. Len(l) : l[i] = l[j] => i = j
  BY DEF NoRepeats
<1>4. l \in Injection(1 .. Len(l), Range(l)) /\ l \in Surjection(1 .. Len(l), Range(l))
  BY <1>2, <1>3 DEF Injection, Surjection, IsInjective
<1>5. IsFiniteSet(1 .. Len(l)) /\ Cardinality(1 .. Len(l)) = Len(l)
  BY <1>1, FS_Interval
<1> QED  BY <1>4, <1>5, FS_Surjection

-----------------------------------------------------------------------------
(* The plan cache *)

LEMMA RecentIsBeginning ==
    ASSUME NEW u, NEW l, Recent(u, l)
    PROVE  l = SubSeq(u, 1, IF Len(u) < capacity THEN Len(u) ELSE capacity)
<1> DEFINE n == Fit(Len(u))
           b == SubSeq(u, 1, n)
<1>1. u \in Seq(Query) /\ l \in Seq(Query) /\ Len(l) = n /\ \A i \in 1 .. Len(l) : l[i] = u[i]
  BY DEF Recent
<1>2. n \in Nat
  BY <1>1, LenProperties
<1>3. 1 \in Int /\ n \in Int /\ \A i \in 1 .. n : u[i] \in Query
  <2>1. \A i \in 1 .. Len(l) : l[i] \in Query
    BY <1>1, ElementOfSeq
  <2> HIDE DEF n
  <2> QED  BY <1>1, <1>2, <2>1
<1> HIDE DEF n
<1>4. /\ b \in Seq(Query)
      /\ Len(b) = IF 1 <= n THEN n - 1 + 1 ELSE 0
      /\ \A i \in 1 .. n - 1 + 1 : b[i] = u[1 + i - 1]
  BY <1>3, SubSeqProperties
<1> HIDE DEF b
<1>5. Len(b) = n /\ \A i \in 1 .. n : b[i] = u[i]
  BY <1>2, <1>4
<1>6. l = b
  BY <1>1, <1>4, <1>5, SeqEqual
<1> QED  BY <1>6 DEF b, n, Fit

LEMMA RecentWhenCleared == Recent(<<>>, <<>>) /\ Range(<<>>) = {}
<1>1. <<>> \in Seq(Query) /\ Len(<<>>) = 0 /\ DOMAIN <<>> = {}
  BY EmptySeq
<1>2. Fit(0) = 0
  BY CachesAssumption DEF Fit
<1> QED  BY <1>1, <1>2 DEF Recent, NoRepeats, Range

\* A query whose plan is found comes first in the list, as in the history.
LEMMA RecentWhenFound ==
    ASSUME NEW u, NEW l, Recent(u, l), NEW k \in Range(l),
           NEW v, v = ToFront(u, k), NEW m, m = ToFront(l, k)
    PROVE  Recent(v, m) /\ Range(m) = Range(l)
<1>1. /\ u \in Seq(Query) /\ l \in Seq(Query) /\ NoRepeats(u)
      /\ Len(l) = Fit(Len(u)) /\ \A i \in 1 .. Len(l) : l[i] = u[i]
  BY DEF Recent
<1>2. /\ Len(u) \in Nat /\ Len(l) \in Nat /\ capacity \in Nat
      /\ DOMAIN l = 1 .. Len(l)
      /\ Len(l) <= Len(u)
  BY <1>1, LenProperties, CachesAssumption DEF Fit
<1>3. NoRepeats(l)
  BY <1>1, <1>2 DEF NoRepeats
<1>4. k \in Query /\ \E i \in 1 .. Len(l) : l[i] = k
  BY <1>1, <1>2, ElementOfSeq DEF Range
<1>16. PICK p \in 1 .. Len(l) + 1 : Moved(l, k, m, p)
  BY <1>1, <1>3, <1>4, MovedToFront
<1>17. PICK q \in 1 .. Len(u) + 1 : Moved(u, k, v, q)
  BY <1>1, <1>4, MovedToFront
<1>5. /\ p <= Len(l) => l[p] = k
      /\ p = Len(l) + 1 => \A i \in 1 .. Len(l) : l[i] # k
      /\ Len(m) = IF p <= Len(l) THEN Len(l) ELSE Len(l) + 1
      /\ m[1] = k
      /\ \A i \in 2 .. Len(m) : m[i] = IF i <= p THEN l[i - 1] ELSE l[i]
  BY <1>16 DEF Moved
<1>6. /\ q <= Len(u) => u[q] = k
      /\ q = Len(u) + 1 => \A i \in 1 .. Len(u) : u[i] # k
      /\ Len(v) = IF q <= Len(u) THEN Len(u) ELSE Len(u) + 1
      /\ v[1] = k
      /\ \A i \in 2 .. Len(v) : v[i] = IF i <= q THEN u[i - 1] ELSE u[i]
  BY <1>17 DEF Moved
<1>7. v \in Seq(Query) /\ NoRepeats(v) /\ m \in Seq(Query)
  BY <1>1, <1>3, <1>4, MovedToFront
<1>8. p \in 1 .. Len(l) /\ l[p] = k /\ u[p] = k
  BY <1>1, <1>2, <1>4, <1>5
<1>9. q = p
  <2>1. p \in 1 .. Len(u)
    BY <1>2, <1>8
  <2>2. q \in 1 .. Len(u) /\ u[q] = k
    BY <1>2, <1>6, <1>8, <2>1
  <2> QED  BY <1>1, <1>8, <2>1, <2>2 DEF NoRepeats
<1>10. Len(m) = Len(l) /\ Len(v) = Len(u)
  BY <1>2, <1>5, <1>6, <1>8, <1>9
<1>11. \A i \in 1 .. Len(m) : m[i] = v[i]
  <2>1. m[1] = v[1]
    BY <1>5, <1>6
  <2>2. ASSUME NEW i \in 2 .. Len(m) PROVE m[i] = v[i]
    <3>1. m[i] = IF i <= p THEN l[i - 1] ELSE l[i]
      BY <1>5, <2>2
    <3>2. v[i] = IF i <= p THEN u[i - 1] ELSE u[i]
      BY <1>2, <1>6, <1>9, <1>10
    <3>3. l[i - 1] = u[i - 1] /\ l[i] = u[i]
      BY <1>1, <1>2, <1>10
    <3> QED  BY <3>1, <3>2, <3>3
  <2>3. \A i \in 1 .. Len(m) : i = 1 \/ i \in 2 .. Len(m)
    BY <1>2, <1>10
  <2> QED  BY <2>1, <2>2, <2>3
<1>12. Recent(v, m)
  BY <1>1, <1>7, <1>10, <1>11 DEF Recent
<1>13. DOMAIN m = 1 .. Len(l)
  BY <1>7, <1>10, LenProperties
<1>14. Range(m) \subseteq Range(l)
  <2> SUFFICES ASSUME NEW x \in Range(m) PROVE x \in Range(l)
    OBVIOUS
  <2>3. PICK i \in 1 .. Len(l) : x = m[i]
    BY <1>13 DEF Range
  <2> SUFFICES \E j \in 1 .. Len(l) : m[i] = l[j]
    BY <1>2, <2>3 DEF Range
  <2>1. CASE i = 1
    BY <1>5, <1>8, <2>1
  <2>2. CASE i # 1
    <3>1. i \in 2 .. Len(m) /\ i - 1 \in 1 .. Len(l)
      BY <1>2, <1>10, <2>2
    <3> QED  BY <1>5, <3>1
  <2> QED  BY <2>1, <2>2
<1>15. Range(l) \subseteq Range(m)
  <2> SUFFICES ASSUME NEW x \in Range(l) PROVE x \in Range(m)
    OBVIOUS
  <2>4. PICK i \in 1 .. Len(l) : x = l[i]
    BY <1>2 DEF Range
  <2> SUFFICES \E j \in 1 .. Len(l) : l[i] = m[j]
    BY <1>13, <2>4 DEF Range
  <2>1. CASE i = p
    <3>1. 1 \in 1 .. Len(l)
      BY <1>2, <1>8
    <3> QED  BY <1>5, <1>8, <2>1, <3>1
  <2>2. CASE i < p
    <3>1. i + 1 \in 2 .. Len(m) /\ i + 1 <= p /\ (i + 1) - 1 = i /\ i + 1 \in 1 .. Len(l)
      BY <1>2, <1>8, <1>10, <2>2
    <3>2. m[i + 1] = l[i]
      BY <1>5, <3>1
    <3> QED  BY <3>1, <3>2
  <2>3. CASE i > p
    <3>1. i \in 2 .. Len(m) /\ ~(i <= p)
      BY <1>2, <1>8, <1>10, <2>3
    <3>2. m[i] = l[i]
      BY <1>5, <3>1
    <3> QED  BY <3>2
  <2> QED  BY <1>8, <2>1, <2>2, <2>3
<1> QED  BY <1>12, <1>14, <1>15

\* What is kept of list l for another query.
Kept(l) == IF Len(l) = capacity THEN Front(l) ELSE l

\* A query whose plan is made comes first in the list, and at the capacity the last one leaves.
LEMMA RecentWhenPut ==
    ASSUME NEW u, NEW l, Recent(u, l), NEW k \in Query, k \notin Range(l),
           NEW v, v = ToFront(u, k),
           NEW f, f = Kept(l),
           NEW m, m = <<k>> \o f
    PROVE  /\ Recent(v, m)
           /\ Range(m) = {k} \cup (IF Len(l) = capacity THEN Range(l) \ {Last(l)} ELSE Range(l))
<1>1. /\ u \in Seq(Query) /\ l \in Seq(Query) /\ NoRepeats(u)
      /\ Len(l) = Fit(Len(u)) /\ \A i \in 1 .. Len(l) : l[i] = u[i]
  BY DEF Recent
<1>2. /\ Len(u) \in Nat /\ Len(l) \in Nat /\ capacity \in Nat \ {0}
      /\ DOMAIN l = 1 .. Len(l)
      /\ Len(l) <= Len(u) /\ Len(l) <= capacity
      /\ Len(l) < capacity => Len(l) = Len(u)
  BY <1>1, LenProperties, CachesAssumption DEF Fit
<1>3. NoRepeats(l)
  BY <1>1, <1>2 DEF NoRepeats
<1>4. \A i \in 1 .. Len(l) : l[i] # k
  BY <1>2 DEF Range
<1>5. v \in Seq(Query) /\ NoRepeats(v)
  BY <1>1, MovedToFront
<1>6. PICK q \in 1 .. Len(u) + 1 : Moved(u, k, v, q)
  BY <1>1, MovedToFront
<1>7. /\ q <= Len(u) => u[q] = k
      /\ Len(v) = IF q <= Len(u) THEN Len(u) ELSE Len(u) + 1
      /\ v[1] = k
      /\ \A i \in 2 .. Len(v) : v[i] = IF i <= q THEN u[i - 1] ELSE u[i]
  BY <1>6 DEF Moved
<1>22. \A i \in 1 .. Len(l) : u[i] # k
  BY <1>1, <1>2, <1>4, Zenon DEF Fit
<1>8. q > Len(l)
  <2>1. q \in 1 .. Len(l) => q <= Len(u) /\ u[q] = k
    BY <1>2, <1>7
  <2>2. q \notin 1 .. Len(l)
    BY <2>1, <1>22, Zenon
  <2> QED  BY <1>2, <2>2
<1> DEFINE full == Len(l) = capacity
<1>19. f = IF full THEN Front(l) ELSE l
  BY DEF Kept
<1>20. PICK e \in Nat : full => Len(l) = e + 1 /\ Len(l) = capacity
  <2>1. CASE full
    BY <1>2, <2>1
  <2>2. CASE ~full
    BY <2>2
  <2> QED  BY <2>1, <2>2
<1>21. ~full => Len(l) < capacity
  <2>1. \A a, b \in Nat : a <= b /\ a # b => a < b
    OBVIOUS
  <2> QED  BY <1>2, <2>1, Zenon
<1> HIDE DEF full
<1>9. /\ f \in Seq(Query)
      /\ Len(f) = IF full THEN e ELSE Len(l)
      /\ \A i \in 1 .. Len(f) : f[i] = l[i]
  <2>1. CASE full
    <3>1. Len(l) = e + 1 /\ f = Front(l)
      BY <1>19, <1>20, <2>1
    <3>2. f \in Seq(Query) /\ Len(f) = e /\ \A i \in 1 .. e : f[i] = l[i]
      BY <1>1, <3>1, FrontOf
    <3> QED  BY <2>1, <3>2
  <2>2. CASE ~full
    BY <1>1, <1>19, <2>2
  <2> QED  BY <2>1, <2>2
<1>10. /\ m \in Seq(Query)
       /\ Len(m) = Len(f) + 1
       /\ m[1] = k
       /\ \A i \in 2 .. Len(m) : m[i] = f[i - 1]
  BY <1>9, PushedFront
<1>11. /\ Len(f) \in Nat /\ Len(f) <= Len(l) /\ Len(f) < capacity
       /\ Len(f) = IF Len(u) < capacity THEN Len(u) ELSE capacity - 1
  BY <1>1, <1>2, <1>9, <1>20, <1>21 DEF Fit
<1>12. Len(m) = Fit(Len(v))
  <2>1. Len(v) \in Nat /\ Len(u) <= Len(v) /\ Len(v) <= Len(u) + 1
    BY <1>2, <1>7
  <2>2. CASE Len(u) < capacity
    <3>1. Len(v) = Len(u) + 1
      BY <1>1, <1>2, <1>7, <1>8, <2>2 DEF Fit
    <3> QED  BY <1>2, <1>10, <1>11, <2>2, <3>1 DEF Fit
  <2>3. CASE ~(Len(u) < capacity)
    BY <1>2, <1>10, <1>11, <2>1, <2>3 DEF Fit
  <2> QED  BY <2>2, <2>3
<1>13. ASSUME NEW i \in 2 .. Len(m) PROVE m[i] = v[i]
  <2>1. i - 1 \in 1 .. Len(f) /\ i - 1 \in 1 .. Len(l) /\ i <= q
    BY <1>2, <1>8, <1>10, <1>11
  <2>2. m[i] = u[i - 1]
    BY <1>1, <1>9, <1>10, <2>1
  <2>3. i \in 2 .. Len(v)
    <3>1. Len(m) <= Len(v)
      BY <1>2, <1>7, <1>12 DEF Fit
    <3>2. Len(v) \in Nat /\ Len(m) \in Nat
      BY <1>2, <1>7, <1>10, <1>11
    <3> QED  BY <3>1, <3>2
  <2> QED  BY <1>7, <2>1, <2>2, <2>3
<1>14. Recent(v, m)
  <2>1. \A i \in 1 .. Len(m) : i = 1 \/ i \in 2 .. Len(m)
    BY <1>10, <1>11
  <2> QED  BY <1>5, <1>7, <1>10, <1>12, <1>13, <2>1 DEF Recent
<1>15. /\ DOMAIN m = 1 .. Len(f) + 1 /\ DOMAIN f = 1 .. Len(f)
       /\ \A i \in 1 .. Len(f) + 1 : i = 1 \/ (i \in 2 .. Len(m) /\ i - 1 \in 1 .. Len(f))
       /\ \A i \in 1 .. Len(f) : i + 1 \in 2 .. Len(m) /\ (i + 1) - 1 = i /\ i + 1 \in 1 .. Len(f) + 1
       /\ 1 \in 1 .. Len(f) + 1
  BY <1>9, <1>10, <1>11, LenProperties
<1>16. Range(m) = {k} \cup Range(f)
  <2>1. Range(m) \subseteq {k} \cup Range(f)
    <3> SUFFICES ASSUME NEW i \in 1 .. Len(f) + 1 PROVE m[i] \in {k} \cup Range(f)
      BY <1>15 DEF Range
    <3> QED  BY <1>10, <1>15 DEF Range
  <2>2. Range(f) \subseteq Range(m)
    <3> SUFFICES ASSUME NEW i \in 1 .. Len(f) PROVE f[i] \in Range(m)
      BY <1>15 DEF Range
    <3>1. m[i + 1] = f[i]
      BY <1>10, <1>15
    <3> QED  BY <1>15, <3>1 DEF Range
  <2>3. k \in Range(m)
    BY <1>10, <1>15 DEF Range
  <2> QED  BY <2>1, <2>2, <2>3
<1>17. CASE full
  <2>1. Len(f) = e /\ Len(l) = e + 1 /\ Last(l) = l[e + 1]
    BY <1>9, <1>17, <1>20 DEF Last
  <2>2. \A i \in 1 .. e + 1 : i \in 1 .. e \/ i = e + 1
    OBVIOUS
  <2>3. e + 1 \in 1 .. e + 1 /\ \A i \in 1 .. e : i \in 1 .. e + 1 /\ i # e + 1
    OBVIOUS
  <2>4. \A i \in 1 .. e : f[i] = l[i] /\ l[i] # Last(l)
    BY <1>3, <1>9, <2>1, <2>3 DEF NoRepeats
  <2>5. Range(f) = Range(l) \ {Last(l)}
    BY <1>2, <1>15, <2>1, <2>2, <2>3, <2>4 DEF Range
  <2> QED  BY <1>14, <1>16, <1>17, <1>20, <2>5
<1>18. CASE ~full
  <2>1. f = l
    BY <1>18, <1>19
  <2> QED  BY <1>14, <1>16, <1>18, <2>1 DEF full
<1> QED  BY <1>17, <1>18

-----------------------------------------------------------------------------
(* The invariant *)

PlansKept ==
    \A s \in Shard : Recent(used[s], lru_list[s]) /\ DOMAIN cache_map[s] = Range(lru_list[s])

\* A shard whose change of the view is on its way has not gone on to clear the plans.
ViewsFirst == \A m \in sent : m.op = "view" => m.by \in Caller /\ statement[m.by] = "view"

IInv == TypeOK /\ PlansKept /\ ViewsFirst /\ PlansFresh /\ ClosuresFresh

CacheMaps == UNION {[keys -> Plan] : keys \in SUBSET Query}

LEMMA CacheMapIs ==
    ASSUME NEW keys \in SUBSET Query, NEW f \in [keys -> Plan]
    PROVE  f \in CacheMaps
BY DEF CacheMaps

LEMMA CacheMapHas ==
    ASSUME NEW f \in CacheMaps
    PROVE  /\ DOMAIN f \in SUBSET Query
           /\ f \in [DOMAIN f -> Plan]
BY DEF CacheMaps

LEMMA MessageFields ==
    ASSUME NEW m \in Message
    PROVE  /\ m.to \in Shard
           /\ m.op \in {"view", "traits", "plans", "all", "invalidate"}
           /\ m.op = "view" => m.by \in Shard /\ m.value \in 0 .. MaxChanges
           /\ m.op = "traits" => m.value \in BOOLEAN
BY DEF Message

\* Clearing the plans of shard c leaves nothing there and the other shards' plans alone.
LEMMA ClearPlansKeeps ==
    ASSUME TypeOK, PlansKept, NEW c \in Shard, ClearPlans(c)
    PROVE  /\ lru_list' \in [Shard -> Seq(Query)]
           /\ cache_map' \in [Shard -> CacheMaps]
           /\ used' \in [Shard -> Seq(Query)]
           /\ PlansKept'
           /\ DOMAIN cache_map'[c] = {}
           /\ \A s \in Shard \ {c} : cache_map'[s] = cache_map[s]
<1>1. /\ lru_list \in [Shard -> Seq(Query)]
      /\ cache_map \in [Shard -> CacheMaps]
      /\ used \in [Shard -> Seq(Query)]
  BY DEF TypeOK, CacheMaps
<1>2. Empty \in CacheMaps /\ DOMAIN Empty = {}
  <2>1. Empty \in [{} -> Plan] /\ {} \in SUBSET Query
    BY DEF Empty
  <2> QED  BY <2>1, CacheMapIs DEF Empty
<1>3. <<>> \in Seq(Query)
  OBVIOUS
<1>4. /\ lru_list' = [lru_list EXCEPT ![c] = <<>>]
      /\ cache_map' = [cache_map EXCEPT ![c] = Empty]
      /\ used' = [used EXCEPT ![c] = <<>>]
  BY DEF ClearPlans
<1>5. /\ lru_list' \in [Shard -> Seq(Query)]
      /\ used' \in [Shard -> Seq(Query)]
  BY <1>1, <1>3, <1>4
<1>6. cache_map' \in [Shard -> CacheMaps]
  BY <1>1, <1>2, <1>4
<1>7. /\ lru_list'[c] = <<>> /\ used'[c] = <<>> /\ cache_map'[c] = Empty
      /\ \A s \in Shard \ {c} : /\ lru_list'[s] = lru_list[s]
                                /\ used'[s] = used[s]
                                /\ cache_map'[s] = cache_map[s]
  BY <1>1, <1>4
<1>8. PlansKept'
  <2> SUFFICES ASSUME NEW s \in Shard
               PROVE  Recent(used'[s], lru_list'[s]) /\ DOMAIN cache_map'[s] = Range(lru_list'[s])
    BY DEF PlansKept, Recent, NoRepeats, Fit, Range
  <2>1. CASE s = c
    BY <1>2, <1>7, <2>1, RecentWhenCleared
  <2>2. CASE s # c
    BY <1>7, <2>2 DEF PlansKept
  <2> QED  BY <2>1, <2>2
<1> QED  BY <1>2, <1>5, <1>6, <1>7, <1>8

LEMMA PlansAlone ==
    ASSUME PlansKept, lru_list' = lru_list, cache_map' = cache_map, used' = used
    PROVE  PlansKept'
BY DEF PlansKept, Recent, NoRepeats, Fit, Range

\* A shard whose catalog and plans are what they were, or whose plans are gone, has no plan that
\* was not there, provided a clear it was owed is still owed.
LEMMA FreshPlansStay ==
    ASSUME PlansFresh,
           \A s \in Shard :
               \/ DOMAIN cache_map'[s] = {}
               \/ /\ cache_map'[s] = cache_map[s] /\ traits'[s] = traits[s]
                  /\ view'[s] # view[s] => ClearOwed(s)'
                  /\ ClearOwed(s) => ClearOwed(s)'
    PROVE  PlansFresh'
<1> SUFFICES ASSUME NEW s \in Shard, NEW k \in DOMAIN cache_map'[s]
             PROVE  /\ cache_map'[s][k].traits = traits'[s]
                    /\ cache_map'[s][k].view # view'[s] => ClearOwed(s)'
  BY DEF PlansFresh, ClearOwed
<1>1. /\ cache_map'[s] = cache_map[s] /\ traits'[s] = traits[s]
      /\ view'[s] # view[s] => ClearOwed(s)'
      /\ ClearOwed(s) => ClearOwed(s)'
  OBVIOUS
<1>2. /\ cache_map[s][k].traits = traits[s]
      /\ cache_map[s][k].view # view[s] => ClearOwed(s)
  BY <1>1 DEF PlansFresh
<1> QED  BY <1>1, <1>2

\* Word of a write is not lost while closures are only forgotten.
LEMMA FreshClosuresStay ==
    ASSUME ClosuresFresh, stored' = stored, stage' = stage,
           \A s \in Shard : closure'[s] = closure[s] \/ closure'[s] = NoClosure,
           \A s \in Shard, w \in Write :
               [op |-> "invalidate", write |-> w, to |-> s] \in sent =>
                  \/ [op |-> "invalidate", write |-> w, to |-> s] \in sent'
                  \/ closure'[s] = NoClosure
    PROVE  ClosuresFresh'
<1> SUFFICES ASSUME NEW s \in Shard, NEW w \in Write,
                    closure'[s] # NoClosure, w \in Stored' \ closure'[s].seen
             PROVE  \/ stage'[w].is = "stored"
                    \/ [op |-> "invalidate", write |-> w, to |-> s] \in sent'
                    \/ w \in closure'[s].missed
                    \/ stage'[w].is = "quiet"
  BY DEF ClosuresFresh
<1>1. closure'[s] = closure[s] /\ Stored' = Stored
  BY DEF Stored
<1> QED  BY <1>1 DEF ClosuresFresh

-----------------------------------------------------------------------------
(* Every step keeps the invariant *)

\* Steps that change neither catalogs nor plans nor closures, and take no word back.
LEMMA QuietStep ==
    ASSUME IInv, TypeOK', view' = view, traits' = traits, lru_list' = lru_list, cache_map' = cache_map,
           used' = used, closure' = closure, stored' = stored, stage' = stage, sent' = sent,
           \A c \in Caller : statement'[c] = "view" <=> statement[c] = "view"
    PROVE  IInv'
<1>1. PlansKept'
  BY PlansAlone DEF IInv
<1>2. ViewsFirst'
  BY DEF IInv, ViewsFirst
<1>3. \A s \in Shard : ClearOwed(s) => ClearOwed(s)'
  BY DEF ClearOwed
<1>4. PlansFresh'
  BY <1>3, FreshPlansStay DEF IInv
<1>5. ClosuresFresh'
  BY FreshClosuresStay DEF IInv
<1> QED  BY <1>1, <1>2, <1>4, <1>5 DEF IInv

LEMMA FillReadKeepsIInv ==
    ASSUME IInv, NEW s \in Shard, NEW d \in Shard, FillRead(s, d)
    PROVE  IInv'
<1>1. fill[s] \in [seen : SUBSET Write, unread : SUBSET Shard] /\ stored[d] \in SUBSET Write
  BY DEF IInv, TypeOK, FillRead
<1>2. [seen |-> fill[s].seen \cup stored[d], unread |-> fill[s].unread \ {d}]
          \in [seen : SUBSET Write, unread : SUBSET Shard]
  BY <1>1
<1>3. fill' \in [Shard -> {NoFill} \cup [seen : SUBSET Write, unread : SUBSET Shard]]
  BY <1>2 DEF IInv, TypeOK, FillRead
<1>4. TypeOK'
  BY <1>3 DEF IInv, TypeOK, FillRead
<1> QED  BY <1>4, QuietStep DEF FillRead

LEMMA AnswerKeepsIInv ==
    ASSUME IInv, NEW c \in Caller, Answer(c)
    PROVE  IInv'
<1>1. c \in Shard /\ statement \in [Shard -> {"none", "view", "traits", "plans", "all"}]
  BY CachesAssumption DEF IInv, TypeOK
<1>2. TypeOK'
  BY <1>1 DEF IInv, TypeOK, Answer
<1>3. \A d \in Caller : statement'[d] = "view" <=> statement[d] = "view"
  BY <1>1, CachesAssumption DEF Answer
<1> QED  BY <1>2, <1>3, QuietStep DEF Answer

\* The plans of a shard after a query whose plan is made there.
LEMMA PutKeepsPlans ==
    ASSUME TypeOK, PlansKept, NEW s \in Shard, NEW k \in Query, k \notin DOMAIN cache_map[s],
           NEW plan \in Plan, Put(s, k, plan), used' = [used EXCEPT ![s] = ToFront(@, k)]
    PROVE  /\ lru_list' \in [Shard -> Seq(Query)]
           /\ cache_map' \in [Shard -> CacheMaps]
           /\ used' \in [Shard -> Seq(Query)]
           /\ PlansKept'
           /\ \A d \in Shard \ {s} : cache_map'[d] = cache_map[d]
           /\ cache_map'[s][k] = plan
           /\ \A x \in DOMAIN cache_map'[s] \ {k} :
                 x \in DOMAIN cache_map[s] /\ cache_map'[s][x] = cache_map[s][x]
<1> DEFINE l == lru_list[s]
           f == Kept(l)
           kept == IF Len(l) = capacity THEN DOMAIN cache_map[s] \ {Last(l)} ELSE DOMAIN cache_map[s]
           g == [x \in kept \cup {k} |-> IF x = k THEN plan ELSE cache_map[s][x]]
<1>1. /\ lru_list \in [Shard -> Seq(Query)]
      /\ cache_map \in [Shard -> CacheMaps]
      /\ used \in [Shard -> Seq(Query)]
  BY DEF TypeOK, CacheMaps
<1>2. Recent(used[s], l) /\ DOMAIN cache_map[s] = Range(l)
  BY DEF PlansKept
<1>3. /\ l \in Seq(Query) /\ Len(l) \in Nat /\ Len(l) <= capacity /\ capacity \in Nat \ {0} /\ NoRepeats(l)
  <2>1. /\ l \in Seq(Query) /\ used[s] \in Seq(Query) /\ NoRepeats(used[s])
        /\ Len(l) = Fit(Len(used[s])) /\ \A i \in 1 .. Len(l) : l[i] = used[s][i]
    BY <1>2 DEF Recent
  <2>2. Len(l) \in Nat /\ Len(used[s]) \in Nat /\ capacity \in Nat \ {0}
    BY <2>1, LenProperties, CachesAssumption
  <2>3. Len(l) <= capacity /\ Len(l) <= Len(used[s])
    BY <2>1, <2>2 DEF Fit
  <2>4. NoRepeats(l)
    BY <2>1, <2>2, <2>3 DEF NoRepeats
  <2> QED  BY <2>1, <2>2, <2>3, <2>4
<1>4. Cardinality(DOMAIN cache_map[s]) = Len(l)
  BY <1>2, <1>3, SizeOfRange
<1>5. Cardinality(DOMAIN cache_map[s]) >= capacity <=> Len(l) = capacity
  BY <1>3, <1>4
<1>6. /\ lru_list' = [lru_list EXCEPT ![s] = <<k>> \o f]
      /\ cache_map' = [cache_map EXCEPT ![s] = g]
  BY <1>5 DEF Put, Kept
<1>7. /\ lru_list'[s] = <<k>> \o f
      /\ cache_map'[s] = g
      /\ used'[s] = ToFront(used[s], k)
      /\ \A d \in Shard \ {s} : /\ lru_list'[d] = lru_list[d]
                                /\ cache_map'[d] = cache_map[d]
                                /\ used'[d] = used[d]
  BY <1>1, <1>6
<1>8. /\ Recent(used'[s], lru_list'[s])
      /\ Range(lru_list'[s]) = {k} \cup (IF Len(l) = capacity THEN Range(l) \ {Last(l)} ELSE Range(l))
  <2> DEFINE u == used[s]
             v == used'[s]
             m == lru_list'[s]
  <2>1. Recent(u, l) /\ k \notin Range(l) /\ v = ToFront(u, k) /\ f = Kept(l) /\ m = <<k>> \o f
    BY <1>2, <1>7
  <2> HIDE DEF u, v, m, l, f
  <2>2. /\ Recent(v, m)
        /\ Range(m) = {k} \cup (IF Len(l) = capacity THEN Range(l) \ {Last(l)} ELSE Range(l))
    BY <2>1, RecentWhenPut
  <2> QED  BY <2>2 DEF v, m
<1>9. DOMAIN g = {k} \cup (IF Len(l) = capacity THEN Range(l) \ {Last(l)} ELSE Range(l))
  BY <1>2
<1>10. PlansKept'
  <2> SUFFICES ASSUME NEW d \in Shard
               PROVE  Recent(used'[d], lru_list'[d]) /\ DOMAIN cache_map'[d] = Range(lru_list'[d])
    BY DEF PlansKept, Recent, NoRepeats, Fit, Range
  <2>1. CASE d = s
    BY <1>7, <1>8, <1>9, <2>1
  <2>2. CASE d # s
    BY <1>7, <2>2 DEF PlansKept
  <2> QED  BY <2>1, <2>2
<1>11. DOMAIN cache_map[s] \in SUBSET Query /\ \A x \in DOMAIN cache_map[s] : cache_map[s][x] \in Plan
  <2>1. cache_map[s] \in CacheMaps
    BY <1>1
  <2> QED  BY <2>1, CacheMapHas
<1>12. kept \subseteq DOMAIN cache_map[s]
  OBVIOUS
<1> HIDE DEF kept
<1>13. /\ g \in [kept \cup {k} -> Plan] /\ kept \cup {k} \in SUBSET Query
       /\ g[k] = plan
       /\ \A x \in DOMAIN g \ {k} : x \in DOMAIN cache_map[s] /\ g[x] = cache_map[s][x]
  BY <1>11, <1>12
<1> HIDE DEF g
<1>14. g \in CacheMaps
  BY <1>13, CacheMapIs
<1>15. used'[s] \in Seq(Query) /\ lru_list'[s] \in Seq(Query)
  BY <1>8 DEF Recent
<1>16. /\ lru_list' \in [Shard -> Seq(Query)]
       /\ cache_map' \in [Shard -> CacheMaps]
       /\ used' \in [Shard -> Seq(Query)]
  BY <1>1, <1>6, <1>7, <1>14, <1>15
<1> QED  BY <1>7, <1>10, <1>13, <1>16

\* The plans of a shard after a query whose plan was there.
LEMMA GetKeepsPlans ==
    ASSUME TypeOK, PlansKept, NEW s \in Shard, NEW k \in DOMAIN cache_map[s],
           Get(s, k), used' = [used EXCEPT ![s] = ToFront(@, k)]
    PROVE  /\ lru_list' \in [Shard -> Seq(Query)]
           /\ used' \in [Shard -> Seq(Query)]
           /\ cache_map' = cache_map
           /\ PlansKept'
<1>1. /\ lru_list \in [Shard -> Seq(Query)]
      /\ used \in [Shard -> Seq(Query)]
  BY DEF TypeOK
<1>2. Recent(used[s], lru_list[s]) /\ DOMAIN cache_map[s] = Range(lru_list[s])
  BY DEF PlansKept
<1>3. /\ lru_list' = [lru_list EXCEPT ![s] = ToFront(@, k)]
      /\ cache_map' = cache_map
  BY DEF Get
<1>4. /\ lru_list'[s] = ToFront(lru_list[s], k)
      /\ used'[s] = ToFront(used[s], k)
      /\ \A d \in Shard \ {s} : lru_list'[d] = lru_list[d] /\ used'[d] = used[d]
  BY <1>1, <1>3
<1>5. Recent(used'[s], lru_list'[s]) /\ Range(lru_list'[s]) = Range(lru_list[s])
  BY <1>2, <1>4, RecentWhenFound
<1>6. PlansKept'
  <2> SUFFICES ASSUME NEW d \in Shard
               PROVE  Recent(used'[d], lru_list'[d]) /\ DOMAIN cache_map'[d] = Range(lru_list'[d])
    BY DEF PlansKept, Recent, NoRepeats, Fit, Range
  <2>1. CASE d = s
    BY <1>2, <1>3, <1>5, <2>1
  <2>2. CASE d # s
    BY <1>3, <1>4, <2>2 DEF PlansKept
  <2> QED  BY <2>1, <2>2
<1>7. used'[s] \in Seq(Query) /\ lru_list'[s] \in Seq(Query)
  BY <1>5 DEF Recent
<1>8. /\ lru_list' \in [Shard -> Seq(Query)]
      /\ used' \in [Shard -> Seq(Query)]
  BY <1>1, <1>3, <1>4, <1>7
<1> QED  BY <1>3, <1>6, <1>8

LEMMA ExecuteKeepsIInv ==
    ASSUME IInv, NEW s \in Shard, NEW k \in Query, Execute(s, k)
    PROVE  IInv'
<1>1. TypeOK /\ PlansKept /\ ViewsFirst /\ PlansFresh /\ ClosuresFresh
  BY DEF IInv
<1>2. /\ view' = view /\ traits' = traits /\ closure' = closure /\ stored' = stored /\ stage' = stage
      /\ statement' = statement /\ sent' = sent /\ changes' = changes
      /\ used' = [used EXCEPT ![s] = ToFront(@, k)]
  BY DEF Execute
<1>3. fill' \in [Shard -> {NoFill} \cup [seen : SUBSET Write, unread : SUBSET Shard]]
  <2>1. fill \in [Shard -> {NoFill} \cup [seen : SUBSET Write, unread : SUBSET Shard]]
    BY <1>1 DEF TypeOK
  <2>2. [seen |-> {}, unread |-> Shard] \in [seen : SUBSET Write, unread : SUBSET Shard]
    OBVIOUS
  <2> QED  BY <2>1, <2>2 DEF Execute, LookUp
<1>4. Optimized(s) \in Plan
  BY <1>1 DEF TypeOK, Optimized, Plan
<1>5. ViewsFirst'
  BY <1>1, <1>2 DEF ViewsFirst
<1>6. ClosuresFresh'
  BY <1>1, <1>2, FreshClosuresStay
<1>7. \A d \in Shard : ClearOwed(d) => ClearOwed(d)'
  BY <1>2 DEF ClearOwed
<1>8. CASE k \in DOMAIN cache_map[s]
  <2>1. Get(s, k)
    BY <1>8 DEF Execute
  <2>2. /\ lru_list' \in [Shard -> Seq(Query)]
        /\ used' \in [Shard -> Seq(Query)]
        /\ cache_map' = cache_map
        /\ PlansKept'
    BY <1>1, <1>2, <1>8, <2>1, GetKeepsPlans
  <2>3. TypeOK'
    BY <1>1, <1>2, <1>3, <2>2 DEF TypeOK
  <2>4. PlansFresh'
    BY <1>1, <1>2, <1>7, <2>2, FreshPlansStay
  <2> QED  BY <1>5, <1>6, <2>2, <2>3, <2>4 DEF IInv
<1>9. CASE k \notin DOMAIN cache_map[s]
  <2>1. Put(s, k, Optimized(s))
    BY <1>9 DEF Execute
  <2>2. /\ lru_list' \in [Shard -> Seq(Query)]
        /\ cache_map' \in [Shard -> CacheMaps]
        /\ used' \in [Shard -> Seq(Query)]
        /\ PlansKept'
        /\ \A d \in Shard \ {s} : cache_map'[d] = cache_map[d]
        /\ cache_map'[s][k] = Optimized(s)
        /\ \A x \in DOMAIN cache_map'[s] \ {k} :
              x \in DOMAIN cache_map[s] /\ cache_map'[s][x] = cache_map[s][x]
    BY <1>1, <1>2, <1>4, <1>9, <2>1, PutKeepsPlans
  <2>3. TypeOK'
    BY <1>1, <1>2, <1>3, <2>2 DEF TypeOK, CacheMaps
  <2>4. PlansFresh'
    <3> SUFFICES ASSUME NEW d \in Shard, NEW x \in DOMAIN cache_map'[d]
                 PROVE  /\ cache_map'[d][x].traits = traits'[d]
                        /\ cache_map'[d][x].view # view'[d] => ClearOwed(d)'
      BY DEF PlansFresh, ClearOwed
    <3>1. CASE d = s /\ x = k
      BY <1>2, <2>2, <3>1 DEF Optimized
    <3>2. CASE ~(d = s /\ x = k)
      <4>1. x \in DOMAIN cache_map[d] /\ cache_map'[d][x] = cache_map[d][x]
        BY <2>2, <3>2
      <4>2. /\ cache_map[d][x].traits = traits[d]
            /\ cache_map[d][x].view # view[d] => ClearOwed(d)
        BY <1>1, <4>1 DEF PlansFresh
      <4> QED  BY <1>2, <1>7, <4>1, <4>2
    <3> QED  BY <3>1, <3>2
  <2> QED  BY <1>5, <1>6, <2>2, <2>3, <2>4 DEF IInv
<1> QED  BY <1>8, <1>9

LEMMA FillSetKeepsIInv ==
    ASSUME IInv, NEW s \in Shard, FillSet(s)
    PROVE  IInv'
<1>1. TypeOK /\ PlansKept /\ ViewsFirst /\ PlansFresh /\ ClosuresFresh
  BY DEF IInv
<1> DEFINE filled == [seen |-> fill[s].seen, missed |-> Stored \ fill[s].seen]
<1>2. fill[s] \in [seen : SUBSET Write, unread : SUBSET Shard]
  BY <1>1 DEF TypeOK, FillSet
<1>3. Stored \subseteq Write
  BY <1>1 DEF TypeOK, Stored
<1>4. filled \in [seen : SUBSET Write, missed : SUBSET Write]
  BY <1>2, <1>3
<1>5. /\ closure' = [closure EXCEPT ![s] = filled]
      /\ fill' = [fill EXCEPT ![s] = NoFill]
      /\ view' = view /\ traits' = traits /\ lru_list' = lru_list /\ cache_map' = cache_map
      /\ stored' = stored /\ stage' = stage /\ statement' = statement /\ sent' = sent
      /\ changes' = changes /\ used' = used
  BY DEF FillSet
<1>6. filled.seen = fill[s].seen /\ filled.missed = Stored \ fill[s].seen
  OBVIOUS
<1> HIDE DEF filled
<1>7. TypeOK'
  <2>1. closure' \in [Shard -> {NoClosure} \cup [seen : SUBSET Write, missed : SUBSET Write]]
    BY <1>1, <1>4, <1>5 DEF TypeOK
  <2>2. fill' \in [Shard -> {NoFill} \cup [seen : SUBSET Write, unread : SUBSET Shard]]
    BY <1>1, <1>5 DEF TypeOK
  <2> QED  BY <1>1, <1>5, <2>1, <2>2 DEF TypeOK
<1>8. PlansKept' /\ ViewsFirst'
  BY <1>1, <1>5, PlansAlone DEF ViewsFirst
<1>9. PlansFresh'
  BY <1>1, <1>5 DEF PlansFresh, ClearOwed
<1>10. ClosuresFresh'
  <2> SUFFICES ASSUME NEW d \in Shard, NEW w \in Write,
                      closure'[d] # NoClosure, w \in Stored \ closure'[d].seen
               PROVE  \/ stage[w].is = "stored"
                      \/ [op |-> "invalidate", write |-> w, to |-> d] \in sent
                      \/ w \in closure'[d].missed
                      \/ stage[w].is = "quiet"
    BY <1>5 DEF ClosuresFresh, Stored
  <2>1. CASE d = s
    <3>1. closure'[d] = filled
      BY <1>1, <1>5, <2>1 DEF TypeOK
    <3> QED  BY <1>6, <3>1
  <2>2. CASE d # s
    <3>1. closure'[d] = closure[d]
      BY <1>1, <1>5, <2>2 DEF TypeOK
    <3> QED  BY <1>1, <3>1 DEF ClosuresFresh
  <2> QED  BY <2>1, <2>2
<1> QED  BY <1>7, <1>8, <1>9, <1>10 DEF IInv

LEMMA RelationshipStoreKeepsIInv ==
    ASSUME IInv, NEW w \in Write, NEW c \in Shard, NEW d \in Shard, RelationshipStore(w, c, d)
    PROVE  IInv'
<1>1. TypeOK /\ PlansKept /\ ViewsFirst /\ PlansFresh /\ ClosuresFresh
  BY DEF IInv
<1>2. /\ stage' = [stage EXCEPT ![w] = [is |-> "stored", at |-> c]]
      /\ stored' = [stored EXCEPT ![d] = @ \cup {w}]
      /\ view' = view /\ traits' = traits /\ lru_list' = lru_list /\ cache_map' = cache_map
      /\ closure' = closure /\ fill' = fill /\ statement' = statement /\ sent' = sent
      /\ changes' = changes /\ used' = used
  BY DEF RelationshipStore
<1>3. TypeOK'
  <2>1. [is |-> "stored", at |-> c] \in [is : {"stored"}, at : Shard]
    OBVIOUS
  <2>2. stage' \in [Write -> [is : {"new", "quiet", "told"}] \cup [is : {"stored"}, at : Shard]]
    BY <1>1, <1>2, <2>1 DEF TypeOK
  <2>3. stored' \in [Shard -> SUBSET Write]
    BY <1>1, <1>2 DEF TypeOK
  <2> QED  BY <1>1, <1>2, <2>2, <2>3 DEF TypeOK
<1>4. PlansKept' /\ ViewsFirst'
  BY <1>1, <1>2, PlansAlone DEF ViewsFirst
<1>5. PlansFresh'
  BY <1>1, <1>2 DEF PlansFresh, ClearOwed
<1>6. ClosuresFresh'
  <2> SUFFICES ASSUME NEW s \in Shard, NEW x \in Write,
                      closure[s] # NoClosure, x \in Stored' \ closure[s].seen
               PROVE  \/ stage'[x].is = "stored"
                      \/ [op |-> "invalidate", write |-> x, to |-> s] \in sent
                      \/ x \in closure[s].missed
                      \/ stage'[x].is = "quiet"
    BY <1>2 DEF ClosuresFresh
  <2>1. CASE x = w
    BY <1>1, <1>2, <2>1 DEF TypeOK
  <2>2. CASE x # w
    <3>1. x \in Stored
      BY <1>1, <1>2, <2>2 DEF TypeOK, Stored
    <3>2. stage'[x] = stage[x]
      BY <1>1, <1>2, <2>2 DEF TypeOK
    <3> QED  BY <1>1, <3>1, <3>2 DEF ClosuresFresh
  <2> QED  BY <2>1, <2>2
<1> QED  BY <1>3, <1>4, <1>5, <1>6 DEF IInv

LEMMA InvalidateAlgebraicCachesPeeredKeepsIInv ==
    ASSUME IInv, NEW w \in Write, InvalidateAlgebraicCachesPeered(w)
    PROVE  IInv'
<1> DEFINE c == stage[w].at
           news == [op : {"invalidate"}, write : {w}, to : Told(c) \ {c}]
<1>1. TypeOK /\ PlansKept /\ ViewsFirst /\ PlansFresh /\ ClosuresFresh
  BY DEF IInv
<1>2. /\ view' = view /\ traits' = traits /\ lru_list' = lru_list /\ cache_map' = cache_map
      /\ fill' = fill /\ stored' = stored /\ statement' = statement
      /\ changes' = changes /\ used' = used
      /\ stage[w].is = "stored"
  BY DEF InvalidateAlgebraicCachesPeered
<1>3. c \in Shard
  <2>1. stage[w] \in [is : {"new", "quiet", "told"}] \cup [is : {"stored"}, at : Shard]
    BY <1>1 DEF TypeOK
  <2> QED  BY <1>2, <2>1
<1>4. /\ \A m \in news : m \in Message /\ m.op = "invalidate"
      /\ \A s \in Shard \ {c} : [op |-> "invalidate", write |-> w, to |-> s] \in news
  BY DEF Told, Message
<1>5. CASE traits[c]
  <2>1. /\ stage' = [stage EXCEPT ![w] = [is |-> "told"]]
        /\ closure' = [closure EXCEPT ![c] = NoClosure]
        /\ sent' = sent \cup news
    BY <1>5 DEF InvalidateAlgebraicCachesPeered
  <2> HIDE DEF c, news
  <2>2. TypeOK'
    <3>1. stage' \in [Write -> [is : {"new", "quiet", "told"}] \cup [is : {"stored"}, at : Shard]]
      BY <1>1, <2>1 DEF TypeOK
    <3>2. closure' \in [Shard -> {NoClosure} \cup [seen : SUBSET Write, missed : SUBSET Write]]
      BY <1>1, <2>1 DEF TypeOK
    <3>3. sent' \subseteq Message
      BY <1>1, <1>4, <2>1 DEF TypeOK
    <3> QED  BY <1>1, <1>2, <3>1, <3>2, <3>3 DEF TypeOK
  <2>3. PlansKept'
    BY <1>1, <1>2, PlansAlone
  <2>4. ViewsFirst'
    BY <1>1, <1>2, <1>4, <2>1 DEF ViewsFirst
  <2>5. \A s \in Shard : ClearOwed(s) => ClearOwed(s)'
    BY <1>2, <2>1 DEF ClearOwed
  <2>6. PlansFresh'
    BY <1>1, <1>2, <2>5, FreshPlansStay
  <2>7. ClosuresFresh'
    <3> SUFFICES ASSUME NEW s \in Shard, NEW x \in Write,
                        closure'[s] # NoClosure, x \in Stored \ closure'[s].seen
                 PROVE  \/ stage'[x].is = "stored"
                        \/ [op |-> "invalidate", write |-> x, to |-> s] \in sent'
                        \/ x \in closure'[s].missed
                        \/ stage'[x].is = "quiet"
      BY <1>2 DEF ClosuresFresh, Stored
    <3>1. s # c /\ closure'[s] = closure[s]
      BY <1>1, <1>3, <2>1 DEF TypeOK
    <3>2. CASE x = w
      BY <1>4, <2>1, <3>1, <3>2
    <3>3. CASE x # w
      <4>1. stage'[x] = stage[x]
        BY <1>1, <2>1, <3>3 DEF TypeOK
      <4> QED  BY <1>1, <2>1, <3>1, <4>1 DEF ClosuresFresh
    <3> QED  BY <3>2, <3>3
  <2> QED  BY <2>2, <2>3, <2>4, <2>6, <2>7 DEF IInv
<1>6. CASE ~traits[c]
  <2>1. /\ stage' = [stage EXCEPT ![w] = [is |-> "quiet"]]
        /\ closure' = closure /\ sent' = sent
    BY <1>6 DEF InvalidateAlgebraicCachesPeered
  <2>2. stage' \in [Write -> [is : {"new", "quiet", "told"}] \cup [is : {"stored"}, at : Shard]]
    BY <1>1, <2>1 DEF TypeOK
  <2>3. TypeOK'
    BY <1>1, <1>2, <2>1, <2>2 DEF TypeOK
  <2>4. PlansKept' /\ ViewsFirst'
    BY <1>1, <1>2, <2>1, PlansAlone DEF ViewsFirst
  <2>5. PlansFresh'
    BY <1>1, <1>2, <2>1 DEF PlansFresh, ClearOwed
  <2>6. \A x \in Write : stage'[x].is = "quiet" \/ stage'[x] = stage[x]
    BY <1>1, <2>1 DEF TypeOK
  <2>7. ClosuresFresh'
    BY <1>1, <1>2, <2>1, <2>6 DEF ClosuresFresh, Stored
  <2> QED  BY <2>3, <2>4, <2>5, <2>7 DEF IInv
<1> QED  BY <1>5, <1>6

LEMMA CreateViewKeepsIInv ==
    ASSUME IInv, NEW c \in Caller, CreateView(c)
    PROVE  IInv'
<1> DEFINE news == [op : {"view"}, by : {c}, to : Shard \ {c}, value : {changes + 1}]
<1>1. TypeOK /\ PlansKept /\ ViewsFirst /\ PlansFresh /\ ClosuresFresh
  BY DEF IInv
<1>2. /\ statement[c] = "none"
      /\ changes' = changes + 1
      /\ view' = [view EXCEPT ![c] = changes + 1]
      /\ sent' = sent \cup news
      /\ statement' = [statement EXCEPT ![c] = "view"]
      /\ traits' = traits /\ lru_list' = lru_list /\ cache_map' = cache_map
      /\ closure' = closure /\ fill' = fill /\ stored' = stored /\ stage' = stage /\ used' = used
  BY DEF CreateView
<1>3. c \in Shard /\ changes + 1 \in 0 .. MaxChanges
  BY <1>1, CachesAssumption DEF TypeOK, CreateView
<1>4. \A m \in news : m \in Message /\ m.op = "view" /\ m.by = c
  BY <1>3 DEF Message
<1> HIDE DEF news
<1>5. TypeOK'
  <2>1. /\ view' \in [Shard -> 0 .. MaxChanges]
        /\ statement' \in [Shard -> {"none", "view", "traits", "plans", "all"}]
        /\ changes' \in 0 .. MaxChanges
    BY <1>1, <1>2, <1>3 DEF TypeOK
  <2>2. sent' \subseteq Message
    BY <1>1, <1>2, <1>4 DEF TypeOK
  <2> QED  BY <1>1, <1>2, <2>1, <2>2 DEF TypeOK
<1>6. PlansKept'
  BY <1>1, <1>2, PlansAlone
<1>7. statement'[c] = "view" /\ \A d \in Shard : statement[d] = "view" => statement'[d] = "view"
  BY <1>1, <1>2, <1>3 DEF TypeOK
<1>8. ViewsFirst'
  <2> SUFFICES ASSUME NEW m \in sent', m.op = "view" PROVE m.by \in Caller /\ statement'[m.by] = "view"
    BY DEF ViewsFirst
  <2>1. CASE m \in sent
    BY <1>1, <1>7, <2>1, CachesAssumption DEF ViewsFirst
  <2>2. CASE m \in news
    BY <1>4, <1>7, <2>2
  <2> QED  BY <1>2, <2>1, <2>2
<1>9. \A s \in Shard : ClearOwed(s)'
  BY <1>7 DEF ClearOwed
<1>10. PlansFresh'
  BY <1>1, <1>2, <1>9, FreshPlansStay
<1>11. ClosuresFresh'
  BY <1>1, <1>2, FreshClosuresStay
<1> QED  BY <1>5, <1>6, <1>8, <1>10, <1>11 DEF IInv

LEMMA ClearPlansPeeredKeepsIInv ==
    ASSUME IInv, NEW c \in Caller, ClearPlansPeered(c)
    PROVE  IInv'
<1> DEFINE news == [op : {"plans"}, by : {c}, to : Shard \ {c}]
<1>1. TypeOK /\ PlansKept /\ ViewsFirst /\ PlansFresh /\ ClosuresFresh
  BY DEF IInv
<1>2. /\ \A m \in sent : ~(m.op = "view" /\ m.by = c)
      /\ ClearPlans(c)
      /\ sent' = sent \cup news
      /\ statement' = [statement EXCEPT ![c] = "plans"]
      /\ view' = view /\ traits' = traits /\ closure' = closure /\ fill' = fill
      /\ stored' = stored /\ stage' = stage /\ changes' = changes
  BY DEF ClearPlansPeered
<1>3. c \in Shard
  BY CachesAssumption
<1>4. /\ \A m \in news : m \in Message /\ m.op = "plans"
      /\ \A s \in Shard \ {c} : \E m \in news : m.op = "plans" /\ m.to = s
  <2>1. \A m \in news : m \in Message /\ m.op = "plans"
    BY <1>3 DEF Message
  <2>2. ASSUME NEW s \in Shard \ {c} PROVE \E m \in news : m.op = "plans" /\ m.to = s
    <3> DEFINE m == [op |-> "plans", by |-> c, to |-> s]
    <3>1. m \in news /\ m.op = "plans" /\ m.to = s
      OBVIOUS
    <3> QED  BY <3>1
  <2> QED  BY <2>1, <2>2
<1> HIDE DEF news
<1>5. /\ lru_list' \in [Shard -> Seq(Query)]
      /\ cache_map' \in [Shard -> CacheMaps]
      /\ used' \in [Shard -> Seq(Query)]
      /\ PlansKept'
      /\ DOMAIN cache_map'[c] = {}
      /\ \A s \in Shard \ {c} : cache_map'[s] = cache_map[s]
  BY <1>1, <1>2, <1>3, ClearPlansKeeps
<1>6. TypeOK'
  <2>1. statement' \in [Shard -> {"none", "view", "traits", "plans", "all"}]
    BY <1>1, <1>2, <1>3 DEF TypeOK
  <2>2. sent' \subseteq Message
    BY <1>1, <1>2, <1>4 DEF TypeOK
  <2> QED  BY <1>1, <1>2, <1>5, <2>1, <2>2 DEF TypeOK, CacheMaps
<1>7. \A d \in Shard \ {c} : statement'[d] = statement[d]
  BY <1>1, <1>2 DEF TypeOK
<1>8. ViewsFirst'
  <2> SUFFICES ASSUME NEW m \in sent', m.op = "view" PROVE m.by \in Caller /\ statement'[m.by] = "view"
    BY DEF ViewsFirst
  <2>1. m \in sent
    BY <1>2, <1>4
  <2>2. m.by \in Caller /\ statement[m.by] = "view" /\ m.by # c
    BY <1>1, <1>2, <2>1 DEF ViewsFirst
  <2> QED  BY <1>7, <2>2, CachesAssumption
<1>9. \A s \in Shard \ {c} : ClearOwed(s)'
  BY <1>2, <1>4 DEF ClearOwed
<1>10. PlansFresh'
  BY <1>1, <1>2, <1>5, <1>9, FreshPlansStay
<1>11. ClosuresFresh'
  BY <1>1, <1>2, FreshClosuresStay
<1> QED  BY <1>5, <1>6, <1>8, <1>10, <1>11 DEF IInv

\* A shard that changes its traits or forgets everything, and sends word of it.
LEMMA ForgetHereKeepsIInv ==
    ASSUME IInv, NEW c \in Caller, statement[c] = "none", ClearPlans(c),
           NEW news \in SUBSET Message, \A m \in news : m.op # "view",
           sent' = sent \cup news,
           NEW st \in {"traits", "all"}, statement' = [statement EXCEPT ![c] = st],
           traits' \in [Shard -> BOOLEAN], \A s \in Shard \ {c} : traits'[s] = traits[s],
           closure' = [closure EXCEPT ![c] = NoClosure], changes' \in 0 .. MaxChanges,
           UNCHANGED <<view, fill, stored, stage>>
    PROVE  IInv'
<1>1. TypeOK /\ PlansKept /\ ViewsFirst /\ PlansFresh /\ ClosuresFresh
  BY DEF IInv
<1>2. view' = view /\ fill' = fill /\ stored' = stored /\ stage' = stage
  OBVIOUS
<1>3. c \in Shard
  BY CachesAssumption
<1>4. /\ lru_list' \in [Shard -> Seq(Query)]
      /\ cache_map' \in [Shard -> CacheMaps]
      /\ used' \in [Shard -> Seq(Query)]
      /\ PlansKept'
      /\ DOMAIN cache_map'[c] = {}
      /\ \A s \in Shard \ {c} : cache_map'[s] = cache_map[s]
  BY <1>1, <1>3, ClearPlansKeeps
<1>5. TypeOK'
  <2>1. statement' \in [Shard -> {"none", "view", "traits", "plans", "all"}]
    BY <1>1, <1>3 DEF TypeOK
  <2>2. sent' \subseteq Message
    BY <1>1 DEF TypeOK
  <2>3. closure' \in [Shard -> {NoClosure} \cup [seen : SUBSET Write, missed : SUBSET Write]]
    BY <1>1 DEF TypeOK
  <2> QED  BY <1>1, <1>2, <1>4, <2>1, <2>2, <2>3 DEF TypeOK, CacheMaps
<1>6. \A d \in Shard \ {c} : statement'[d] = statement[d]
  BY <1>1 DEF TypeOK
<1>7. ViewsFirst'
  <2> SUFFICES ASSUME NEW m \in sent', m.op = "view" PROVE m.by \in Caller /\ statement'[m.by] = "view"
    BY DEF ViewsFirst
  <2>1. m.by \in Caller /\ statement[m.by] = "view" /\ m.by # c
    BY <1>1 DEF ViewsFirst
  <2> QED  BY <1>6, <2>1, CachesAssumption
<1>8. \A s \in Shard : ClearOwed(s) => ClearOwed(s)'
  <2>1. \A d \in Caller : statement[d] = "view" => statement'[d] = "view"
    BY <1>6, CachesAssumption
  <2> QED  BY <2>1 DEF ClearOwed
<1>9. PlansFresh'
  BY <1>1, <1>2, <1>4, <1>8, FreshPlansStay
<1>10. \A s \in Shard : closure'[s] = closure[s] \/ closure'[s] = NoClosure
  BY <1>1 DEF TypeOK
<1>11. ClosuresFresh'
  BY <1>1, <1>2, <1>10, FreshClosuresStay
<1> QED  BY <1>4, <1>5, <1>7, <1>9, <1>11 DEF IInv

LEMMA ApplyTraitsKeepsIInv ==
    ASSUME IInv, NEW c \in Caller, NEW on \in BOOLEAN, ApplyTraits(c, on)
    PROVE  IInv'
<1> DEFINE news == [op : {"traits"}, by : {c}, to : Shard \ {c}, value : {on}]
<1>1. TypeOK /\ c \in Shard
  BY CachesAssumption DEF IInv
<1>2. news \in SUBSET Message /\ \A m \in news : m.op # "view"
  BY <1>1 DEF Message
<1>3. changes' \in 0 .. MaxChanges
  BY <1>1, CachesAssumption DEF ApplyTraits, TypeOK
<1>4. traits' \in [Shard -> BOOLEAN] /\ \A s \in Shard \ {c} : traits'[s] = traits[s]
  BY <1>1 DEF ApplyTraits, TypeOK
<1>5. /\ statement[c] = "none" /\ ClearPlans(c) /\ sent' = sent \cup news
      /\ statement' = [statement EXCEPT ![c] = "traits"]
      /\ closure' = [closure EXCEPT ![c] = NoClosure]
      /\ UNCHANGED <<view, fill, stored, stage>>
  BY DEF ApplyTraits
<1> HIDE DEF news
<1> QED  BY <1>2, <1>3, <1>4, <1>5, ForgetHereKeepsIInv

LEMMA ClearCacheKeepsIInv ==
    ASSUME IInv, NEW c \in Caller, ClearCache(c)
    PROVE  IInv'
<1> DEFINE news == [op : {"all"}, by : {c}, to : Shard \ {c}]
<1>1. TypeOK /\ c \in Shard
  BY CachesAssumption DEF IInv
<1>2. news \in SUBSET Message /\ \A m \in news : m.op # "view"
  BY <1>1 DEF Message
<1>3. changes' \in 0 .. MaxChanges
  BY <1>1, CachesAssumption DEF ClearCache, TypeOK
<1>4. traits' \in [Shard -> BOOLEAN] /\ \A s \in Shard \ {c} : traits'[s] = traits[s]
  BY <1>1 DEF ClearCache, TypeOK
<1>5. /\ statement[c] = "none" /\ ClearPlans(c) /\ sent' = sent \cup news
      /\ statement' = [statement EXCEPT ![c] = "all"]
      /\ closure' = [closure EXCEPT ![c] = NoClosure]
      /\ UNCHANGED <<view, fill, stored, stage>>
  BY DEF ClearCache
<1> HIDE DEF news
<1> QED  BY <1>2, <1>3, <1>4, <1>5, ForgetHereKeepsIInv

\* A message that tells its shard to forget the plans there.
LEMMA ForgetThereKeepsIInv ==
    ASSUME IInv, NEW m \in sent, sent' = sent \ {m}, m.op \in {"plans", "all", "traits"},
           ClearPlans(m.to), view' = view,
           traits' \in [Shard -> BOOLEAN], \A s \in Shard \ {m.to} : traits'[s] = traits[s],
           closure' \in {closure, [closure EXCEPT ![m.to] = NoClosure]},
           UNCHANGED <<fill, stored, stage, statement, changes>>
    PROVE  IInv'
<1>1. TypeOK /\ PlansKept /\ ViewsFirst /\ PlansFresh /\ ClosuresFresh
  BY DEF IInv
<1>2. fill' = fill /\ stored' = stored /\ stage' = stage /\ statement' = statement /\ changes' = changes
  OBVIOUS
<1>3. m.to \in Shard
  BY <1>1, MessageFields DEF TypeOK
<1> DEFINE t == m.to
<1>4. t = m.to
  OBVIOUS
<1> HIDE DEF t
<1>5. ClearPlans(t)
  BY <1>4
<1>6. /\ lru_list' \in [Shard -> Seq(Query)]
      /\ cache_map' \in [Shard -> CacheMaps]
      /\ used' \in [Shard -> Seq(Query)]
      /\ PlansKept'
      /\ DOMAIN cache_map'[t] = {}
      /\ \A s \in Shard \ {t} : cache_map'[s] = cache_map[s]
  BY <1>1, <1>3, <1>4, <1>5, ClearPlansKeeps
<1>7. closure' \in [Shard -> {NoClosure} \cup [seen : SUBSET Write, missed : SUBSET Write]]
  BY <1>1 DEF TypeOK
<1>8. TypeOK'
  BY <1>1, <1>2, <1>6, <1>7 DEF TypeOK, CacheMaps
<1>9. ViewsFirst'
  BY <1>1, <1>2 DEF ViewsFirst
<1>10. \A s \in Shard \ {t} : ClearOwed(s) => ClearOwed(s)'
  BY <1>2, <1>4 DEF ClearOwed
<1>11. PlansFresh'
  BY <1>1, <1>4, <1>6, <1>10, FreshPlansStay
<1>12. \A s \in Shard : closure'[s] = closure[s] \/ closure'[s] = NoClosure
  BY <1>1 DEF TypeOK
<1>13. ClosuresFresh'
  <2>1. \A s \in Shard, w \in Write :
            [op |-> "invalidate", write |-> w, to |-> s] \in sent =>
               [op |-> "invalidate", write |-> w, to |-> s] \in sent'
    OBVIOUS
  <2> QED  BY <1>1, <1>2, <1>12, <2>1, FreshClosuresStay
<1> QED  BY <1>6, <1>8, <1>9, <1>11, <1>13 DEF IInv

\* The message of a view, after which a clear of the plans is still to come.
LEMMA SetViewKeepsIInv ==
    ASSUME IInv, NEW m \in sent, sent' = sent \ {m}, SetView(m),
           UNCHANGED <<fill, stored, stage, statement, changes>>
    PROVE  IInv'
<1>1. TypeOK /\ PlansKept /\ ViewsFirst /\ PlansFresh /\ ClosuresFresh
  BY DEF IInv
<1>2. /\ fill' = fill /\ stored' = stored /\ stage' = stage /\ statement' = statement /\ changes' = changes
      /\ traits' = traits /\ lru_list' = lru_list /\ cache_map' = cache_map
      /\ closure' = closure /\ used' = used
      /\ m.op = "view" /\ view' = [view EXCEPT ![m.to] = m.value]
  BY DEF SetView
<1>3. m.to \in Shard /\ m.value \in 0 .. MaxChanges
  BY <1>1, <1>2, MessageFields DEF TypeOK
<1>4. TypeOK'
  BY <1>1, <1>2, <1>3 DEF TypeOK
<1>5. PlansKept'
  BY <1>1, <1>2, PlansAlone
<1>6. ViewsFirst'
  BY <1>1, <1>2 DEF ViewsFirst
<1>7. \A s \in Shard : ClearOwed(s)'
  BY <1>1, <1>2 DEF ClearOwed, ViewsFirst
<1>8. PlansFresh'
  BY <1>1, <1>2, <1>7, FreshPlansStay
<1>9. ClosuresFresh'
  <2>1. \A s \in Shard, w \in Write :
            [op |-> "invalidate", write |-> w, to |-> s] \in sent =>
               [op |-> "invalidate", write |-> w, to |-> s] \in sent'
    BY <1>2
  <2> QED  BY <1>1, <1>2, <2>1, FreshClosuresStay
<1> QED  BY <1>4, <1>5, <1>6, <1>8, <1>9 DEF IInv

\* Word of a write is taken from the channel and the closure of its shard with it.
LEMMA InvalidateKeepsIInv ==
    ASSUME IInv, NEW m \in sent, sent' = sent \ {m}, Invalidate(m),
           UNCHANGED <<fill, stored, stage, statement, changes>>
    PROVE  IInv'
<1>1. TypeOK /\ PlansKept /\ ViewsFirst /\ PlansFresh /\ ClosuresFresh
  BY DEF IInv
<1>2. /\ fill' = fill /\ stored' = stored /\ stage' = stage /\ statement' = statement /\ changes' = changes
      /\ traits' = traits /\ lru_list' = lru_list /\ cache_map' = cache_map
      /\ view' = view /\ used' = used
      /\ m.op = "invalidate" /\ closure' = [closure EXCEPT ![m.to] = NoClosure]
  BY DEF Invalidate
<1>3. m.to \in Shard
  BY <1>1, MessageFields DEF TypeOK
<1>4. /\ closure' \in [Shard -> {NoClosure} \cup [seen : SUBSET Write, missed : SUBSET Write]]
      /\ \A s \in Shard : closure'[s] = closure[s] \/ closure'[s] = NoClosure
      /\ closure'[m.to] = NoClosure
  BY <1>1, <1>2, <1>3 DEF TypeOK
<1>5. TypeOK'
  BY <1>1, <1>2, <1>4 DEF TypeOK
<1>6. PlansKept'
  BY <1>1, <1>2, PlansAlone
<1>7. ViewsFirst'
  BY <1>1, <1>2 DEF ViewsFirst
<1>8. \A s \in Shard : ClearOwed(s) => ClearOwed(s)'
  BY <1>2 DEF ClearOwed
<1>9. PlansFresh'
  BY <1>1, <1>2, <1>8, FreshPlansStay
<1>10. ClosuresFresh'
  <2>1. ASSUME NEW s \in Shard, NEW w \in Write, [op |-> "invalidate", write |-> w, to |-> s] \in sent
        PROVE  \/ [op |-> "invalidate", write |-> w, to |-> s] \in sent'
               \/ closure'[s] = NoClosure
    <3>1. CASE m = [op |-> "invalidate", write |-> w, to |-> s]
      <4>1. m.to = s
        BY <3>1
      <4> QED  BY <1>4, <4>1
    <3>2. CASE m # [op |-> "invalidate", write |-> w, to |-> s]
      BY <2>1, <3>2
    <3> QED  BY <3>1, <3>2
  <2> QED  BY <1>1, <1>2, <1>4, <2>1, FreshClosuresStay
<1> QED  BY <1>5, <1>6, <1>7, <1>9, <1>10 DEF IInv

LEMMA DeliverKeepsIInv ==
    ASSUME IInv, NEW m \in sent, Deliver(m)
    PROVE  IInv'
<1>1. /\ sent' = sent \ {m}
      /\ UNCHANGED <<fill, stored, stage, statement, changes>>
  BY DEF Deliver
<1>2. TypeOK /\ m \in Message
  BY DEF IInv, TypeOK
<1>3. /\ m.to \in Shard
      /\ m.op = "traits" => m.value \in BOOLEAN
  BY <1>2, MessageFields
<1>4. CASE Invalidate(m)
  BY <1>1, <1>4, InvalidateKeepsIInv
<1>5. CASE SetView(m)
  BY <1>1, <1>5, SetViewKeepsIInv
<1>6. CASE ForgetPlans(m) \/ ForgetAll(m)
  <2>1. traits' \in [Shard -> BOOLEAN] /\ \A s \in Shard \ {m.to} : traits'[s] = traits[s]
    BY <1>2, <1>6 DEF TypeOK, ForgetPlans, ForgetAll
  <2>2. /\ m.op \in {"plans", "all", "traits"} /\ ClearPlans(m.to) /\ view' = view
        /\ closure' \in {closure, [closure EXCEPT ![m.to] = NoClosure]}
    BY <1>6 DEF ForgetPlans, ForgetAll
  <2> QED  BY <1>1, <2>1, <2>2, ForgetThereKeepsIInv
<1>7. CASE SetTraits(m)
  <2>1. traits' \in [Shard -> BOOLEAN] /\ \A s \in Shard \ {m.to} : traits'[s] = traits[s]
    BY <1>2, <1>3, <1>7 DEF TypeOK, SetTraits
  <2>2. /\ m.op \in {"plans", "all", "traits"} /\ ClearPlans(m.to) /\ view' = view
        /\ closure' \in {closure, [closure EXCEPT ![m.to] = NoClosure]}
    BY <1>7 DEF SetTraits
  <2> QED  BY <1>1, <2>1, <2>2, ForgetThereKeepsIInv
<1> QED  BY <1>4, <1>5, <1>6, <1>7 DEF Deliver

LEMMA StutterKeepsIInv ==
    ASSUME IInv, UNCHANGED vars
    PROVE  IInv'
<1>1. TypeOK'
  BY DEF IInv, TypeOK, vars
<1> QED  BY <1>1, QuietStep DEF vars

LEMMA NextKeepsIInv ==
    ASSUME IInv, [Next]_vars
    PROVE  IInv'
<1>1. ASSUME NEW s \in Asker, NEW k \in Query, Execute(s, k) PROVE IInv'
  BY <1>1, ExecuteKeepsIInv, CachesAssumption
<1>2. ASSUME NEW w \in Write, NEW c \in Shard, NEW d \in Shard, RelationshipStore(w, c, d) PROVE IInv'
  BY <1>2, RelationshipStoreKeepsIInv
<1>3. ASSUME NEW c \in Caller,
             CreateView(c) \/ ClearCache(c) \/ \E on \in BOOLEAN : ApplyTraits(c, on)
      PROVE  IInv'
  BY <1>3, CreateViewKeepsIInv, ClearCacheKeepsIInv, ApplyTraitsKeepsIInv
<1>4. CASE Continue
  <2>1. ASSUME NEW s \in Shard, NEW d \in Shard, FillRead(s, d) PROVE IInv'
    BY <2>1, FillReadKeepsIInv
  <2>2. ASSUME NEW s \in Shard, FillSet(s) PROVE IInv'
    BY <2>2, FillSetKeepsIInv
  <2>3. ASSUME NEW w \in Write, InvalidateAlgebraicCachesPeered(w) PROVE IInv'
    BY <2>3, InvalidateAlgebraicCachesPeeredKeepsIInv
  <2>4. ASSUME NEW c \in Caller, ClearPlansPeered(c) \/ Answer(c) PROVE IInv'
    BY <2>4, ClearPlansPeeredKeepsIInv, AnswerKeepsIInv
  <2>5. ASSUME NEW m \in sent, Deliver(m) PROVE IInv'
    BY <2>5, DeliverKeepsIInv
  <2> QED  BY <1>4, <2>1, <2>2, <2>3, <2>4, <2>5 DEF Continue
<1>5. CASE UNCHANGED vars
  BY <1>5, StutterKeepsIInv
<1> QED  BY <1>1, <1>2, <1>3, <1>4, <1>5 DEF Next

-----------------------------------------------------------------------------
(* The theorems *)

LEMMA InitIInv ==
    ASSUME Init
    PROVE  IInv
<1>1. TypeOK
  <2>1. Empty \in CacheMaps
    <3>1. Empty \in [{} -> Plan] /\ {} \in SUBSET Query
      BY DEF Empty
    <3> QED  BY <3>1, CacheMapIs
  <2>2. cache_map \in [Shard -> CacheMaps]
    BY <2>1 DEF Init
  <2>3. lru_list \in [Shard -> Seq(Query)] /\ used \in [Shard -> Seq(Query)]
    <3>1. <<>> \in Seq(Query)
      OBVIOUS
    <3> QED  BY <3>1 DEF Init
  <2>4. /\ view \in [Shard -> 0 .. MaxChanges]
        /\ changes \in 0 .. MaxChanges
    BY CachesAssumption DEF Init
  <2> QED  BY <2>2, <2>3, <2>4 DEF Init, TypeOK, CacheMaps
<1>2. PlansKept
  <2> SUFFICES ASSUME NEW s \in Shard
               PROVE  Recent(used[s], lru_list[s]) /\ DOMAIN cache_map[s] = Range(lru_list[s])
    BY DEF PlansKept
  <2>1. used[s] = <<>> /\ lru_list[s] = <<>> /\ DOMAIN cache_map[s] = {}
    BY DEF Init, Empty
  <2> QED  BY <2>1, RecentWhenCleared
<1>3. ViewsFirst
  BY DEF Init, ViewsFirst
<1>4. PlansFresh
  <2>1. \A s \in Shard : DOMAIN cache_map[s] = {}
    BY DEF Init, Empty
  <2> QED  BY <2>1 DEF PlansFresh
<1>5. ClosuresFresh
  BY DEF Init, ClosuresFresh
<1> QED  BY <1>1, <1>2, <1>3, <1>4, <1>5 DEF IInv

LEMMA Invariance == Spec => []IInv
<1>1. Init => IInv
  BY InitIInv
<1>2. IInv /\ [Next]_vars => IInv'
  BY NextKeepsIInv
<1> QED  BY <1>1, <1>2, PTL DEF Spec

\* What every shard keeps of queries, of closures and of the catalog has its type whatever queries,
\* writes and schema statements run, and in whatever order their messages arrive.
THEOREM TypeCorrect == Spec => []TypeOK
<1>1. IInv => TypeOK
  BY DEF IInv
<1> QED  BY <1>1, Invariance, PTL

\* GqlQueryCache::get and put keep the list and the map of a plan cache in step, and the cache
\* holds the queries used last since it was cleared, in that order, for every capacity.
THEOREM RecentPlansKeptHolds == Spec => []RecentPlansKept
<1>1. IInv => RecentPlansKept
  <2> SUFFICES ASSUME IInv, NEW s \in Shard
               PROVE  /\ lru_list[s] = SubSeq(used[s], 1, IF Len(used[s]) < capacity THEN Len(used[s]) ELSE capacity)
                      /\ DOMAIN cache_map[s] = Range(lru_list[s])
    BY DEF RecentPlansKept
  <2>1. Recent(used[s], lru_list[s]) /\ DOMAIN cache_map[s] = Range(lru_list[s])
    BY DEF IInv, PlansKept
  <2> QED  BY <2>1, RecentIsBeginning DEF Fit
<1> QED  BY <1>1, Invariance, PTL

\* A change of the traits clears the plans of each shard in the same step, and a change of the view
\* is followed by a clear of every shard, so that no plan made under another catalog stays.
THEOREM PlansFreshHolds == Spec => []PlansFresh
<1>1. IInv => PlansFresh
  BY DEF IInv
<1> QED  BY <1>1, Invariance, PTL

\* A write reaches every cached closure: InvalidateAlgebraicCachesPeered leaves word of it with every
\* shard, but for the two exceptions that ClosuresFresh names.
THEOREM ClosuresFreshHolds == Spec => []ClosuresFresh
<1>1. IInv => ClosuresFresh
  BY DEF IInv
<1> QED  BY <1>1, Invariance, PTL

=============================================================================
