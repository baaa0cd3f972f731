----------------------- MODULE NodeProperties_proofs ------------------------
(***************************************************************************)
(* What reads, counts, searches and filters of a property answer, of       *)
(* nodes and relationships, for all keys, slots, values and operations.    *)
(*                                                                         *)
(* A column is a vector that grows when a slot beyond it is written, and   *)
(* the padding is filled with defaults. That it gives no other slot a      *)
(* value rests on what is deleted: a slot beyond the vector, or free, is   *)
(* among the deleted properties, but for the slots that are as old as the  *)
(* type of the property and were not written since. ColumnFits says so and *)
(* ColumnReads what is then read; the two together are kept by every       *)
(* handler of both modules, which is why they are stated of any column and *)
(* any set of freed slots. Counting nulls subtracts one bitmap's size from *)
(* another's in unsigned words: the freed slots are among the deleted      *)
(* properties, so the difference does not wrap.                            *)
(*                                                                         *)
(* The order: one column and its writers; what a column that holds what    *)
(* was written answers; counting; the nodes; the relationships; searching; *)
(* reading a batch; filtering a list; the theorems.                        *)
(***************************************************************************)
EXTENDS MCNodeProperties, NodeTypes_lemmas

\* What the vector of a column can hold: values, and lists that hold an item twice.
Stored == Value \cup {v + 1 : v \in Value}

\* Column c of slots 0 .. n - 1, of which those in freed are free. Those in old are as old as the
\* type of the property and have not been written since; the others are deleted when they are free
\* or beyond the vector.
ColumnFits(c, n, freed, old) ==
    /\ c \in [kind : ValueKind \cup {"none", "untyped"}, vec : Seq(Stored), gone : SUBSET Nat]
    /\ Len(c.vec) <= n
    /\ c.gone \subseteq 0 .. n - 1
    /\ old \subseteq 0 .. n - 1
    /\ c.kind \notin ValueKind => c.vec = <<>>
    /\ c.kind = "none" => c.gone = {} /\ old = {}
    /\ \A i \in old : i \notin c.gone /\ (Covers(c, i) => c.vec[i + 1] = Default)
    /\ c.kind # "none" => \A i \in (0 .. n - 1) \ old : ~Covers(c, i) \/ i \in freed => i \in c.gone

\* The slots in use are read as what was written to them, the late ones as nothing or the default.
ColumnReads(c, n, freed, w, old) ==
    \A i \in (0 .. n - 1) \ freed : IF i \in old THEN w[i] = NoValue ELSE getProperties(c, i) = w[i]

ColumnHolds(c, n, freed, w, old) == ColumnFits(c, n, freed, old) /\ ColumnReads(c, n, freed, w, old)

\* A list that holds an item twice is one more value, and the mark for none is no value at all.
LEMMA StoredFacts == Default \in Value /\ Value \subseteq Stored /\ NoValue \notin Stored
BY PropertyColumnsAssumption, Zenon DEF Default, Stored

\* The parts of a column that fits.
LEMMA FitsParts ==
    ASSUME NEW c, NEW n \in Nat, NEW freed, NEW old, ColumnFits(c, n, freed, old)
    PROVE  /\ c = [kind |-> c.kind, vec |-> c.vec, gone |-> c.gone]
           /\ c.kind \in ValueKind \cup {"none", "untyped"}
           /\ c.vec \in Seq(Stored) /\ Len(c.vec) \in Nat /\ Len(c.vec) <= n
           /\ \A i \in 0 .. n - 1 : Covers(c, i) => c.vec[i + 1] \in Stored
<1>1. c \in [kind : ValueKind \cup {"none", "untyped"}, vec : Seq(Stored), gone : SUBSET Nat]
      /\ Len(c.vec) <= n
  BY DEF ColumnFits
<1>2. c.vec \in Seq(Stored) /\ Len(c.vec) \in Nat
  BY <1>1
<1>3. ASSUME NEW i \in 0 .. n - 1, Covers(c, i) PROVE c.vec[i + 1] \in Stored
  <2>1. i + 1 \in 1 .. Len(c.vec)
    BY <1>2, <1>3 DEF Covers
  <2> QED  BY <1>2, <2>1
<1> QED  BY <1>1, <1>2, <1>3

\* What may be asked of the slots of two columns, one before and one after slot i is written: slot
\* i may be a new one, and may have been freed or taken.
SlotsFor(n, freed, n2, freed2, i) ==
    /\ n2 \in Nat /\ n <= n2 /\ i \in 0 .. n2 - 1
    /\ \A j \in 0 .. n2 - 1 : j # i => j \in 0 .. n - 1
    /\ \A j \in 0 .. n - 1 : j # i => (j \in freed2 <=> j \in freed)

\* Column d reads as x at slot i, and at the other slots, the late ones aside, as column c.
Rewrites(c, d, n, freed, old, i, x) ==
    /\ ColumnFits(d, n, freed, old \ {i})
    /\ d.kind = c.kind
    /\ getProperties(d, i) = x
    /\ \A j \in (0 .. n - 1) \ (old \cup {i}) : getProperties(d, j) = getProperties(c, j)

\* deleteProperty, when slot i is deleted, freed or taken.
LEMMA DeleteFits ==
    ASSUME NEW c, NEW n \in Nat, NEW freed, NEW old, ColumnFits(c, n, freed, old),
           NEW n2, NEW freed2, NEW i, SlotsFor(n, freed, n2, freed2, i)
    PROVE  Rewrites(c, deleteProperty(c, i), n2, freed2, old, i, NoValue)
<1> DEFINE d == deleteProperty(c, i)
<1>1. /\ c = [kind |-> c.kind, vec |-> c.vec, gone |-> c.gone]
      /\ c.kind \in ValueKind \cup {"none", "untyped"}
      /\ c.vec \in Seq(Stored) /\ Len(c.vec) \in Nat /\ Len(c.vec) <= n
  BY FitsParts
<1>2. /\ c.gone \subseteq 0 .. n - 1 /\ old \subseteq 0 .. n - 1
      /\ c.kind \notin ValueKind => c.vec = <<>>
      /\ c.kind = "none" => c.gone = {} /\ old = {}
      /\ \A j \in old : j \notin c.gone /\ (Covers(c, j) => c.vec[j + 1] = Default)
      /\ c.kind # "none" => \A j \in (0 .. n - 1) \ old : ~Covers(c, j) \/ j \in freed => j \in c.gone
  BY DEF ColumnFits
<1>3. /\ n2 \in Nat /\ n <= n2 /\ i \in 0 .. n2 - 1
      /\ \A j \in 0 .. n2 - 1 : j # i => j \in 0 .. n - 1
      /\ \A j \in 0 .. n - 1 : j # i => (j \in freed2 <=> j \in freed)
  BY DEF SlotsFor
<1>4. "none" \notin ValueKind
  BY DEF ValueKind, ListKind
<1>5. CASE c.kind = "none"
  <2>1. d = c
    BY <1>5 DEF deleteProperty
  <2>2. ColumnFits(c, n2, freed2, old \ {i})
    BY <1>1, <1>2, <1>3, <1>5 DEF ColumnFits
  <2>3. \A j : getProperties(c, j) = NoValue
    BY <1>4, <1>5 DEF getProperties
  <2> QED  BY <2>1, <2>2, <2>3 DEF Rewrites
<1>6. CASE c.kind # "none"
  <2>1. d = [kind |-> c.kind, vec |-> c.vec, gone |-> c.gone \cup {i}]
    BY <1>1, <1>6 DEF deleteProperty
  <2> HIDE DEF d
  <2>2. d.kind = c.kind /\ d.vec = c.vec /\ d.gone = c.gone \cup {i}
    BY <2>1
  <2>3. \A j \in Nat : Covers(d, j) <=> Covers(c, j)
    BY <2>2 DEF Covers
  <2>4. d.gone \subseteq 0 .. n2 - 1 /\ old \ {i} \subseteq 0 .. n2 - 1
    BY <1>2, <1>3, <2>2
  <2>5. \A j \in old \ {i} : j \notin d.gone /\ (Covers(d, j) => d.vec[j + 1] = Default)
    BY <1>2, <2>2 DEF Covers
  <2>6. \A j \in (0 .. n2 - 1) \ (old \ {i}) : ~Covers(d, j) \/ j \in freed2 => j \in d.gone
    <3>1. SUFFICES ASSUME NEW j \in (0 .. n2 - 1) \ (old \ {i}), ~Covers(d, j) \/ j \in freed2, j # i
                   PROVE  j \in c.gone
      BY <2>2
    <3>2. j \in (0 .. n - 1) \ old /\ (j \in freed2 <=> j \in freed)
      BY <1>3, <3>1
    <3>3. ~Covers(c, j) \/ j \in freed
      BY <2>3, <3>1, <3>2
    <3> QED  BY <1>2, <1>6, <3>2, <3>3
  <2>7. d \in [kind : ValueKind \cup {"none", "untyped"}, vec : Seq(Stored), gone : SUBSET Nat]
    BY <1>1, <2>1, <2>4
  <2>8. ColumnFits(d, n2, freed2, old \ {i})
    BY <1>1, <1>2, <1>3, <1>6, <2>2, <2>4, <2>5, <2>6, <2>7 DEF ColumnFits
  <2>9. getProperties(d, i) = NoValue
    BY <2>2 DEF getProperties
  <2>10. \A j \in (0 .. n2 - 1) \ (old \cup {i}) : getProperties(d, j) = getProperties(c, j)
    BY <2>2, <2>3 DEF getProperties
  <2> QED  BY <2>2, <2>8, <2>9, <2>10 DEF d, Rewrites
<1> QED  BY <1>5, <1>6

\* The library's Max, of two.
LEMMA MaxOfTwo ==
    ASSUME NEW m \in Nat, NEW n \in Nat
    PROVE  Max({m, n}) = IF m >= n THEN m ELSE n
BY DEF Max

\* setValue: the padding gives no other slot a value, since those beyond the vector are deleted or late.
LEMMA SetFits ==
    ASSUME NEW c, NEW n \in Nat, NEW freed, NEW old, ColumnFits(c, n, freed, old),
           c.kind \in ValueKind, NEW i \in 0 .. n - 1, i \notin freed, NEW v \in Stored
    PROVE  Rewrites(c, setValue(c, i, v), n, freed, old, i, v)
<1> DEFINE N == Max({Len(c.vec), i + 1})
           d == setValue(c, i, v)
<1>1. /\ c = [kind |-> c.kind, vec |-> c.vec, gone |-> c.gone]
      /\ c.vec \in Seq(Stored) /\ Len(c.vec) \in Nat /\ Len(c.vec) <= n
      /\ \A j \in 0 .. n - 1 : Covers(c, j) => c.vec[j + 1] \in Stored
  BY FitsParts
<1>2. /\ c.gone \subseteq 0 .. n - 1 /\ old \subseteq 0 .. n - 1
      /\ \A j \in old : j \notin c.gone /\ (Covers(c, j) => c.vec[j + 1] = Default)
      /\ \A j \in (0 .. n - 1) \ old : ~Covers(c, j) \/ j \in freed => j \in c.gone
  BY DEF ColumnFits, ValueKind, ListKind
<1>3. N \in Nat /\ N >= Len(c.vec) /\ N >= i + 1 /\ N <= n
  <2>1. Len(c.vec) \in Nat /\ i + 1 \in Nat
    BY <1>1
  <2>2. N = IF Len(c.vec) >= i + 1 THEN Len(c.vec) ELSE i + 1
    BY <2>1, MaxOfTwo
  <2> HIDE DEF N
  <2> QED  BY <1>1, <2>1, <2>2
<1> DEFINE x == [[j \in 1 .. N |-> IF j <= Len(c.vec) THEN c.vec[j] ELSE Default] EXCEPT ![i + 1] = v]
<1>4. d = [kind |-> c.kind, vec |-> x, gone |-> c.gone \ {i}]
  <2>1. x = [Padded(c.vec, N) EXCEPT ![i + 1] = v]
    BY DEF Padded
  <2> HIDE DEF x
  <2>2. d = [c EXCEPT !.vec = x, !.gone = @ \ {i}]
    BY <2>1 DEF setValue
  <2> HIDE DEF d
  <2> QED  BY <1>1, <2>2
<1> HIDE DEF N
<1>5. x = [j \in 1 .. N |-> IF j = i + 1 THEN v ELSE IF j <= Len(c.vec) THEN c.vec[j] ELSE Default]
  OBVIOUS
<1>6. \A j \in 1 .. N : x[j] \in Stored
  BY <1>1, <1>3, <1>5, StoredFacts
<1>7. x \in [1 .. N -> Stored]
  BY <1>5, <1>6
<1> HIDE DEF x
<1>8. x \in Seq(Stored) /\ Len(x) = N
  BY <1>3, <1>7
<1> HIDE DEF d
<1>9. d.kind = c.kind /\ d.vec = x /\ d.gone = c.gone \ {i}
  BY <1>4
<1>10. \A j \in 0 .. n - 1 : Covers(c, j) => Covers(d, j) /\ (j # i => d.vec[j + 1] = c.vec[j + 1])
  BY <1>1, <1>3, <1>5, <1>8, <1>9 DEF Covers
<1>11. \A j \in 0 .. n - 1 : Covers(d, j) /\ ~Covers(c, j) /\ j # i => d.vec[j + 1] = Default
  BY <1>1, <1>3, <1>5, <1>8, <1>9 DEF Covers
<1>12. Covers(d, i) /\ d.vec[i + 1] = v
  BY <1>1, <1>3, <1>5, <1>8, <1>9 DEF Covers
<1>13. ColumnFits(d, n, freed, old \ {i})
  <2>1. \A j \in old \ {i} : j \notin d.gone /\ (Covers(d, j) => d.vec[j + 1] = Default)
    BY <1>2, <1>9, <1>10, <1>11
  <2>2. \A j \in (0 .. n - 1) \ (old \ {i}) : ~Covers(d, j) \/ j \in freed => j \in d.gone
    BY <1>2, <1>9, <1>10, <1>12
  <2>3. d \in [kind : ValueKind \cup {"none", "untyped"}, vec : Seq(Stored), gone : SUBSET Nat]
    BY <1>2, <1>4, <1>8
  <2>4. d.gone \subseteq 0 .. n - 1 /\ old \ {i} \subseteq 0 .. n - 1 /\ Len(d.vec) <= n
    BY <1>2, <1>3, <1>8, <1>9
  <2>5. d.kind \in ValueKind /\ d.kind # "none"
    BY <1>9 DEF ValueKind, ListKind
  <2> QED  BY <2>1, <2>2, <2>3, <2>4, <2>5 DEF ColumnFits
<1>14. getProperties(d, i) = v
  BY <1>9, <1>12 DEF getProperties
<1>15. ASSUME NEW j \in (0 .. n - 1) \ (old \cup {i}) PROVE getProperties(d, j) = getProperties(c, j)
  <2>1. CASE Covers(c, j)
    BY <1>9, <1>10, <2>1 DEF getProperties
  <2>2. CASE ~Covers(c, j)
    <3>1. j \in c.gone /\ j \in d.gone
      BY <1>2, <1>9, <2>2
    <3> QED  BY <3>1 DEF getProperties
  <2> QED  BY <2>1, <2>2
<1> QED  BY <1>9, <1>13, <1>14, <1>15 DEF d, Rewrites

\* What JSON leaves in the column is something it can hold.
LEMMA FromJsonStored ==
    ASSUME NEW c, NEW l \in Literal
    PROVE  fromJson(c, l) \in Stored /\ l.value \in Stored
<1>1. l.value \in Value
  BY DEF Literal
<1>2. Twice(l.value) \in Stored /\ Default \in Stored /\ l.value \in Stored
  BY <1>1, StoredFacts DEF Twice, Stored
<1> QED  BY <1>2 DEF fromJson

\* setProperty with a JSON value leaves the property as it was, or leaves JsonLeaves.
LEMMA JsonFitsIn ==
    ASSUME NEW c, NEW n \in Nat, NEW freed, NEW old, ColumnFits(c, n, freed, old),
           c.kind \in ValueKind, NEW i \in 0 .. n - 1, i \notin freed, NEW l \in Literal
    PROVE  /\ Untouched(c, l) => setProperty(c, i, l) = c
           /\ ~Untouched(c, l) => Rewrites(c, setProperty(c, i, l), n, freed, old, i, JsonLeaves(c, l))
<1>1. Untouched(c, l) => setProperty(c, i, l) = c
  BY DEF Untouched, setProperty
<1>2. CASE ~Untouched(c, l) /\ JsonFits(c, l) /\ l # NoValue
  <2>1. setProperty(c, i, l) = setValue(c, i, fromJson(c, l)) /\ JsonLeaves(c, l) = fromJson(c, l)
    BY <1>2 DEF Untouched, setProperty, JsonLeaves
  <2>2. fromJson(c, l) \in Stored
    BY FromJsonStored
  <2>3. Rewrites(c, setValue(c, i, fromJson(c, l)), n, freed, old, i, fromJson(c, l))
    BY <2>2, SetFits
  <2> QED  BY <1>2, <2>1, <2>3
<1>3. CASE ~Untouched(c, l) /\ ~JsonFits(c, l)
  <2>1. setProperty(c, i, l) = deleteProperty(c, i) /\ JsonLeaves(c, l) = NoValue
    BY <1>3 DEF Untouched, setProperty, JsonLeaves
  <2>2. SlotsFor(n, freed, n, freed, i)
    BY DEF SlotsFor
  <2>3. Rewrites(c, deleteProperty(c, i), n, freed, old, i, NoValue)
    BY <2>2, DeleteFits
  <2> QED  BY <1>3, <2>1, <2>3
<1>4. l # NoValue
  BY NoValueAssumption
<1> QED  BY <1>1, <1>2, <1>3, <1>4

-----------------------------------------------------------------------------
(* The handlers' changes keep a column what it should be *)

\* Slot i is written, and the history with it.
LEMMA RewriteHolds ==
    ASSUME NEW c, NEW d, NEW n \in Nat, NEW freed, NEW w, NEW old, NEW n2, NEW freed2, NEW i, NEW x,
           ColumnHolds(c, n, freed, w, old), SlotsFor(n, freed, n2, freed2, i),
           Rewrites(c, d, n2, freed2, old, i, x), 0 .. n2 - 1 \subseteq DOMAIN w
    PROVE  ColumnHolds(d, n2, freed2, [w EXCEPT ![i] = x], old \ {i})
<1> DEFINE y == [w EXCEPT ![i] = x]
<1>1. /\ n2 \in Nat /\ i \in 0 .. n2 - 1
      /\ \A j \in 0 .. n2 - 1 : j # i => j \in 0 .. n - 1 /\ (j \in freed2 <=> j \in freed)
  BY DEF SlotsFor
<1>2. y[i] = x /\ \A j \in 0 .. n2 - 1 : j # i => y[j] = w[j]
  BY <1>1
<1> HIDE DEF y
<1>3. ASSUME NEW j \in (0 .. n2 - 1) \ freed2
      PROVE  IF j \in old \ {i} THEN y[j] = NoValue ELSE getProperties(d, j) = y[j]
  <2>1. CASE j = i
    BY <1>2, <2>1 DEF Rewrites
  <2>2. CASE j # i
    <3>1. j \in (0 .. n - 1) \ freed /\ y[j] = w[j]
      BY <1>1, <1>2, <2>2
    <3>2. IF j \in old THEN w[j] = NoValue ELSE getProperties(c, j) = w[j]
      BY <3>1 DEF ColumnHolds, ColumnReads
    <3>3. j \notin old => getProperties(d, j) = getProperties(c, j)
      BY <2>2 DEF Rewrites
    <3> QED  BY <2>2, <3>1, <3>2, <3>3
  <2> QED  BY <2>1, <2>2
<1> QED  BY <1>3 DEF ColumnHolds, ColumnReads, Rewrites, y

\* Deleting the property of a slot and setting what the JSON names, as adding and resetting do.
LEMMA FromJsonRewrites ==
    ASSUME NEW c, NEW n \in Nat, NEW freed, NEW old, ColumnFits(c, n, freed, old),
           NEW n2, NEW freed2, NEW i, SlotsFor(n, freed, n2, freed2, i), i \notin freed2,
           NEW l \in Literal \cup {NoValue}
    PROVE  Rewrites(c, setPropertiesFromJSON(deleteProperty(c, i), i, l), n2, freed2, old, i, JsonLeaves(c, l))
<1> DEFINE d == deleteProperty(c, i)
           e == setProperty(d, i, l)
<1>1. Rewrites(c, d, n2, freed2, old, i, NoValue)
  BY DeleteFits
<1>2. n2 \in Nat /\ i \in 0 .. n2 - 1
  BY DEF SlotsFor
<1> HIDE DEF d
<1>3. ColumnFits(d, n2, freed2, old \ {i}) /\ d.kind = c.kind
  BY <1>1 DEF Rewrites
<1>4. CASE l = NoValue \/ c.kind \notin ValueKind
  <2>1. setPropertiesFromJSON(d, i, l) = d /\ JsonLeaves(c, l) = NoValue
    BY <1>3, <1>4 DEF setPropertiesFromJSON, JsonLeaves
  <2> QED  BY <1>1, <2>1 DEF d
<1>5. CASE l # NoValue /\ c.kind \in ValueKind
  <2>1. l \in Literal /\ setPropertiesFromJSON(d, i, l) = e
    BY <1>3, <1>5 DEF setPropertiesFromJSON
  <2>2. (Untouched(d, l) <=> Untouched(c, l)) /\ JsonLeaves(d, l) = JsonLeaves(c, l)
    BY <1>3 DEF Untouched, Throws, FallsThrough, JsonLeaves, JsonFits, fromJson
  <2>3. CASE Untouched(d, l)
    <3>1. e = d
      BY <1>2, <1>3, <1>5, <2>1, <2>3, JsonFitsIn
    <3>2. JsonLeaves(c, l) = NoValue
      BY <2>2, <2>3 DEF JsonLeaves
    <3> HIDE DEF e
    <3> QED  BY <1>1, <2>1, <3>1, <3>2 DEF d
  <2>4. CASE ~Untouched(d, l)
    <3>1. Rewrites(d, e, n2, freed2, old \ {i}, i, JsonLeaves(c, l))
      BY <1>2, <1>3, <1>5, <2>1, <2>2, <2>4, JsonFitsIn
    <3> HIDE DEF e
    <3>2. (old \ {i}) \ {i} = old \ {i} /\ (old \ {i}) \cup {i} = old \cup {i}
      OBVIOUS
    <3>3. Rewrites(c, e, n2, freed2, old, i, JsonLeaves(c, l))
      BY <1>1, <3>1, <3>2 DEF Rewrites
    <3> QED  BY <2>1, <3>3 DEF d
  <2> QED  BY <2>3, <2>4
<1> QED  BY <1>4, <1>5

\* A new type: every slot there is becomes a late one, and reads as nothing until a vector grows.
LEMMA TypeInsertHolds ==
    ASSUME NEW c, NEW n \in Nat, NEW freed, NEW w, NEW old, ColumnHolds(c, n, freed, w, old),
           NEW kind \in ValueKind \cup {"unknown"}
    PROVE  ColumnHolds(setPropertyType(c, kind), n, freed, w, IF c.kind = "none" THEN 0 .. n - 1 ELSE old)
<1>1. CASE c.kind # "none"
  BY <1>1 DEF setPropertyType
<1>2. CASE c.kind = "none"
  <2> DEFINE d == setPropertyType(c, kind)
  <2>1. d = [kind |-> IF kind \in ValueKind THEN kind ELSE "untyped", vec |-> <<>>, gone |-> {}]
    BY <1>2 DEF setPropertyType
  <2> HIDE DEF d
  <2>2. d.kind # "none" /\ d.kind \in ValueKind \cup {"untyped"} /\ d.vec = <<>> /\ d.gone = {}
    BY <2>1 DEF ValueKind, ListKind
  <2>3. d \in [kind : ValueKind \cup {"none", "untyped"}, vec : Seq(Stored), gone : SUBSET Nat]
    BY <2>1, <2>2
  <2>4. Len(d.vec) = 0 /\ \A i \in 0 .. n - 1 : ~Covers(d, i)
    BY <2>2 DEF Covers
  <2>5. ColumnFits(d, n, freed, 0 .. n - 1)
    BY <2>2, <2>3, <2>4 DEF ColumnFits
  <2>6. ASSUME NEW i \in (0 .. n - 1) \ freed PROVE w[i] = NoValue
    <3>1. old = {}
      BY <1>2 DEF ColumnHolds, ColumnFits
    <3>2. getProperties(c, i) = w[i]
      BY <3>1 DEF ColumnHolds, ColumnReads
    <3> QED  BY <1>2, <3>2 DEF getProperties, ValueKind, ListKind
  <2> QED  BY <1>2, <2>5, <2>6 DEF ColumnHolds, ColumnReads, d
<1> QED  BY <1>1, <1>2

\* No type: nothing is written and nothing is read.
LEMMA NoColumnHolds ==
    ASSUME NEW n \in Nat, NEW freed, NEW w, \A i \in 0 .. n - 1 : w[i] = NoValue
    PROVE  ColumnHolds(NoColumn, n, freed, w, {})
<1>1. NoColumn.kind = "none" /\ NoColumn.vec = <<>> /\ NoColumn.gone = {} /\ Len(<<>>) = 0
  BY DEF NoColumn
<1>2. NoColumn \in [kind : ValueKind \cup {"none", "untyped"}, vec : Seq(Stored), gone : SUBSET Nat]
  BY DEF NoColumn
<1>3. "none" \notin ValueKind
  BY DEF ValueKind, ListKind
<1>4. ColumnFits(NoColumn, n, freed, {})
  BY <1>1, <1>2 DEF ColumnFits
<1>5. \A i : getProperties(NoColumn, i) = NoValue
  BY <1>1, <1>3 DEF getProperties
<1> QED  BY <1>4, <1>5 DEF ColumnHolds, ColumnReads

-----------------------------------------------------------------------------
(* What a column that holds what was written answers *)

\* getProperties gives a slot in use what was last written to it, or the default to a late one.
LEMMA ReadsHold ==
    ASSUME NEW c, NEW n \in Nat, NEW freed, NEW w, NEW old, ColumnHolds(c, n, freed, w, old),
           NEW i \in (0 .. n - 1) \ freed
    PROVE  \/ getProperties(c, i) = w[i]
           \/ i \in old /\ i \notin c.gone /\ getProperties(c, i) = Default
<1>1. IF i \in old THEN w[i] = NoValue ELSE getProperties(c, i) = w[i]
  BY DEF ColumnHolds, ColumnReads
<1>2. i \in old => i \notin c.gone /\ (Covers(c, i) => c.vec[i + 1] = Default)
  BY DEF ColumnHolds, ColumnFits
<1> QED  BY <1>1, <1>2 DEF getProperties

\* Read by itself the property is the same, but for lists of integers.
LEMMA SingleRead ==
    \A c, i : getProperty(c, i) = IF c.kind = "integer_list" THEN NoValue ELSE getProperties(c, i)
BY DEF getProperty, getProperties

\* The slots a scan matches are those whose last value matches, and the freed slots are among the
\* deleted ones.
LEMMA ScanHolds ==
    ASSUME NEW c, NEW n \in Nat, NEW t, NEW w, ColumnHolds(c, n, t.deletedIds, w, {}),
           c.kind \in ValueKind, t.deletedIds \subseteq 0 .. n - 1
    PROVE  /\ \A op, l : MatchingSlots(t, c, op, l) =
                 {i \in (0 .. n - 1) \ t.deletedIds : w[i] # NoValue /\ Holds(c.kind, op, w[i], l.value)}
           /\ t.deletedIds \subseteq c.gone /\ c.gone \subseteq 0 .. n - 1
           /\ c.gone \ t.deletedIds = {i \in (0 .. n - 1) \ t.deletedIds : w[i] = NoValue}
<1> DEFINE freed == t.deletedIds
<1>1. /\ c.gone \subseteq 0 .. n - 1
      /\ \A i \in 0 .. n - 1 : ~Covers(c, i) \/ i \in freed => i \in c.gone
  BY DEF ColumnHolds, ColumnFits, ValueKind, ListKind
<1>2. /\ Len(c.vec) \in Nat /\ Len(c.vec) <= n
      /\ \A i \in 0 .. n - 1 : Covers(c, i) => c.vec[i + 1] \in Stored
  BY FitsParts DEF ColumnHolds
<1>3. \A i \in (0 .. n - 1) \ freed : getProperties(c, i) = w[i]
  BY DEF ColumnHolds, ColumnReads
<1>4. \A i \in (0 .. n - 1) \ freed : i \notin c.gone => w[i] = c.vec[i + 1] /\ w[i] # NoValue /\ Covers(c, i)
  BY <1>1, <1>2, <1>3, StoredFacts DEF getProperties
<1>5. \A i \in (0 .. n - 1) \ freed : i \in c.gone => w[i] = NoValue
  BY <1>3 DEF getProperties
<1>6. \A i \in 0 .. n - 1 : Covers(c, i) <=> i \in 0 .. Len(c.vec) - 1
  BY <1>2 DEF Covers
<1>7. freed \subseteq c.gone
  BY <1>1
<1>8. c.gone \ freed = {i \in (0 .. n - 1) \ freed : w[i] = NoValue}
  BY <1>1, <1>4, <1>5
<1>9. ASSUME NEW op, NEW l
      PROVE  MatchingSlots(t, c, op, l) =
                 {i \in (0 .. n - 1) \ freed : w[i] # NoValue /\ Holds(c.kind, op, w[i], l.value)}
  <2> DEFINE Meets(x) == Holds(c.kind, op, x, l.value)
  <2>1. MatchingSlots(t, c, op, l) = {i \in 0 .. Len(c.vec) - 1 : i \notin c.gone \cup freed /\ Meets(c.vec[i + 1])}
    BY DEF MatchingSlots, getBlanks
  <2>2. 0 .. Len(c.vec) - 1 \subseteq 0 .. n - 1
    BY <1>2
  <2> HIDE DEF Meets
  <2>3. {i \in 0 .. Len(c.vec) - 1 : i \notin c.gone \cup freed /\ Meets(c.vec[i + 1])}
            = {i \in (0 .. n - 1) \ freed : w[i] # NoValue /\ Meets(w[i])}
    BY <1>4, <1>5, <1>6, <2>2
  <2> QED  BY <2>1, <2>3 DEF Meets
<1> QED  BY <1>1, <1>7, <1>8, <1>9

-----------------------------------------------------------------------------
(* Counting *)

\* The size of what is left of a part of an interval.
LEMMA DifferenceCount ==
    ASSUME NEW S, NEW U, IsFiniteSet(S), U \subseteq S
    PROVE  Cardinality(S \ U) = Cardinality(S) - Cardinality(U)
<1>1. S \cap U = U
  OBVIOUS
<1>2. IsFiniteSet(U)
  BY FS_Subset
<1> QED  BY <1>1, <1>2, FS_Difference

\* The slots in use, and those of them without a value.
InUse(n, freed) == (0 .. n - 1) \ freed

Lacking(n, freed, w) == {i \in InUse(n, freed) : w[i] = NoValue}

\* The deleted properties less the freed slots are the slots in use without a value.
Tallies(c, n, t, w) ==
    LET none  == Cardinality(Lacking(n, t.deletedIds, w))
        there == Cardinality(InUse(n, t.deletedIds))
    IN  /\ none \in Nat /\ there \in Nat /\ none <= there /\ there <= n
        /\ Cardinality(c.gone) - Cardinality(t.deletedIds) = none
        /\ Cardinality(InUse(n, t.deletedIds) \ Lacking(n, t.deletedIds, w)) = there - none
        /\ Cardinality((0 .. n - 1) \ Lacking(n, t.deletedIds, w)) = n - none

\* The sizes that findCount starts from: the slots that match, and the two bitmaps' difference.
LEMMA CountsHold ==
    ASSUME NEW c, NEW n \in Nat, NEW t, NEW w, ColumnHolds(c, n, t.deletedIds, w, {}),
           c.kind \in ValueKind, t.deletedIds \subseteq 0 .. n - 1
    PROVE  Tallies(c, n, t, w)
<1> DEFINE live  == InUse(n, t.deletedIds)
           nulls == Lacking(n, t.deletedIds, w)
<1>1. /\ t.deletedIds \subseteq c.gone /\ c.gone \subseteq 0 .. n - 1
      /\ c.gone \ t.deletedIds = nulls
  BY ScanHolds DEF InUse, Lacking
<1>2. IsFiniteSet(0 .. n - 1) /\ Cardinality(0 .. n - 1) = n
  <2>1. 0 \in Int /\ n - 1 \in Int
    OBVIOUS
  <2>2. IsFiniteSet(0 .. n - 1) /\ Cardinality(0 .. n - 1) = IF 0 > n - 1 THEN 0 ELSE (n - 1) - 0 + 1
    BY <2>1, FS_Interval
  <2> QED  BY <2>2
<1>3. /\ nulls \in SUBSET (0 .. n - 1) /\ live \in SUBSET (0 .. n - 1) /\ nulls \in SUBSET live
      /\ c.gone \in SUBSET (0 .. n - 1) /\ t.deletedIds \in SUBSET (0 .. n - 1)
  BY <1>1 DEF InUse, Lacking
<1> HIDE DEF live, nulls
<1>4. /\ IsFiniteSet(nulls) /\ IsFiniteSet(live) /\ IsFiniteSet(c.gone) /\ IsFiniteSet(t.deletedIds)
      /\ Cardinality(live) <= Cardinality(0 .. n - 1)
  BY <1>2, <1>3, FS_Subset
<1>5. Cardinality(nulls) <= Cardinality(live)
  BY <1>3, <1>4, FS_Subset
<1>6. Cardinality(nulls) \in Nat /\ Cardinality(live) \in Nat
  BY <1>4, FS_CardinalityType
<1>7. Cardinality(nulls) = Cardinality(c.gone) - Cardinality(t.deletedIds)
  BY <1>1, <1>4, DifferenceCount
<1>8. Cardinality(live \ nulls) = Cardinality(live) - Cardinality(nulls)
  BY <1>3, <1>4, DifferenceCount
<1>9. Cardinality((0 .. n - 1) \ nulls) = n - Cardinality(nulls)
  BY <1>2, <1>3, DifferenceCount
<1> QED  BY <1>2, <1>4, <1>5, <1>6, <1>7, <1>8, <1>9 DEF live, nulls, Tallies

\* A difference that does not wrap around.
LEMMA UnsignedIs ==
    ASSUME NEW m \in Nat, m < Word
    PROVE  Unsigned(m) = m
BY NodeTypesAssumption DEF Unsigned

-----------------------------------------------------------------------------
(* The nodes *)

NodesHold ==
    /\ WellFormed(nodes)
    /\ written \in [Slot -> Stored \cup {NoValue}]
    /\ ColumnHolds(column, Len(nodes.keys), nodes.deletedIds, written, late)

\* What the nodes' part of the invariant gives the handlers.
LEMMA NodesParts ==
    ASSUME NodesHold
    PROVE  /\ WellFormed(nodes) /\ nodes.keys \in Seq(Key \cup {NoKey}) /\ Len(nodes.keys) \in Nat
           /\ Len(nodes.keys) <= MaxSlots /\ SlotsOf(nodes) = 0 .. Len(nodes.keys) - 1
           /\ SlotsOf(nodes) \subseteq Slot /\ Slot \subseteq Nat /\ DOMAIN written = Slot
           /\ LiveSlots(nodes) = (0 .. Len(nodes.keys) - 1) \ nodes.deletedIds
           /\ nodes.deletedIds \subseteq 0 .. Len(nodes.keys) - 1
           /\ ColumnHolds(column, Len(nodes.keys), nodes.deletedIds, written, late)
           /\ ColumnFits(column, Len(nodes.keys), nodes.deletedIds, late)
<1>1. WellFormed(nodes)
  BY DEF NodesHold
<1>2. nodes.keys \in Seq(Key \cup {NoKey}) /\ Len(nodes.keys) <= MaxSlots
      /\ nodes.deletedIds \subseteq SlotsOf(nodes)
  BY <1>1 DEF WellFormed, NodeType, SlotsAgree, DeletedSlotsAreCleared
<1>3. SlotsOf(nodes) \subseteq Slot /\ Slot \subseteq Nat
  BY <1>1, SlotsAreSlots
<1> QED  BY <1>1, <1>2, <1>3 DEF NodesHold, SlotsOf, LiveSlots, ColumnHolds

\* A handler that writes a slot of a node, of those there were or a new one.
LEMMA NodesRewritten ==
    ASSUME NodesHold, WellFormed(nodes'), NEW i, NEW x \in Stored \cup {NoValue},
           SlotsFor(Len(nodes.keys), nodes.deletedIds, Len(nodes'.keys), nodes'.deletedIds, i),
           Rewrites(column, column', Len(nodes'.keys), nodes'.deletedIds, late, i, x),
           written' = [written EXCEPT ![i] = x], late' = late \ {i}
    PROVE  NodesHold'
<1>1. SlotsOf(nodes') \subseteq Slot /\ i \in SlotsOf(nodes')
  BY SlotsAreSlots DEF SlotsFor, SlotsOf
<1>2. 0 .. Len(nodes'.keys) - 1 \subseteq DOMAIN written
  BY <1>1, NodesParts DEF SlotsOf
<1>3. ColumnHolds(column', Len(nodes'.keys), nodes'.deletedIds, written', late')
  <2>1. Len(nodes.keys) \in Nat /\ ColumnHolds(column, Len(nodes.keys), nodes.deletedIds, written, late)
    BY NodesParts
  <2> QED  BY <1>2, <2>1, RewriteHolds
<1>4. written' \in [Slot -> Stored \cup {NoValue}]
  BY <1>1 DEF NodesHold
<1> QED  BY <1>3, <1>4 DEF NodesHold

\* The history records values a column can hold.
LEMMA JsonLeavesStored ==
    ASSUME NEW c, NEW l \in Literal \cup {NoValue}
    PROVE  JsonLeaves(c, l) \in Stored \cup {NoValue}
BY FromJsonStored DEF JsonLeaves

\* Adding a node takes a slot, deletes its property and sets what the request names.
LEMMA NodeAddHolds ==
    ASSUME NodesHold, NEW k \in Key, NEW l \in Literal \cup {NoValue}, NodeAddWithProperties(k, l)
    PROVE  NodesHold'
<1> DEFINE i == NextSlot(nodes)
           u == NodeAdd(nodes, k)
<1>1. /\ nodes.keyToNodeId[k] = NoSlot /\ HasRoom(nodes) /\ nodes' = u
      /\ column' = setPropertiesFromJSON(deleteProperty(column, i), i, l)
      /\ written' = [written EXCEPT ![i] = JsonLeaves(column, l)] /\ late' = late \ {i}
  BY DEF NodeAddWithProperties, addId_Properties
<1>2. /\ WellFormed(u) /\ i \in Slot /\ i \notin LiveSlots(nodes) /\ SlotsOf(u) = SlotsOf(nodes) \cup {i}
      /\ LiveSlots(u) = LiveSlots(nodes) \cup {i} /\ Len(nodes.keys) <= Len(u.keys)
  BY <1>1, NodesParts, NodeAddDoes
<1> HIDE DEF i, u
<1>3. Len(u.keys) \in Nat /\ Len(nodes.keys) \in Nat
  BY <1>2, NodesParts DEF WellFormed, NodeType
<1>4. SlotsFor(Len(nodes.keys), nodes.deletedIds, Len(u.keys), u.deletedIds, i) /\ i \notin u.deletedIds
  BY <1>2, <1>3 DEF SlotsFor, SlotsOf, LiveSlots
<1>5. Rewrites(column, column', Len(u.keys), u.deletedIds, late, i, JsonLeaves(column, l))
  BY <1>1, <1>3, <1>4, NodesParts, FromJsonRewrites
<1> QED  BY <1>1, <1>2, <1>4, <1>5, JsonLeavesStored, NodesRewritten

\* What the handlers that ValidNodeId lets through may rely on.
LEMMA ValidSlot ==
    ASSUME NodesHold, NEW i \in Slot, ValidNodeId(nodes, i)
    PROVE  /\ i \in LiveSlots(nodes) /\ i \in 0 .. Len(nodes.keys) - 1 /\ i \notin nodes.deletedIds
           /\ SlotsFor(Len(nodes.keys), nodes.deletedIds, Len(nodes.keys), nodes.deletedIds, i)
<1>1. i \in LiveSlots(nodes)
  BY NodesParts, ValidIsLive
<1> QED  BY <1>1, NodesParts DEF SlotsFor

\* Removing a node frees its slot and deletes its property.
LEMMA RemoveNodeHolds ==
    ASSUME NodesHold, NEW i \in Slot, RemoveNode(i)
    PROVE  NodesHold'
<1> DEFINE u == NodeRemove(nodes, i)
<1>1. /\ ValidNodeId(nodes, i) /\ nodes' = u /\ column' = deleteProperty(column, i)
      /\ written' = [written EXCEPT ![i] = NoValue] /\ late' = late \ {i}
  BY DEF RemoveNode
<1>2. i \in LiveSlots(nodes) /\ i \in 0 .. Len(nodes.keys) - 1
  BY <1>1, ValidSlot
<1>3. /\ WellFormed(u) /\ SlotsOf(u) = SlotsOf(nodes) /\ LiveSlots(u) = LiveSlots(nodes) \ {i}
      /\ Len(u.keys) = Len(nodes.keys)
  BY <1>2, NodesParts, NodeRemoveDoes
<1> HIDE DEF u
<1>4. SlotsFor(Len(nodes.keys), nodes.deletedIds, Len(u.keys), u.deletedIds, i)
  BY <1>2, <1>3, NodesParts DEF SlotsFor, SlotsOf, LiveSlots
<1>5. Rewrites(column, column', Len(u.keys), u.deletedIds, late, i, NoValue)
  BY <1>1, <1>4, NodesParts, DeleteFits
<1> QED  BY <1>1, <1>3, <1>4, <1>5, NodesRewritten

\* NodeSetProperty, whose value has the type of the property.
LEMMA NodeSetPropertyHolds ==
    ASSUME NodesHold, NEW i \in Slot, NEW l \in Literal, NodeSetProperty(i, l)
    PROVE  NodesHold'
<1>1. /\ ValidNodeId(nodes, i) /\ column.kind \in ValueKind /\ nodes' = nodes
      /\ column' = setValue(column, i, l.value)
      /\ written' = [written EXCEPT ![i] = l.value] /\ late' = late \ {i}
  BY DEF NodeSetProperty, TypedFits, setNodeProperty, Literal
<1>2. l.value \in Stored
  BY FromJsonStored
<1>3. Rewrites(column, column', Len(nodes.keys), nodes.deletedIds, late, i, l.value)
  BY <1>1, <1>2, ValidSlot, NodesParts, SetFits
<1> QED  BY <1>1, <1>2, <1>3, ValidSlot, NodesParts, NodesRewritten

\* NodeSetPropertyFromJson, which may leave the property untouched.
LEMMA NodeSetPropertyFromJsonHolds ==
    ASSUME NodesHold, NEW i \in Slot, NEW l \in Literal, NodeSetPropertyFromJson(i, l)
    PROVE  NodesHold'
<1>1. /\ ValidNodeId(nodes, i) /\ column.kind \in ValueKind /\ nodes' = nodes
      /\ column' = setProperty(column, i, l) /\ Write(i, l)
  BY DEF NodeSetPropertyFromJson
<1>2. CASE Untouched(column, l)
  <2>1. column' = column
    BY <1>1, <1>2, ValidSlot, NodesParts, JsonFitsIn
  <2>2. written' = written /\ late' = late
    BY <1>1, <1>2 DEF Write, NodesHold
  <2> QED  BY <1>1, <2>1, <2>2 DEF NodesHold
<1>3. CASE ~Untouched(column, l)
  <2>1. written' = [written EXCEPT ![i] = JsonLeaves(column, l)] /\ late' = late \ {i}
    BY <1>1, <1>3 DEF Write
  <2>2. Rewrites(column, column', Len(nodes.keys), nodes.deletedIds, late, i, JsonLeaves(column, l))
    BY <1>1, <1>3, ValidSlot, NodesParts, JsonFitsIn
  <2> QED  BY <1>1, <2>1, <2>2, ValidSlot, NodesParts, JsonLeavesStored, NodesRewritten
<1> QED  BY <1>2, <1>3

\* NodeDeleteProperty.
LEMMA NodeDeletePropertyHolds ==
    ASSUME NodesHold, NEW i \in Slot, NodeDeleteProperty(i)
    PROVE  NodesHold'
<1>1. /\ ValidNodeId(nodes, i) /\ nodes' = nodes /\ column' = deleteProperty(column, i)
      /\ written' = [written EXCEPT ![i] = NoValue]
  BY DEF NodeDeleteProperty
<1>2. late' = late \ {i}
  BY NodesParts DEF NodeDeleteProperty, ColumnFits
<1>3. Rewrites(column, column', Len(nodes.keys), nodes.deletedIds, late, i, NoValue)
  BY <1>1, ValidSlot, NodesParts, DeleteFits
<1> QED  BY <1>1, <1>2, <1>3, ValidSlot, NodesParts, NodesRewritten

\* NodeResetPropertiesFromJson.
LEMMA NodeResetPropertiesHolds ==
    ASSUME NodesHold, NEW i \in Slot, NEW l \in Literal \cup {NoValue}, NodeResetPropertiesFromJson(i, l)
    PROVE  NodesHold'
<1>1. /\ ValidNodeId(nodes, i) /\ nodes' = nodes
      /\ column' = setPropertiesFromJSON(deleteProperty(column, i), i, l)
      /\ written' = [written EXCEPT ![i] = JsonLeaves(column, l)] /\ late' = late \ {i}
  BY DEF NodeResetPropertiesFromJson
<1>2. Rewrites(column, column', Len(nodes.keys), nodes.deletedIds, late, i, JsonLeaves(column, l))
  BY <1>1, ValidSlot, NodesParts, FromJsonRewrites
<1> QED  BY <1>1, <1>2, ValidSlot, NodesParts, JsonLeavesStored, NodesRewritten

\* Inserting and deleting the type of the property.
LEMMA NodePropertyTypeHolds ==
    ASSUME NodesHold,
           (\E kind \in ValueKind \cup {"unknown"} : NodePropertyTypeInsert(kind)) \/ NodePropertyTypeDelete
    PROVE  NodesHold'
<1>1. ASSUME NEW kind \in ValueKind \cup {"unknown"}, NodePropertyTypeInsert(kind)
      PROVE  NodesHold'
  <2>1. /\ column' = setPropertyType(column, kind) /\ nodes' = nodes /\ written' = written
        /\ late' = IF column.kind = "none" THEN 0 .. Len(nodes.keys) - 1 ELSE late
    BY <1>1 DEF NodePropertyTypeInsert, SlotsOf
  <2>2. ColumnHolds(column', Len(nodes.keys), nodes.deletedIds, written, late')
    BY <2>1, NodesParts, TypeInsertHolds
  <2> QED  BY <2>1, <2>2 DEF NodesHold
<1>2. ASSUME NodePropertyTypeDelete PROVE NodesHold'
  <2>1. column' = NoColumn /\ nodes' = nodes /\ written' = [j \in Slot |-> NoValue] /\ late' = {}
    BY <1>2 DEF NodePropertyTypeDelete, removePropertyType
  <2>2. \A j \in 0 .. Len(nodes.keys) - 1 : written'[j] = NoValue
    BY <2>1, NodesParts
  <2>3. ColumnHolds(column', Len(nodes.keys), nodes.deletedIds, written', late')
    BY <2>1, <2>2, NodesParts, NoColumnHolds
  <2>4. written' \in [Slot -> Stored \cup {NoValue}]
    BY <2>1
  <2> QED  BY <2>1, <2>3, <2>4 DEF NodesHold
<1> QED  BY <1>1, <1>2

\* No node and no column yet.
LEMMA NodesInit == Init => NodesHold
<1> SUFFICES ASSUME Init PROVE NodesHold
  OBVIOUS
<1>1. nodes = EmptyNodeType /\ column = NoColumn /\ written = [i \in Slot |-> NoValue] /\ late = {}
  BY DEF Init
<1>2. Len(nodes.keys) = 0
  BY <1>1 DEF EmptyNodeType
<1>3. ColumnHolds(column, Len(nodes.keys), nodes.deletedIds, written, late)
  <2>1. \A i \in 0 .. 0 - 1 : written[i] = NoValue
    OBVIOUS
  <2> QED  BY <1>1, <1>2, <2>1, NoColumnHolds
<1> QED  BY <1>1, <1>3, EmptyWellFormed DEF NodesHold

\* Every handler of the nodes keeps their part.
LEMMA NodesNext ==
    ASSUME NodesHold, Next
    PROVE  NodesHold'
BY NodeAddHolds, RemoveNodeHolds, NodeSetPropertyHolds, NodeSetPropertyFromJsonHolds,
   NodeDeletePropertyHolds, NodeResetPropertiesHolds, NodePropertyTypeHolds DEF Next

\* What is read of a node is what was last written to it.
LEMMA NodesRead == NodesHold => ReadsWhatWasWritten
<1> SUFFICES ASSUME NodesHold PROVE ReadsWhatWasWritten
  OBVIOUS
<1>1. ASSUME NEW i \in LiveSlots(nodes)
      PROVE  \/ getProperties(column, i) = written[i]
             \/ i \in late /\ i \notin column.gone /\ getProperties(column, i) = Default
  <2>1. /\ Len(nodes.keys) \in Nat /\ i \in (0 .. Len(nodes.keys) - 1) \ nodes.deletedIds
        /\ ColumnHolds(column, Len(nodes.keys), nodes.deletedIds, written, late)
    BY NodesParts
  <2> QED  BY <2>1, ReadsHold
<1> QED  BY <1>1, SingleRead DEF ReadsWhatWasWritten, IsLastWrite

\* What findCount of nodes and of relationships answers when every slot has the value written to it.
CountsAre(c, n, t, w) ==
    /\ \A op, l : l.kind = c.kind => countMatches(t, c, op, l) =
          Cardinality({i \in InUse(n, t.deletedIds) : w[i] # NoValue /\ Holds(c.kind, op, w[i], l.value)})
    /\ Unsigned(Cardinality(c.gone) - Cardinality(t.deletedIds)) = Cardinality(Lacking(n, t.deletedIds, w))
    /\ Unsigned(Cardinality(InUse(n, t.deletedIds)) - (Cardinality(c.gone) - Cardinality(t.deletedIds)))
          = Cardinality(InUse(n, t.deletedIds) \ Lacking(n, t.deletedIds, w))
    /\ Unsigned(n - (Cardinality(c.gone) - Cardinality(t.deletedIds)))
          = Cardinality((0 .. n - 1) \ Lacking(n, t.deletedIds, w))

\* What findCount computes, as a word, is what there is to find.
LEMMA FindCountsHold ==
    ASSUME NEW c, NEW n \in Nat, n < Word, NEW t, NEW w, ColumnHolds(c, n, t.deletedIds, w, {}),
           c.kind \in ValueKind, t.deletedIds \subseteq 0 .. n - 1
    PROVE  CountsAre(c, n, t, w)
<1>1. ASSUME NEW op, NEW l, l.kind = c.kind
      PROVE  countMatches(t, c, op, l) =
                 Cardinality({i \in InUse(n, t.deletedIds) : w[i] # NoValue /\ Holds(c.kind, op, w[i], l.value)})
  <2>1. MatchingSlots(t, c, op, l)
            = {i \in InUse(n, t.deletedIds) : w[i] # NoValue /\ Holds(c.kind, op, w[i], l.value)}
    BY ScanHolds DEF InUse
  <2> QED  BY <1>1, <2>1 DEF countMatches
<1> DEFINE none  == Cardinality(Lacking(n, t.deletedIds, w))
           there == Cardinality(InUse(n, t.deletedIds))
<1>2. /\ none \in Nat /\ there \in Nat /\ none <= there /\ there <= n
      /\ Cardinality(c.gone) - Cardinality(t.deletedIds) = none
      /\ Cardinality(InUse(n, t.deletedIds) \ Lacking(n, t.deletedIds, w)) = there - none
      /\ Cardinality((0 .. n - 1) \ Lacking(n, t.deletedIds, w)) = n - none
  <2>1. Tallies(c, n, t, w)
    BY CountsHold
  <2> QED  BY <2>1 DEF Tallies
<1> HIDE DEF none, there
<1>3. /\ none \in Nat /\ none < Word
      /\ there - none \in Nat /\ there - none < Word
      /\ n - none \in Nat /\ n - none < Word
  BY <1>2, NodeTypesAssumption
<1>4. Unsigned(none) = none
  BY <1>3, UnsignedIs
<1>5. Unsigned(there - none) = there - none
  BY <1>3, UnsignedIs
<1>6. Unsigned(n - none) = n - none
  BY <1>3, UnsignedIs
<1> QED  BY <1>1, <1>2, <1>4, <1>5, <1>6 DEF none, there, CountsAre

\* NodeTypes::findCount counts the nodes there are to find.
LEMMA NodesCount == NodesHold => CountExact
<1> SUFFICES ASSUME NodesHold, late = {}, column.kind \in ValueKind PROVE CountExact
  BY DEF CountExact
<1> DEFINE n == Len(nodes.keys)
<1>1. /\ n \in Nat /\ n < Word /\ nodes.deletedIds \subseteq 0 .. n - 1
      /\ LiveSlots(nodes) = InUse(n, nodes.deletedIds)
      /\ ColumnHolds(column, n, nodes.deletedIds, written, {})
  BY NodesParts, NodeTypesAssumption DEF InUse
<1>2. MapSize(nodes) = Cardinality(LiveSlots(nodes))
  BY MapSizeIsLiveSlots DEF NodesHold
<1> HIDE DEF n
<1>3. CountsAre(column, n, nodes, written)
  BY <1>1, FindCountsHold
<1>4. ASSUME NEW op \in Operation, NEW v \in Asked
      PROVE  findCount(nodes, column, op, [kind |-> column.kind, value |-> v])
                 = Cardinality(Matches(op, [value |-> v]))
  <2>1. op # "IS_NULL" /\ op # "NOT_IS_NULL"
    BY DEF Operation, Comparison, TextTest
  <2>2. findCount(nodes, column, op, [kind |-> column.kind, value |-> v])
            = countMatches(nodes, column, op, [kind |-> column.kind, value |-> v])
    BY <2>1 DEF findCount
  <2>3. countMatches(nodes, column, op, [kind |-> column.kind, value |-> v])
            = Cardinality({i \in LiveSlots(nodes) : written[i] # NoValue /\ Holds(column.kind, op, written[i], v)})
    BY <1>1, <1>3 DEF CountsAre
  <2> QED  BY <2>2, <2>3 DEF Matches
<1> DEFINE nulls == {i \in LiveSlots(nodes) : written[i] = NoValue}
<1>5. nulls = Lacking(n, nodes.deletedIds, written)
  BY <1>1 DEF Lacking
<1> HIDE DEF nulls
<1>6. findCount(nodes, column, "IS_NULL", NoValue) = Cardinality(nulls)
  <2>1. findCount(nodes, column, "IS_NULL", NoValue)
            = Unsigned(Cardinality(column.gone) - Cardinality(nodes.deletedIds))
    BY DEF findCount
  <2> QED  BY <1>3, <1>5, <2>1 DEF CountsAre
<1>7. findCount(nodes, column, "NOT_IS_NULL", NoValue) = Cardinality(LiveSlots(nodes) \ nulls)
  <2>1. findCount(nodes, column, "NOT_IS_NULL", NoValue)
            = Unsigned(MapSize(nodes) - (Cardinality(column.gone) - Cardinality(nodes.deletedIds)))
    BY DEF findCount
  <2> QED  BY <1>1, <1>2, <1>3, <1>5, <2>1 DEF CountsAre
<1> QED  BY <1>4, <1>6, <1>7 DEF CountExact, nulls

-----------------------------------------------------------------------------
(* The relationships: the same columns over slots that are counted otherwise *)

\* The writers and readers of RelationshipTypes are those of NodeTypes.
LEMMA SameWriters ==
    /\ \A c, i, l : R!setRelationshipValue(c, i, l) = setProperty(c, i, l)
    /\ \A c, i, l : R!setRelationshipProperty(c, i, l) = setNodeProperty(c, i, l)
    /\ \A c, i, l : R!setRelationshipPropertiesFromJSON(c, i, l) = setPropertiesFromJSON(c, i, l)
    /\ \A c, i : R!deleteProperty(c, i) = deleteProperty(c, i)
    /\ \A c, kind : R!setPropertyType(c, kind) = setPropertyType(c, kind)
    /\ \A c, i : R!getProperties(c, i) = getProperties(c, i) /\ R!getProperty(c, i) = getProperty(c, i)
    /\ \A c, l : R!JsonLeaves(c, l) = JsonLeaves(c, l) /\ (R!Untouched(c, l) <=> Untouched(c, l))
    /\ R!ValueKind = ValueKind /\ R!Literal = Literal /\ R!NoColumn = NoColumn /\ R!Default = Default
<1>1. R!ListKind = ListKind /\ R!ValueKind = ValueKind
  BY DEF ListKind, ValueKind, R!ListKind, R!ValueKind
<1>2. R!Literal = Literal /\ R!NoColumn = NoColumn /\ R!Default = Default
  BY <1>1 DEF Literal, R!Literal, NoColumn, R!NoColumn, Default, R!Default
<1>3. \A c, l : (R!Throws(c, l) <=> Throws(c, l)) /\ (R!FallsThrough(c, l) <=> FallsThrough(c, l))
                /\ (R!JsonFits(c, l) <=> JsonFits(c, l)) /\ (R!Untouched(c, l) <=> Untouched(c, l))
  BY <1>1, <1>2 DEF Throws, R!Throws, FallsThrough, R!FallsThrough, JsonFits, R!JsonFits, Untouched, R!Untouched
<1>4. \A c, l : R!fromJson(c, l) = fromJson(c, l)
  BY <1>1, <1>2 DEF fromJson, R!fromJson, Twice, R!Twice
<1>5. \A c, i, v : R!setValue(c, i, v) = setValue(c, i, v)
  BY <1>2 DEF setValue, R!setValue, Padded, R!Padded, Max, R!Max
<1>6. \A c, i : R!deleteProperty(c, i) = deleteProperty(c, i)
  BY DEF deleteProperty, R!deleteProperty
<1>7. \A c, i, l : R!setProperty(c, i, l) = setProperty(c, i, l)
  BY <1>3, <1>4, <1>5, <1>6 DEF setProperty, R!setProperty
<1>8. \A c, i, l : R!setNodeProperty(c, i, l) = setNodeProperty(c, i, l)
  BY <1>5 DEF setNodeProperty, R!setNodeProperty, TypedFits, R!TypedFits
<1>9. \A c, i, l : R!setPropertiesFromJSON(c, i, l) = setPropertiesFromJSON(c, i, l)
  BY <1>1, <1>7 DEF setPropertiesFromJSON, R!setPropertiesFromJSON
<1>10. \A c, l : R!JsonLeaves(c, l) = JsonLeaves(c, l)
  BY <1>1, <1>3, <1>4 DEF JsonLeaves, R!JsonLeaves
<1>11. \A c, kind : R!setPropertyType(c, kind) = setPropertyType(c, kind)
  BY <1>1 DEF setPropertyType, R!setPropertyType
<1>12. \A c, i : R!getProperties(c, i) = getProperties(c, i)
  BY <1>1 DEF getProperties, R!getProperties, Covers, R!Covers
<1>13. \A c, i : R!getProperty(c, i) = getProperty(c, i)
  BY <1>1 DEF getProperty, R!getProperty, Covers, R!Covers
<1> QED  BY <1>1, <1>2, <1>3, <1>6, <1>7, <1>8, <1>9, <1>10, <1>11, <1>12, <1>13
         DEF R!setRelationshipValue, R!setRelationshipProperty, R!setRelationshipPropertiesFromJSON

\* The columns of a relationship type: the freed slots lie within the vectors, and the others have
\* two ends.
RelsTyped(r) ==
    /\ r \in R!RelationshipType
    /\ Len(r.ends) <= MaxRels
    /\ r.deletedIds \subseteq 0 .. Len(r.ends) - 1
    /\ \A j \in 0 .. Len(r.ends) - 1 : j \notin r.deletedIds => r.ends[j + 1] # R!NoEnds

RelsHold ==
    /\ RelsTyped(rels)
    /\ relWritten \in [R!RelSlot -> Stored \cup {NoValue}]
    /\ ColumnHolds(relColumn, Len(rels.ends), rels.deletedIds, relWritten, relLate)

\* The lengths and slots of a relationship type.
LEMMA RelsTypedParts ==
    ASSUME NEW r, RelsTyped(r)
    PROVE  /\ r.ends \in Seq(R!Ends) /\ Len(r.ends) \in Nat /\ Len(r.ends) <= MaxRels
           /\ r.deletedIds \subseteq 0 .. Len(r.ends) - 1
           /\ 0 .. Len(r.ends) - 1 \subseteq R!RelSlot /\ R!RelSlot \subseteq Nat
<1>1. r.ends \in Seq(R!Ends) /\ Len(r.ends) \in Nat
  BY DEF RelsTyped, R!RelationshipType
<1> QED  BY <1>1, RelationshipsAssumption DEF RelsTyped, R!RelSlot

\* What the relationships' part of the invariant gives the handlers.
LEMMA RelsParts ==
    ASSUME RelsHold
    PROVE  /\ Len(rels.ends) \in Nat /\ Len(rels.ends) <= MaxRels
           /\ rels.deletedIds \subseteq 0 .. Len(rels.ends) - 1
           /\ 0 .. Len(rels.ends) - 1 \subseteq R!RelSlot /\ R!RelSlot \subseteq Nat
           /\ R!LiveRels(rels) = InUse(Len(rels.ends), rels.deletedIds)
           /\ ColumnHolds(relColumn, Len(rels.ends), rels.deletedIds, relWritten, relLate)
           /\ ColumnFits(relColumn, Len(rels.ends), rels.deletedIds, relLate)
<1>1. /\ Len(rels.ends) \in Nat /\ Len(rels.ends) <= MaxRels
      /\ rels.deletedIds \subseteq 0 .. Len(rels.ends) - 1
      /\ 0 .. Len(rels.ends) - 1 \subseteq R!RelSlot /\ R!RelSlot \subseteq Nat
  BY RelsTypedParts DEF RelsHold
<1>2. R!LiveRels(rels) = InUse(Len(rels.ends), rels.deletedIds)
  BY <1>1 DEF R!LiveRels, R!RelSlotsOf, R!ValidRelationshipId, InUse
<1> QED  BY <1>1, <1>2 DEF RelsHold, ColumnHolds

\* A handler that writes a slot of a relationship, of those there were or a new one.
LEMMA RelsRewritten ==
    ASSUME RelsHold, RelsTyped(rels'), NEW i, NEW x \in Stored \cup {NoValue},
           SlotsFor(Len(rels.ends), rels.deletedIds, Len(rels'.ends), rels'.deletedIds, i),
           Rewrites(relColumn, relColumn', Len(rels'.ends), rels'.deletedIds, relLate, i, x),
           relWritten' = [relWritten EXCEPT ![i] = x], relLate' = relLate \ {i}
    PROVE  RelsHold'
<1>1. 0 .. Len(rels'.ends) - 1 \subseteq R!RelSlot
  BY RelsTypedParts
<1>2. DOMAIN relWritten = R!RelSlot /\ i \in R!RelSlot
  BY <1>1 DEF RelsHold, SlotsFor
<1>3. ColumnHolds(relColumn', Len(rels'.ends), rels'.deletedIds, relWritten', relLate')
  <2>1. Len(rels.ends) \in Nat /\ ColumnHolds(relColumn, Len(rels.ends), rels.deletedIds, relWritten, relLate)
    BY RelsParts
  <2> QED  BY <1>1, <1>2, <2>1, RewriteHolds
<1>4. relWritten' \in [R!RelSlot -> Stored \cup {NoValue}]
  BY <1>2 DEF RelsHold
<1> QED  BY <1>3, <1>4 DEF RelsHold

\* The library's Cardinality, reached through the instance.
LEMMA SameCardinality == \A S : R!Cardinality(S) = Cardinality(S)
BY DEF R!Cardinality, Cardinality

\* A slot is taken: the smallest freed one, or the one at the end.
LEMMA RelationshipAddDoes ==
    ASSUME NEW r, RelsTyped(r), R!HasRelRoom(r), NEW from \in NodeRef, NEW to \in NodeRef
    PROVE  LET u == R!RelationshipAdd(r, from, to)
           IN  /\ RelsTyped(u) /\ R!NextRel(r) \notin u.deletedIds
               /\ SlotsFor(Len(r.ends), r.deletedIds, Len(u.ends), u.deletedIds, R!NextRel(r))
<1> DEFINE i    == R!NextRel(r)
           pair == [from |-> from, to |-> to]
           u    == R!RelationshipAdd(r, from, to)
<1>1. /\ r.ends \in Seq(R!Ends) /\ Len(r.ends) \in Nat /\ Len(r.ends) <= MaxRels
      /\ r.deletedIds \subseteq 0 .. Len(r.ends) - 1
      /\ 0 .. Len(r.ends) - 1 \subseteq R!RelSlot /\ R!RelSlot \subseteq Nat
  BY RelsTypedParts
<1>2. pair \in R!Ends /\ pair # R!NoEnds
  BY RelationshipsAssumption DEF R!Ends, R!NoEnds
<1>9. \A j \in 0 .. Len(r.ends) - 1 : j \notin r.deletedIds => r.ends[j + 1] # R!NoEnds
  BY DEF RelsTyped
<1>3. u = [ends       |-> IF r.deletedIds # {} THEN [r.ends EXCEPT ![i + 1] = pair] ELSE Append(r.ends, pair),
           deletedIds |-> r.deletedIds \ {i}]
  BY DEF R!RelationshipAdd
<1> HIDE DEF u, pair
<1>4. CASE r.deletedIds # {}
  <2>1. i \in r.deletedIds
    <3>1. i = Min(r.deletedIds)
      BY <1>4 DEF R!NextRel, R!Min, Min
    <3> HIDE DEF i
    <3> QED  BY <1>1, <1>4, <3>1, MinIsElement
  <2> HIDE DEF i
  <2>2. i \in 0 .. Len(r.ends) - 1 /\ i + 1 \in 1 .. Len(r.ends)
    BY <1>1, <2>1
  <2>3. u.ends = [r.ends EXCEPT ![i + 1] = pair] /\ u.deletedIds = r.deletedIds \ {i}
    BY <1>3, <1>4
  <2>4. u.ends \in Seq(R!Ends) /\ Len(u.ends) = Len(r.ends)
    BY <1>1, <1>2, <2>2, <2>3
  <2>5. RelsTyped(u)
    <3>1. \A j \in 0 .. Len(u.ends) - 1 : j \notin u.deletedIds => u.ends[j + 1] # R!NoEnds
      BY <1>1, <1>2, <1>9, <2>2, <2>3, <2>4
    <3> QED  BY <1>1, <1>3, <2>3, <2>4, <3>1 DEF RelsTyped, R!RelationshipType
  <2>6. SlotsFor(Len(r.ends), r.deletedIds, Len(u.ends), u.deletedIds, i)
    BY <1>1, <2>2, <2>3, <2>4 DEF SlotsFor
  <2> QED  BY <2>3, <2>5, <2>6 DEF i, u
<1>5. CASE r.deletedIds = {}
  <2>1. i = Len(r.ends) /\ Len(r.ends) < MaxRels
    <3>1. i = Len(r.ends) - Cardinality({})
      BY <1>5, SameCardinality DEF R!NextRel, R!RelCount
    <3> HIDE DEF i
    <3>2. Cardinality({}) = 0
      BY FS_EmptySet
    <3> QED  BY <1>1, <1>5, <3>1, <3>2 DEF R!HasRelRoom
  <2> HIDE DEF i
  <2>2. u.ends = Append(r.ends, pair) /\ u.deletedIds = {}
    BY <1>3, <1>5
  <2>3. u.ends \in Seq(R!Ends) /\ Len(u.ends) = Len(r.ends) + 1
    BY <1>1, <1>2, <2>2
  <2>4. RelsTyped(u)
    <3>1. \A j \in 0 .. Len(u.ends) - 1 : j \notin u.deletedIds => u.ends[j + 1] # R!NoEnds
      <4> SUFFICES ASSUME NEW j \in 0 .. Len(u.ends) - 1 PROVE u.ends[j + 1] # R!NoEnds
        OBVIOUS
      <4>1. CASE j = Len(r.ends)
        BY <1>1, <1>2, <2>2, <4>1
      <4>2. CASE j # Len(r.ends)
        <5>1. j \in 0 .. Len(r.ends) - 1 /\ u.ends[j + 1] = r.ends[j + 1]
          BY <1>1, <2>2, <2>3, <4>2
        <5> QED  BY <1>5, <1>9, <5>1
      <4> QED  BY <4>1, <4>2
    <3> QED  BY <1>1, <1>3, <2>1, <2>2, <2>3, <3>1, RelationshipsAssumption DEF RelsTyped, R!RelationshipType
  <2>5. SlotsFor(Len(r.ends), r.deletedIds, Len(u.ends), u.deletedIds, i)
    BY <1>1, <1>5, <2>1, <2>2, <2>3 DEF SlotsFor
  <2> QED  BY <2>2, <2>4, <2>5 DEF i, u
<1> QED  BY <1>4, <1>5

\* A slot is freed: the vectors keep their length.
LEMMA RelationshipFreeDoes ==
    ASSUME NEW r, RelsTyped(r), NEW i \in 0 .. Len(r.ends) - 1
    PROVE  LET u == R!RelationshipFree(r, {i})
           IN  /\ RelsTyped(u)
               /\ SlotsFor(Len(r.ends), r.deletedIds, Len(u.ends), u.deletedIds, i)
<1> DEFINE u == R!RelationshipFree(r, {i})
           N == R!Max({Len(r.ends)} \cup {j + 1 : j \in {i}})
<1>1. /\ r.ends \in Seq(R!Ends) /\ Len(r.ends) \in Nat /\ Len(r.ends) <= MaxRels
      /\ r.deletedIds \subseteq 0 .. Len(r.ends) - 1
      /\ 0 .. Len(r.ends) - 1 \subseteq R!RelSlot /\ R!RelSlot \subseteq Nat
  BY RelsTypedParts
<1>2. N = Len(r.ends)
  <2>1. {Len(r.ends)} \cup {j + 1 : j \in {i}} = {Len(r.ends), i + 1}
    OBVIOUS
  <2>2. N = Max({Len(r.ends), i + 1})
    BY <2>1 DEF R!Max, Max
  <2>3. i + 1 \in Nat /\ Len(r.ends) >= i + 1
    BY <1>1
  <2> HIDE DEF N
  <2> QED  BY <1>1, <2>2, <2>3, MaxOfTwo
<1> DEFINE x == [j \in 1 .. N |-> IF j <= Len(r.ends) /\ j - 1 \notin {i} THEN r.ends[j] ELSE R!NoEnds]
<1>3. u = [ends |-> x, deletedIds |-> r.deletedIds \cup {i}]
  BY DEF R!RelationshipFree
<1> HIDE DEF u, N
<1>4. x \in [1 .. Len(r.ends) -> R!Ends]
  <2>1. R!NoEnds \in R!Ends
    BY DEF R!NoEnds, R!Ends
  <2>2. \A j \in 1 .. Len(r.ends) : r.ends[j] \in R!Ends
    BY <1>1
  <2> QED  BY <1>2, <2>1, <2>2
<1> HIDE DEF x
<1>5. u.ends \in Seq(R!Ends) /\ Len(u.ends) = Len(r.ends) /\ u.deletedIds = r.deletedIds \cup {i}
  BY <1>1, <1>3, <1>4
<1>6. RelsTyped(u)
  <2>1. \A j \in 0 .. Len(u.ends) - 1 : j \notin u.deletedIds => u.ends[j + 1] # R!NoEnds
    <3> SUFFICES ASSUME NEW j \in 0 .. Len(u.ends) - 1, j \notin u.deletedIds PROVE u.ends[j + 1] # R!NoEnds
      OBVIOUS
    <3>1. j \in 0 .. Len(r.ends) - 1 /\ j + 1 \in 1 .. Len(r.ends) /\ j # i /\ j \notin r.deletedIds
      BY <1>1, <1>3, <1>5
    <3>2. (j + 1) - 1 = j
      BY <3>1
    <3>3. u.ends[j + 1] = r.ends[j + 1]
      BY <1>2, <1>3, <3>1, <3>2 DEF x
    <3> QED  BY <3>1, <3>3 DEF RelsTyped
  <2> QED  BY <1>1, <1>3, <1>5, <2>1 DEF RelsTyped, R!RelationshipType
<1>7. SlotsFor(Len(r.ends), r.deletedIds, Len(u.ends), u.deletedIds, i)
  BY <1>1, <1>5 DEF SlotsFor
<1> QED  BY <1>6, <1>7 DEF u

\* Adding a relationship takes a slot, deletes its property and sets what the request names.
LEMMA RelationshipAddHolds ==
    ASSUME RelsHold, NEW from \in NodeRef, NEW to \in NodeRef, NEW l \in Literal \cup {NoValue},
           R!RelationshipAddWithProperties(from, to, l)
    PROVE  RelsHold'
<1> DEFINE i == R!NextRel(rels)
           u == R!RelationshipAdd(rels, from, to)
<1>1. /\ R!HasRelRoom(rels) /\ rels' = u
      /\ relColumn' = setPropertiesFromJSON(deleteProperty(relColumn, i), i, l)
      /\ relWritten' = [relWritten EXCEPT ![i] = JsonLeaves(relColumn, l)] /\ relLate' = relLate \ {i}
  BY SameWriters DEF R!RelationshipAddWithProperties
<1>2. /\ RelsTyped(u) /\ i \notin u.deletedIds
      /\ SlotsFor(Len(rels.ends), rels.deletedIds, Len(u.ends), u.deletedIds, i)
  BY <1>1, RelationshipAddDoes DEF RelsHold
<1> HIDE DEF i, u
<1>3. Rewrites(relColumn, relColumn', Len(u.ends), u.deletedIds, relLate, i, JsonLeaves(relColumn, l))
  <2>1. Len(u.ends) \in Nat
    BY <1>2, RelsTypedParts
  <2> QED  BY <1>1, <1>2, <2>1, RelsParts, FromJsonRewrites
<1> QED  BY <1>1, <1>2, <1>3, JsonLeavesStored, RelsRewritten

\* What the handlers that ValidRelationshipId lets through may rely on.
LEMMA ValidRelSlot ==
    ASSUME RelsHold, NEW i \in R!RelSlot, R!ValidRelationshipId(rels, i)
    PROVE  /\ i \in 0 .. Len(rels.ends) - 1 /\ i \notin rels.deletedIds
           /\ SlotsFor(Len(rels.ends), rels.deletedIds, Len(rels.ends), rels.deletedIds, i)
BY RelsParts DEF R!ValidRelationshipId, SlotsFor

\* Removing a relationship frees its slot and deletes its property.
LEMMA RemoveRelationshipHolds ==
    ASSUME RelsHold, NEW i \in R!RelSlot, R!RemoveRelationship(i)
    PROVE  RelsHold'
<1> DEFINE u == R!RelationshipFree(rels, {i})
<1>1. /\ R!ValidRelationshipId(rels, i) /\ rels' = u /\ relColumn' = deleteProperty(relColumn, i)
      /\ relWritten' = [relWritten EXCEPT ![i] = NoValue] /\ relLate' = relLate \ {i}
  BY SameWriters DEF R!RemoveRelationship
<1>2. /\ RelsTyped(u)
      /\ SlotsFor(Len(rels.ends), rels.deletedIds, Len(u.ends), u.deletedIds, i)
  BY <1>1, ValidRelSlot, RelationshipFreeDoes DEF RelsHold
<1> HIDE DEF u
<1>3. Rewrites(relColumn, relColumn', Len(u.ends), u.deletedIds, relLate, i, NoValue)
  BY <1>1, <1>2, RelsParts, DeleteFits
<1> QED  BY <1>1, <1>2, <1>3, RelsRewritten

\* RelationshipSetProperty, whose value has the type of the property.
LEMMA RelationshipSetPropertyHolds ==
    ASSUME RelsHold, NEW i \in R!RelSlot, NEW l \in Literal, R!RelationshipSetProperty(i, l)
    PROVE  RelsHold'
<1>1. /\ R!ValidRelationshipId(rels, i) /\ relColumn.kind \in ValueKind /\ rels' = rels
      /\ relColumn' = setValue(relColumn, i, l.value)
      /\ relWritten' = [relWritten EXCEPT ![i] = l.value] /\ relLate' = relLate \ {i}
  BY SameWriters DEF R!RelationshipSetProperty, R!TypedFits, TypedFits, setNodeProperty, Literal
<1>2. l.value \in Stored
  BY FromJsonStored
<1>3. Rewrites(relColumn, relColumn', Len(rels.ends), rels.deletedIds, relLate, i, l.value)
  BY <1>1, <1>2, ValidRelSlot, RelsParts, SetFits
<1>4. RelsTyped(rels')
  BY <1>1 DEF RelsHold
<1> QED  BY <1>1, <1>2, <1>3, <1>4, ValidRelSlot, RelsRewritten

\* RelationshipSetPropertyFromJson, which may leave the property untouched.
LEMMA RelationshipSetFromJsonHolds ==
    ASSUME RelsHold, NEW i \in R!RelSlot, NEW l \in Literal, R!RelationshipSetPropertyFromJson(i, l)
    PROVE  RelsHold'
<1>1. /\ R!ValidRelationshipId(rels, i) /\ relColumn.kind \in ValueKind /\ rels' = rels
      /\ relColumn' = setProperty(relColumn, i, l)
      /\ relWritten' = [relWritten EXCEPT ![i] = IF Untouched(relColumn, l) THEN @ ELSE JsonLeaves(relColumn, l)]
      /\ relLate' = IF Untouched(relColumn, l) THEN relLate ELSE relLate \ {i}
  BY SameWriters DEF R!RelationshipSetPropertyFromJson, R!Write
<1>2. CASE Untouched(relColumn, l)
  <2>1. relColumn' = relColumn
    BY <1>1, <1>2, ValidRelSlot, RelsParts, JsonFitsIn
  <2>2. relWritten' = relWritten /\ relLate' = relLate
    BY <1>1, <1>2 DEF RelsHold
  <2> QED  BY <1>1, <2>1, <2>2 DEF RelsHold
<1>3. CASE ~Untouched(relColumn, l)
  <2>1. relWritten' = [relWritten EXCEPT ![i] = JsonLeaves(relColumn, l)] /\ relLate' = relLate \ {i}
    BY <1>1, <1>3
  <2>2. Rewrites(relColumn, relColumn', Len(rels.ends), rels.deletedIds, relLate, i, JsonLeaves(relColumn, l))
    BY <1>1, <1>3, ValidRelSlot, RelsParts, JsonFitsIn
  <2>3. RelsTyped(rels')
    BY <1>1 DEF RelsHold
  <2> QED  BY <1>1, <2>1, <2>2, <2>3, ValidRelSlot, JsonLeavesStored, RelsRewritten
<1> QED  BY <1>2, <1>3

\* RelationshipDeleteProperty.
LEMMA RelationshipDeletePropertyHolds ==
    ASSUME RelsHold, NEW i \in R!RelSlot, R!RelationshipDeleteProperty(i)
    PROVE  RelsHold'
<1>1. /\ R!ValidRelationshipId(rels, i) /\ rels' = rels /\ relColumn' = deleteProperty(relColumn, i)
      /\ relWritten' = [relWritten EXCEPT ![i] = NoValue]
  BY SameWriters DEF R!RelationshipDeleteProperty
<1>2. relLate' = relLate \ {i}
  BY RelsParts DEF R!RelationshipDeleteProperty, ColumnFits
<1>3. Rewrites(relColumn, relColumn', Len(rels.ends), rels.deletedIds, relLate, i, NoValue)
  BY <1>1, ValidRelSlot, RelsParts, DeleteFits
<1>4. RelsTyped(rels')
  BY <1>1 DEF RelsHold
<1> QED  BY <1>1, <1>2, <1>3, <1>4, ValidRelSlot, RelsRewritten

\* RelationshipResetPropertiesFromJson.
LEMMA RelationshipResetPropertiesHolds ==
    ASSUME RelsHold, NEW i \in R!RelSlot, NEW l \in Literal \cup {NoValue},
           R!RelationshipResetPropertiesFromJson(i, l)
    PROVE  RelsHold'
<1>1. /\ R!ValidRelationshipId(rels, i) /\ rels' = rels
      /\ relColumn' = setPropertiesFromJSON(deleteProperty(relColumn, i), i, l)
      /\ relWritten' = [relWritten EXCEPT ![i] = JsonLeaves(relColumn, l)] /\ relLate' = relLate \ {i}
  BY SameWriters DEF R!RelationshipResetPropertiesFromJson
<1>2. Rewrites(relColumn, relColumn', Len(rels.ends), rels.deletedIds, relLate, i, JsonLeaves(relColumn, l))
  BY <1>1, ValidRelSlot, RelsParts, FromJsonRewrites
<1>3. RelsTyped(rels')
  BY <1>1 DEF RelsHold
<1> QED  BY <1>1, <1>2, <1>3, ValidRelSlot, JsonLeavesStored, RelsRewritten

\* Inserting and deleting the type of the property.
LEMMA RelationshipPropertyTypeHolds ==
    ASSUME RelsHold,
           \/ \E kind \in ValueKind \cup {"unknown"} : R!RelationshipPropertyTypeInsert(kind)
           \/ R!RelationshipPropertyTypeDelete
    PROVE  RelsHold'
<1>1. ASSUME NEW kind \in ValueKind \cup {"unknown"}, R!RelationshipPropertyTypeInsert(kind)
      PROVE  RelsHold'
  <2>1. /\ relColumn' = setPropertyType(relColumn, kind) /\ rels' = rels /\ relWritten' = relWritten
        /\ relLate' = IF relColumn.kind = "none" THEN 0 .. Len(rels.ends) - 1 ELSE relLate
    BY <1>1, SameWriters DEF R!RelationshipPropertyTypeInsert, R!RelSlotsOf
  <2>2. ColumnHolds(relColumn', Len(rels.ends), rels.deletedIds, relWritten, relLate')
    BY <2>1, RelsParts, TypeInsertHolds
  <2> QED  BY <2>1, <2>2 DEF RelsHold
<1>2. ASSUME R!RelationshipPropertyTypeDelete PROVE RelsHold'
  <2>1. relColumn' = NoColumn /\ rels' = rels /\ relWritten' = [j \in R!RelSlot |-> NoValue] /\ relLate' = {}
    BY <1>2, SameWriters DEF R!RelationshipPropertyTypeDelete, R!removePropertyType
  <2>2. \A j \in 0 .. Len(rels.ends) - 1 : relWritten'[j] = NoValue
    BY <2>1, RelsParts
  <2>3. ColumnHolds(relColumn', Len(rels.ends), rels.deletedIds, relWritten', relLate')
    BY <2>1, <2>2, RelsParts, NoColumnHolds
  <2>4. relWritten' \in [R!RelSlot -> Stored \cup {NoValue}]
    BY <2>1
  <2> QED  BY <2>1, <2>3, <2>4 DEF RelsHold
<1> QED  BY <1>1, <1>2

\* No relationship and no column yet.
LEMMA RelsInit == R!Init => RelsHold
<1> SUFFICES ASSUME R!Init PROVE RelsHold
  OBVIOUS
<1>1. /\ rels = [ends |-> <<>>, deletedIds |-> {}] /\ relColumn = NoColumn
      /\ relWritten = [i \in R!RelSlot |-> NoValue] /\ relLate = {}
  BY SameWriters DEF R!Init, R!EmptyRelationshipType
<1>2. rels.ends = <<>> /\ rels.deletedIds = {} /\ Len(rels.ends) = 0 /\ rels.ends \in Seq(R!Ends)
  BY <1>1
<1>3. RelsTyped(rels)
  BY <1>1, <1>2, RelationshipsAssumption DEF RelsTyped, R!RelationshipType
<1>4. ColumnHolds(relColumn, Len(rels.ends), rels.deletedIds, relWritten, relLate)
  <2>1. \A i \in 0 .. 0 - 1 : relWritten[i] = NoValue
    OBVIOUS
  <2> QED  BY <1>1, <1>2, <2>1, NoColumnHolds
<1> QED  BY <1>1, <1>3, <1>4 DEF RelsHold

\* Every handler of the relationships keeps their part.
LEMMA RelsNext ==
    ASSUME RelsHold, R!Next
    PROVE  RelsHold'
<1>1. R!Literal = Literal /\ R!ValueKind = ValueKind
  BY SameWriters
<1> QED  BY <1>1, RelationshipAddHolds, RemoveRelationshipHolds, RelationshipSetPropertyHolds,
            RelationshipSetFromJsonHolds, RelationshipDeletePropertyHolds,
            RelationshipResetPropertiesHolds, RelationshipPropertyTypeHolds DEF R!Next

\* What is read of a relationship is what was last written to it.
LEMMA RelsRead == RelsHold => R!ReadsWhatWasWritten
<1> SUFFICES ASSUME RelsHold PROVE R!ReadsWhatWasWritten
  OBVIOUS
<1>1. ASSUME NEW i \in R!LiveRels(rels)
      PROVE  /\ R!IsLastWrite(i, getProperties(relColumn, i))
             /\ R!RelationshipGet([rels |-> rels, column |-> relColumn], i).value = getProperties(relColumn, i)
             /\ R!getRelationshipProperty(rels, relColumn, i) = getProperty(relColumn, i)
  <2>1. /\ Len(rels.ends) \in Nat /\ i \in (0 .. Len(rels.ends) - 1) \ rels.deletedIds
        /\ ColumnHolds(relColumn, Len(rels.ends), rels.deletedIds, relWritten, relLate)
    BY RelsParts DEF InUse
  <2>2. R!ValidRelationshipId(rels, i)
    BY DEF R!LiveRels
  <2>3. R!getRelationshipProperty(rels, relColumn, i) = getProperty(relColumn, i) /\ R!Default = Default
    BY <2>2, SameWriters DEF R!getRelationshipProperty
  <2>4. R!RelationshipGet([rels |-> rels, column |-> relColumn], i).value = getProperties(relColumn, i)
    BY <2>2, SameWriters DEF R!RelationshipGet, R!getRelationship
  <2>5. \/ getProperties(relColumn, i) = relWritten[i]
        \/ i \in relLate /\ i \notin relColumn.gone /\ getProperties(relColumn, i) = Default
    BY <2>1, ReadsHold
  <2> QED  BY <2>3, <2>4, <2>5 DEF R!IsLastWrite
<1>2. ASSUME NEW i \in R!LiveRels(rels)
      PROVE  /\ R!IsLastWrite(i, R!RelationshipGet([rels |-> rels, column |-> relColumn], i).value)
             /\ IF relColumn.kind = "integer_list"
                THEN R!getRelationshipProperty(rels, relColumn, i) = NoValue
                ELSE R!IsLastWrite(i, R!getRelationshipProperty(rels, relColumn, i))
  <2>1. getProperty(relColumn, i) = IF relColumn.kind = "integer_list" THEN NoValue ELSE getProperties(relColumn, i)
    BY SingleRead
  <2>2. CASE relColumn.kind = "integer_list"
    BY <1>1, <2>1, <2>2
  <2>3. CASE relColumn.kind # "integer_list"
    BY <1>1, <2>1, <2>3
  <2> QED  BY <2>2, <2>3
<1> QED  BY <1>2 DEF R!ReadsWhatWasWritten

\* Relationships are matched and counted as nodes are.
LEMMA SameCounts ==
    /\ \A t, c, op, l : R!countMatches(t, c, op, l) = countMatches(t, c, op, l)
    /\ \A kind, op, x, y : R!Holds(kind, op, x, y) = Holds(kind, op, x, y)
    /\ \A m : R!Unsigned(m) = Unsigned(m)
<1>1. R!ListKind = ListKind /\ R!TextTest = TextTest
  BY SameWriters DEF R!ListKind, ListKind, R!TextTest, TextTest
<1>2. \A op, x, y : R!Evaluate(op, x, y) = Evaluate(op, x, y)
  BY DEF R!Evaluate, Evaluate
<1>3. \A op, x, y : R!Tested(op, x, y) = Tested(op, x, y)
  BY DEF R!Tested, Tested, R!Within, Within, R!Twice, Twice, R!Default, Default
<1>4. \A v : R!Length(v) = Length(v)
  BY DEF R!Length, Length, R!Default, Default
<1>5. \A op, x, y : R!EvaluateVector(op, x, y) = EvaluateVector(op, x, y)
  BY <1>1, <1>2, <1>3, <1>4 DEF R!EvaluateVector, EvaluateVector
<1>6. \A op, x, y : R!EvaluateString(op, x, y) = EvaluateString(op, x, y)
  BY <1>1, <1>2, <1>3 DEF R!EvaluateString, EvaluateString
<1>7. \A kind, op, x, y : R!Holds(kind, op, x, y) = Holds(kind, op, x, y)
  BY <1>1, <1>2, <1>5, <1>6 DEF R!Holds, Holds
<1>8. \A t, c, op, l : R!MatchingSlots(t, c, op, l) = MatchingSlots(t, c, op, l)
  BY <1>7 DEF R!MatchingSlots, MatchingSlots, R!getBlanks, getBlanks
<1>9. \A t, c, op, l : R!countMatches(t, c, op, l) = countMatches(t, c, op, l)
  BY <1>8, SameCardinality DEF R!countMatches, countMatches
<1>10. \A m : R!Unsigned(m) = Unsigned(m)
  BY DEF R!Unsigned, Unsigned
<1> QED  BY <1>7, <1>9, <1>10

\* RelationshipTypes::findCount counts the relationships there are to find.
LEMMA RelsCount == RelsHold => R!CountExact
<1> SUFFICES ASSUME RelsHold, relLate = {}, relColumn.kind \in ValueKind PROVE R!CountExact
  BY SameWriters DEF R!CountExact, R!Settled
<1> DEFINE n == Len(rels.ends)
<1>1. /\ n \in Nat /\ n < Word /\ rels.deletedIds \subseteq 0 .. n - 1
      /\ R!LiveRels(rels) = InUse(n, rels.deletedIds)
      /\ R!RelSlotsOf(rels) = 0 .. n - 1
      /\ ColumnHolds(relColumn, n, rels.deletedIds, relWritten, {})
  BY RelsParts, RelationshipsAssumption, NodeTypesAssumption DEF R!RelSlotsOf
<1>2. CountsAre(relColumn, n, rels, relWritten)
  <2> HIDE DEF n
  <2> QED  BY <1>1, FindCountsHold
<1>3. ASSUME NEW op \in R!Operation, NEW v \in R!Asked
      PROVE  R!findRelationshipCount(rels, relColumn, op, [kind |-> relColumn.kind, value |-> v])
                 = R!Cardinality(R!Matches(op, [value |-> v]))
  <2> DEFINE l == [kind |-> relColumn.kind, value |-> v]
  <2>1. op # "IS_NULL" /\ op # "NOT_IS_NULL"
    BY DEF R!Operation, R!Comparison, R!TextTest
  <2>2. R!findRelationshipCount(rels, relColumn, op, l) = R!countMatches(rels, relColumn, op, l)
    BY <2>1, SameWriters DEF R!findRelationshipCount, R!countRelationships
  <2>3. R!countMatches(rels, relColumn, op, l) = countMatches(rels, relColumn, op, l)
    BY SameCounts
  <2>4. countMatches(rels, relColumn, op, l) =
            Cardinality({i \in R!LiveRels(rels) : relWritten[i] # NoValue /\ Holds(relColumn.kind, op, relWritten[i], v)})
    BY <1>1, <1>2 DEF CountsAre
  <2>5. R!Matches(op, [value |-> v])
            = {i \in R!LiveRels(rels) : relWritten[i] # NoValue /\ Holds(relColumn.kind, op, relWritten[i], v)}
    BY SameCounts DEF R!Matches
  <2> QED  BY <2>2, <2>3, <2>4, <2>5, SameCardinality
<1> DEFINE nulls == {i \in R!LiveRels(rels) : relWritten[i] = NoValue}
<1>4. nulls = Lacking(n, rels.deletedIds, relWritten)
  BY <1>1 DEF Lacking
<1> HIDE DEF nulls
<1> DEFINE less == Cardinality(relColumn.gone) - Cardinality(rels.deletedIds)
<1>5. R!findRelationshipCount(rels, relColumn, "IS_NULL", NoValue) = R!Cardinality(nulls)
  <2>1. R!findRelationshipCount(rels, relColumn, "IS_NULL", NoValue) = Unsigned(less)
    BY SameCounts, SameCardinality DEF R!findRelationshipCount
  <2> QED  BY <1>2, <1>4, <2>1, SameCardinality DEF CountsAre
<1>6. R!findRelationshipCount(rels, relColumn, "NOT_IS_NULL", NoValue)
          = R!Cardinality(R!RelSlotsOf(rels) \ nulls)
  <2>1. R!findRelationshipCount(rels, relColumn, "NOT_IS_NULL", NoValue) = Unsigned(n - less)
    BY SameCounts, SameCardinality DEF R!findRelationshipCount
  <2> HIDE DEF n
  <2>2. Unsigned(n - less) = Cardinality(R!RelSlotsOf(rels) \ nulls)
    BY <1>1, <1>2, <1>4 DEF CountsAre
  <2> QED  BY <2>1, <2>2, SameCardinality
<1> QED  BY <1>3, <1>5, <1>6 DEF R!CountExact, nulls

-----------------------------------------------------------------------------
(* Searching *)

\* The page that starts at the first slot gives slots of S, and all of them when it is large enough.
PageLists(S, limit, whole) ==
    /\ DOMAIN Page(Ascending(S), 0, limit) \subseteq Nat
    /\ \A n \in DOMAIN Page(Ascending(S), 0, limit) : Page(Ascending(S), 0, limit)[n] \in S
    /\ whole => ToSet(Page(Ascending(S), 0, limit)) = S

\* Cutting a page out of slots in order drops none of them when the limit allows for all.
LEMMA PageHolds ==
    ASSUME NEW N \in Nat, NEW S, S \subseteq 0 .. N - 1, NEW limit \in Nat
    PROVE  PageLists(S, limit, N <= limit)
<1> DEFINE q == Ascending(S)
           M == Cardinality(S)
           m == Min({0 + limit, Len(q)})
<1>1. /\ M \in Nat /\ q \in [1 .. M -> S]
      /\ \A i \in S : \E n \in 1 .. M : q[n] = i
  BY AscendingLists
<1>2. M <= N
  <2>1. 0 \in Int /\ N - 1 \in Int
    OBVIOUS
  <2>2. IsFiniteSet(0 .. N - 1) /\ Cardinality(0 .. N - 1) = N
    BY <2>1, FS_Interval
  <2>3. S \in SUBSET (0 .. N - 1)
    OBVIOUS
  <2> QED  BY <2>2, <2>3, FS_Subset
<1> HIDE DEF q, M
<1>3. q \in Seq(S) /\ Len(q) = M /\ DOMAIN q = 1 .. M
  BY <1>1
<1>4. m \in Nat /\ m <= M /\ (N <= limit => m = M)
  <2>1. {0 + limit, Len(q)} \subseteq Nat /\ {0 + limit, Len(q)} # {}
    BY <1>1, <1>3
  <2>2. m \in {0 + limit, Len(q)} /\ m <= 0 + limit /\ m <= Len(q)
    <3>1. Min({0 + limit, Len(q)}) \in {0 + limit, Len(q)}
          /\ \A y \in {0 + limit, Len(q)} : Min({0 + limit, Len(q)}) <= y
      BY <2>1, MinIsElement
    <3> QED  BY <3>1
  <2> HIDE DEF m
  <2> QED  BY <1>1, <1>2, <1>3, <2>2
<1> HIDE DEF m
<1> DEFINE p == SubSeq(q, 1, m)
<1>5. Page(Ascending(S), 0, limit) = p
  BY DEF Page, q, m
<1>6. DOMAIN p = 1 .. m /\ \A n \in 1 .. m : p[n] = q[n]
  BY <1>1, <1>3, <1>4
<1> HIDE DEF p
<1>7. \A n \in 1 .. m : n \in 1 .. M /\ q[n] \in S
  BY <1>1, <1>4
<1>8. N <= limit => ToSet(p) = S
  <2>1. ToSet(p) = {p[n] : n \in 1 .. m}
    BY <1>6 DEF ToSet
  <2>2. \A n \in 1 .. m : p[n] \in S
    BY <1>6, <1>7
  <2>3. N <= limit => \A i \in S : \E n \in 1 .. m : p[n] = i
    BY <1>1, <1>4, <1>6
  <2> QED  BY <2>1, <2>2, <2>3
<1>9. 1 .. m \subseteq Nat
  BY <1>4
<1> QED  BY <1>5, <1>6, <1>7, <1>8, <1>9 DEF PageLists

\* Whatever the kind, a search by value cuts its page out of the slots it matches. Integers and
\* doubles return one slot even when asked for none.
LEMMA FindPages ==
    ASSUME NEW t, NEW c, c.kind \in ValueKind, NEW op, op # "IS_NULL", op # "NOT_IS_NULL",
           NEW l, l.kind = c.kind, NEW skip, NEW limit \in Nat
    PROVE  \E m \in Nat : /\ findIds(t, c, op, l, skip, limit) = Page(Ascending(MatchingSlots(t, c, op, l)), skip, m)
                          /\ limit >= 1 => m = limit
<1> DEFINE S == Ascending(MatchingSlots(t, c, op, l))
           m == IF c.kind \in {"integer", "double"} /\ skip = 0 THEN Max({limit, 1}) ELSE limit
<1>1. m \in Nat /\ (limit >= 1 => m = limit)
  <2>1. Max({limit, 1}) = IF limit >= 1 THEN limit ELSE 1
    BY MaxOfTwo
  <2> QED  BY <2>1
<1>2. findIds(t, c, op, l, skip, limit) = Page(S, skip, m)
  <2> HIDE DEF S
  <2>0. ListKind \cap {"integer", "double", "boolean", "string"} = {}
    BY DEF ListKind
  <2>1. CASE c.kind = "integer"
    BY <2>0, <2>1 DEF findIds, findIntegerIds, S
  <2>2. CASE c.kind = "double"
    BY <2>0, <2>2 DEF findIds, findDoubleIds, S
  <2>3. CASE c.kind = "boolean"
    BY <2>0, <2>3 DEF findIds, findBooleanIds, S
  <2>4. CASE c.kind = "string"
    BY <2>0, <2>4 DEF findIds, findStringIds, S
  <2>5. CASE c.kind \in ListKind
    <3>1. c.kind \notin {"integer", "double", "boolean", "string"}
      BY <2>5 DEF ListKind
    <3> QED  BY <2>5, <3>1 DEF findIds, findListIds, S
  <2> QED  BY <2>1, <2>2, <2>3, <2>4, <2>5 DEF ValueKind
<1> HIDE DEF m
<1> QED  BY <1>1, <1>2

\* The nodes found are those whose ids are found.
LEMMA FindNodesAre ==
    ASSUME NEW t, NEW c, c.kind \in ValueKind, NEW op, op # "IS_NULL", op # "NOT_IS_NULL",
           NEW l, NEW skip, NEW limit
    PROVE  findNodes(t, c, op, l, skip, limit) = Nodes(t, c, findIds(t, c, op, l, skip, limit))
<1>0. ListKind \cap {"integer", "double", "boolean", "string"} = {}
  BY DEF ListKind
<1>1. CASE c.kind = "integer"
  BY <1>0, <1>1 DEF findIds, findNodes, findIntegerNodes
<1>2. CASE c.kind = "double"
  BY <1>0, <1>2 DEF findIds, findNodes, findDoubleNodes
<1>3. CASE c.kind = "boolean"
  BY <1>0, <1>3 DEF findIds, findNodes, findBooleanNodes
<1>4. CASE c.kind = "string"
  BY <1>0, <1>4 DEF findIds, findNodes, findStringNodes
<1>5. CASE c.kind \in ListKind
  <2>1. c.kind \notin {"integer", "double", "boolean", "string"}
    BY <1>5 DEF ListKind
  <2> QED  BY <1>5, <2>1 DEF findIds, findNodes, findListNodes
<1> QED  BY <1>1, <1>2, <1>3, <1>4, <1>5 DEF ValueKind

\* NodeTypes::findIds and findNodes give the nodes there are to find, page by page in slot order.
LEMMA NodesFind == NodesHold => FindExact
<1> SUFFICES ASSUME NodesHold, late = {}, column.kind \in ValueKind PROVE FindExact
  BY DEF FindExact
<1> DEFINE n == Len(nodes.keys)
           literal(v) == [kind |-> column.kind, value |-> v]
<1>1. /\ n \in Nat /\ n <= MaxSlots /\ nodes.deletedIds \subseteq 0 .. n - 1
      /\ LiveSlots(nodes) = (0 .. n - 1) \ nodes.deletedIds
      /\ ColumnHolds(column, n, nodes.deletedIds, written, {})
      /\ MaxSlots \in Nat
  BY NodesParts, NodeTypesAssumption
<1>2. /\ \A op, l : MatchingSlots(nodes, column, op, l) = Matches(op, l)
      /\ nodes.deletedIds \subseteq column.gone /\ column.gone \subseteq 0 .. n - 1
      /\ column.gone \ nodes.deletedIds = {i \in LiveSlots(nodes) : written[i] = NoValue}
  <2> HIDE DEF n
  <2>1. /\ \A op, l : MatchingSlots(nodes, column, op, l) =
               {i \in (0 .. n - 1) \ nodes.deletedIds : written[i] # NoValue /\ Holds(column.kind, op, written[i], l.value)}
        /\ nodes.deletedIds \subseteq column.gone /\ column.gone \subseteq 0 .. n - 1
        /\ column.gone \ nodes.deletedIds = {i \in (0 .. n - 1) \ nodes.deletedIds : written[i] = NoValue}
    BY <1>1, ScanHolds
  <2> QED  BY <1>1, <2>1 DEF Matches
<1>3. \A op, l : Matches(op, l) \subseteq 0 .. n - 1
  BY <1>1 DEF Matches
<1>4. \A op \in Operation : op # "IS_NULL" /\ op # "NOT_IS_NULL"
  BY DEF Operation, Comparison, TextTest
<1>5. \A op, v : Matches(op, literal(v)) = Matches(op, [value |-> v])
  BY DEF Matches
<1> HIDE DEF n
<1>6. ASSUME NEW op \in Operation, NEW v \in Asked, NEW skip \in 0 .. 1, NEW limit \in 1 .. 2
      PROVE  findIds(nodes, column, op, literal(v), skip, limit)
                 = Page(Ascending(Matches(op, [value |-> v])), skip, limit)
  <2>1. literal(v).kind = column.kind /\ limit \in Nat /\ limit >= 1
    OBVIOUS
  <2> HIDE DEF literal
  <2>2. findIds(nodes, column, op, literal(v), skip, limit)
            = Page(Ascending(MatchingSlots(nodes, column, op, literal(v))), skip, limit)
    BY <1>4, <2>1, FindPages
  <2> QED  BY <1>2, <1>5, <2>2
<1>7. ToSet(findNullIds(nodes, column, 0, MaxSlots)) = {i \in LiveSlots(nodes) : written[i] = NoValue}
  <2>1. column.gone \ nodes.deletedIds \subseteq 0 .. n - 1
    BY <1>2
  <2>2. PageLists(column.gone \ nodes.deletedIds, MaxSlots, n <= MaxSlots)
    BY <1>1, <2>1, PageHolds
  <2> QED  BY <1>1, <1>2, <2>2 DEF PageLists, findNullIds
<1>8. ToSet(findNotNullIds(nodes, column, 0, MaxSlots)) = {i \in Visible : written[i] # NoValue}
  <2> DEFINE S == ((0 .. MapSize(nodes) - 1) \ nodes.deletedIds) \ column.gone
  <2>1. MapSize(nodes) \in Nat /\ MapSize(nodes) <= n
    BY Accounting, DeletedFinite DEF NodesHold, n
  <2>2. S \subseteq 0 .. n - 1
    BY <1>1, <2>1
  <2>3. PageLists(S, MaxSlots, n <= MaxSlots)
    <3> HIDE DEF S
    <3> QED  BY <1>1, <2>2, PageHolds
  <2>4. S = {i \in Visible : written[i] # NoValue}
    <3>1. \A i \in 0 .. MapSize(nodes) - 1 : i \in Slot /\ i \in 0 .. n - 1
      BY <1>1, <2>1 DEF Slot
    <3>2. Visible = (0 .. MapSize(nodes) - 1) \ nodes.deletedIds
      BY <1>1, <2>1, <3>1 DEF Visible, ValidNodeId, Slot
    <3>3. \A i \in Visible : i \in column.gone <=> written[i] = NoValue
      BY <1>1, <1>2, <3>1, <3>2
    <3> QED  BY <3>2, <3>3
  <2> QED  BY <1>1, <2>3, <2>4 DEF PageLists, findNotNullIds
<1>9. ASSUME NEW op \in Operation, NEW v \in Asked,
             NEW x \in ToSet(findNodes(nodes, column, op, literal(v), 0, MaxSlots))
      PROVE  x.key \in Key /\ nodes.keyToNodeId[x.key] = x.id /\ x.value = written[x.id]
  <2> DEFINE ids == findIds(nodes, column, op, literal(v), 0, MaxSlots)
             S == Matches(op, [value |-> v])
  <2>1. literal(v).kind = column.kind
    OBVIOUS
  <2> HIDE DEF literal
  <2>2. findNodes(nodes, column, op, literal(v), 0, MaxSlots) = Nodes(nodes, column, ids)
    BY <1>4, FindNodesAre
  <2>3. PICK m \in Nat : ids = Page(Ascending(MatchingSlots(nodes, column, op, literal(v))), 0, m)
    BY <1>1, <1>4, <2>1, FindPages
  <2>4. ids = Page(Ascending(S), 0, m)
    BY <1>2, <1>5, <2>3
  <2>5. PageLists(S, m, n <= m)
    BY <1>1, <1>3, PageHolds
  <2> HIDE DEF ids
  <2>6. PICK j \in DOMAIN ids : x = getNode(nodes, column, ids[j])
    BY <2>2 DEF Nodes, ToSet
  <2>7. ids[j] \in S
    BY <2>4, <2>5 DEF PageLists
  <2> DEFINE i == ids[j]
  <2>8. i \in LiveSlots(nodes) /\ i \in SlotsOf(nodes)
    BY <1>1, <2>7 DEF Matches, SlotsOf, n
  <2>9. x.id = i /\ x.key = KeyOf(nodes, i) /\ x.value = getProperties(column, i)
    BY <2>6 DEF getNode, getProperties
  <2>10. KeyOf(nodes, i) \in Key /\ nodes.keyToNodeId[KeyOf(nodes, i)] = i
    BY <2>8 DEF NodesHold, WellFormed, SlotsAgree, LiveSlotsAreNamed
  <2>11. getProperties(column, i) = written[i]
    BY <1>1, <2>8 DEF ColumnHolds, ColumnReads
  <2> QED  BY <2>9, <2>10, <2>11
<1> QED  BY <1>6, <1>7, <1>8, <1>9 DEF FindExact

\* Relationships are searched as nodes are.
LEMMA SameSearches ==
    /\ \A S : R!Ascending(S) = Ascending(S)
    /\ \A q, skip, limit : R!Page(q, skip, limit) = Page(q, skip, limit)
    /\ \A q : R!ToSet(q) = ToSet(q)
    /\ R!Operation = Operation
    /\ \A t, c, op, l : R!MatchingSlots(t, c, op, l) = MatchingSlots(t, c, op, l)
    /\ \A t, c, op, l, skip, limit : op # "IS_NULL" /\ op # "NOT_IS_NULL" =>
          R!findRelationshipIds(t, c, op, l, skip, limit) = findIds(t, c, op, l, skip, limit)
    /\ \A t, c, skip, limit :
          R!findRelationshipIds(t, c, "IS_NULL", NoValue, skip, limit) = findNullIds(t, c, skip, limit)
<1>1. R!ListKind = ListKind /\ R!TextTest = TextTest /\ R!Comparison = Comparison
  BY DEF R!ListKind, ListKind, R!TextTest, TextTest, R!Comparison, Comparison
<1>2. R!Operation = Operation
  BY <1>1 DEF R!Operation, Operation
<1>3. \A S : R!Ascending(S) = Ascending(S)
  BY SameCardinality DEF R!Ascending, Ascending
<1>4. \A q, skip, limit : R!Page(q, skip, limit) = Page(q, skip, limit)
  BY DEF R!Page, Page, R!Min, Min
<1>5. \A q : R!ToSet(q) = ToSet(q)
  BY DEF R!ToSet, ToSet
<1>6. \A t, c, op, l : R!MatchingSlots(t, c, op, l) = MatchingSlots(t, c, op, l)
  BY SameCounts DEF R!MatchingSlots, MatchingSlots, R!getBlanks, getBlanks
<1>7. \A skip, limit :
        (IF skip = 0 THEN R!Max({limit, 1}) ELSE limit) = (IF skip = 0 THEN Max({limit, 1}) ELSE limit)
  BY DEF R!Max, Max
<1>8. \A t, c, op, l, skip, limit : R!Page(R!Ascending(R!MatchingSlots(t, c, op, l)), skip, limit)
                                     = Page(Ascending(MatchingSlots(t, c, op, l)), skip, limit)
  BY <1>3, <1>4, <1>6
<1>9. ASSUME NEW t, NEW c, NEW op, NEW l, NEW skip, NEW limit
      PROVE  /\ R!findIntegerIds(t, c, op, l, skip, limit) = findIntegerIds(t, c, op, l, skip, limit)
             /\ R!findDoubleIds(t, c, op, l, skip, limit) = findDoubleIds(t, c, op, l, skip, limit)
  <2> DEFINE theirs == IF skip = 0 THEN R!Max({limit, 1}) ELSE limit
             mine == IF skip = 0 THEN Max({limit, 1}) ELSE limit
             atLeastOne == Page(Ascending(MatchingSlots(t, c, op, l)), skip, mine)
  <2>1. theirs = mine
    BY <1>7, Zenon
  <2>2. R!Page(R!Ascending(R!MatchingSlots(t, c, op, l)), skip, theirs) = atLeastOne
    <3> HIDE DEF theirs, mine
    <3> QED  BY <1>8, <2>1 DEF atLeastOne
  <2>3. /\ R!findIntegerIds(t, c, op, l, skip, limit) = IF l.kind = "integer" THEN atLeastOne ELSE <<>>
        /\ R!findDoubleIds(t, c, op, l, skip, limit)
              = IF l.kind \in {"integer", "double"} THEN atLeastOne ELSE <<>>
    BY <2>2, Zenon DEF R!findIntegerIds, R!findDoubleIds
  <2> QED  BY <2>3, Zenon DEF findIntegerIds, findDoubleIds
<1>10. \A t, c, op, l, skip, limit :
        R!findBooleanIds(t, c, op, l, skip, limit) = findBooleanIds(t, c, op, l, skip, limit)
  BY <1>8 DEF R!findBooleanIds, findBooleanIds
<1>11. \A t, c, op, l, skip, limit :
        R!findStringIds(t, c, op, l, skip, limit) = findStringIds(t, c, op, l, skip, limit)
  BY <1>8 DEF R!findStringIds, findStringIds
<1>12. \A t, c, op, l, skip, limit :
        R!findListIds(t, c, op, l, skip, limit) = findListIds(t, c, op, l, skip, limit)
  BY <1>8 DEF R!findListIds, findListIds
<1>13. \A t, c, op, l, skip, limit : op # "IS_NULL" /\ op # "NOT_IS_NULL" =>
          R!findRelationshipIds(t, c, op, l, skip, limit) = findIds(t, c, op, l, skip, limit)
  BY <1>1, <1>9, <1>10, <1>11, <1>12
     DEF R!findRelationshipIds, findIds, R!findBooleanRelationshipIds, R!findIntegerRelationshipIds,
         R!findDoubleRelationshipIds, R!findStringRelationshipIds, R!findListRelationshipIds
<1>14. \A t, c, skip, limit :
          R!findRelationshipIds(t, c, "IS_NULL", NoValue, skip, limit) = findNullIds(t, c, skip, limit)
  BY <1>3, <1>4 DEF R!findRelationshipIds, R!findNullRelationshipIds, R!findNullIds, findNullIds
<1> QED  BY <1>2, <1>3, <1>4, <1>5, <1>6, <1>13, <1>14

\* The relationships found are those whose ids are found.
LEMMA FindRelationshipsAre ==
    ASSUME NEW r, NEW c, c.kind \in ValueKind, NEW op, op # "IS_NULL", op # "NOT_IS_NULL",
           NEW l, NEW skip, NEW limit
    PROVE  R!findRelationships(r, c, op, l, skip, limit)
             = R!Relationships(r, c, R!findRelationshipIds(r, c, op, l, skip, limit))
<1>0. R!ListKind \cap {"integer", "double", "boolean", "string"} = {}
  BY DEF R!ListKind
<1>1. CASE c.kind = "integer"
  BY <1>0, <1>1 DEF R!findRelationshipIds, R!findRelationships, R!findIntegerRelationships
<1>2. CASE c.kind = "double"
  BY <1>0, <1>2 DEF R!findRelationshipIds, R!findRelationships, R!findDoubleRelationships
<1>3. CASE c.kind = "boolean"
  BY <1>0, <1>3 DEF R!findRelationshipIds, R!findRelationships, R!findBooleanRelationships
<1>4. CASE c.kind = "string"
  BY <1>0, <1>4 DEF R!findRelationshipIds, R!findRelationships, R!findStringRelationships
<1>5. CASE c.kind \in R!ListKind
  BY <1>0, <1>5 DEF R!findRelationshipIds, R!findRelationships, R!findListRelationships
<1>6. R!ValueKind = ValueKind
  BY SameWriters
<1> QED  BY <1>1, <1>2, <1>3, <1>4, <1>5, <1>6 DEF R!ValueKind

\* RelationshipTypes::findIds and findRelationships give the relationships there are to find.
LEMMA RelsFind == RelsHold => R!FindExact
<1> SUFFICES ASSUME RelsHold, relLate = {}, relColumn.kind \in ValueKind PROVE R!FindExact
  BY SameWriters DEF R!FindExact, R!Settled
<1> DEFINE n == Len(rels.ends)
           literal(v) == [kind |-> relColumn.kind, value |-> v]
           find(op, v, skip, limit) == R!findRelationshipIds(rels, relColumn, op, literal(v), skip, limit)
<1>1. /\ n \in Nat /\ n <= MaxRels /\ MaxRels \in Nat /\ rels.deletedIds \subseteq 0 .. n - 1
      /\ R!LiveRels(rels) = (0 .. n - 1) \ rels.deletedIds
      /\ R!RelSlotsOf(rels) = 0 .. n - 1
      /\ ColumnHolds(relColumn, n, rels.deletedIds, relWritten, {})
      /\ \A i \in R!LiveRels(rels) : rels.ends[i + 1] # R!NoEnds
  BY RelsParts, RelationshipsAssumption DEF R!RelSlotsOf, InUse, RelsHold, RelsTyped
<1>2. /\ \A op, l : MatchingSlots(rels, relColumn, op, l) = R!Matches(op, l)
      /\ rels.deletedIds \subseteq relColumn.gone /\ relColumn.gone \subseteq 0 .. n - 1
      /\ relColumn.gone \ rels.deletedIds = {i \in R!LiveRels(rels) : relWritten[i] = NoValue}
  <2> HIDE DEF n
  <2>1. /\ \A op, l : MatchingSlots(rels, relColumn, op, l) =
               {i \in (0 .. n - 1) \ rels.deletedIds :
                   relWritten[i] # NoValue /\ Holds(relColumn.kind, op, relWritten[i], l.value)}
        /\ rels.deletedIds \subseteq relColumn.gone /\ relColumn.gone \subseteq 0 .. n - 1
        /\ relColumn.gone \ rels.deletedIds = {i \in (0 .. n - 1) \ rels.deletedIds : relWritten[i] = NoValue}
    BY <1>1, ScanHolds
  <2> QED  BY <1>1, <2>1, SameCounts DEF R!Matches
<1>3. \A op, l : R!Matches(op, l) \subseteq R!LiveRels(rels) /\ R!Matches(op, l) \subseteq 0 .. n - 1
  BY <1>1 DEF R!Matches
<1>4. \A op \in Operation : op # "IS_NULL" /\ op # "NOT_IS_NULL"
  BY DEF Operation, Comparison, TextTest
<1>5. \A op, v : R!Matches(op, literal(v)) = R!Matches(op, [value |-> v])
  BY DEF R!Matches
<1> HIDE DEF n
<1>6. ASSUME NEW op \in Operation, NEW v, NEW skip, NEW limit \in Nat
      PROVE  \E m \in Nat : /\ find(op, v, skip, limit) = Page(Ascending(R!Matches(op, [value |-> v])), skip, m)
                            /\ limit >= 1 => m = limit
  <2>1. literal(v).kind = relColumn.kind
    OBVIOUS
  <2> HIDE DEF literal
  <2>2. PICK m \in Nat : /\ findIds(rels, relColumn, op, literal(v), skip, limit)
                               = Page(Ascending(MatchingSlots(rels, relColumn, op, literal(v))), skip, m)
                         /\ limit >= 1 => m = limit
    BY <1>4, <2>1, FindPages
  <2>3. find(op, v, skip, limit) = findIds(rels, relColumn, op, literal(v), skip, limit)
    BY <1>4, SameSearches
  <2> QED  BY <1>2, <1>5, <2>2, <2>3
<1> HIDE DEF find
<1>7. ASSUME NEW op \in R!Operation, NEW v \in R!Asked, NEW skip \in 0 .. 1, NEW limit \in 1 .. 2
      PROVE  find(op, v, skip, limit) = R!Page(R!Ascending(R!Matches(op, [value |-> v])), skip, limit)
  <2>1. limit \in Nat /\ limit >= 1 /\ op \in Operation
    BY SameSearches
  <2>2. find(op, v, skip, limit) = Page(Ascending(R!Matches(op, [value |-> v])), skip, limit)
    BY <1>6, <2>1
  <2> QED  BY <2>2, SameSearches
<1>8. R!ToSet(R!findRelationshipIds(rels, relColumn, "IS_NULL", NoValue, 0, MaxRels))
        = {i \in R!LiveRels(rels) : relWritten[i] = NoValue}
  <2>1. relColumn.gone \ rels.deletedIds \subseteq 0 .. n - 1
    BY <1>2
  <2>2. PageLists(relColumn.gone \ rels.deletedIds, MaxRels, n <= MaxRels)
    BY <1>1, <2>1, PageHolds
  <2>3. ToSet(findNullIds(rels, relColumn, 0, MaxRels)) = relColumn.gone \ rels.deletedIds
    BY <1>1, <2>2 DEF PageLists, findNullIds
  <2> QED  BY <1>2, <2>3, SameSearches
<1>9. R!ToSet(R!findRelationshipIds(rels, relColumn, "NOT_IS_NULL", NoValue, 0, MaxRels))
        = {i \in R!LiveRels(rels) : relWritten[i] # NoValue}
  <2> DEFINE S == (R!RelSlotsOf(rels) \ rels.deletedIds) \ relColumn.gone
  <2>1. S = {i \in R!LiveRels(rels) : relWritten[i] # NoValue} /\ S \subseteq 0 .. n - 1
    BY <1>1, <1>2
  <2>2. R!findRelationshipIds(rels, relColumn, "NOT_IS_NULL", NoValue, 0, MaxRels)
          = R!Page(R!Ascending(S), 0, MaxRels)
    BY DEF R!findRelationshipIds, R!findNotNullRelationshipIds
  <2> HIDE DEF S
  <2>3. PageLists(S, MaxRels, n <= MaxRels)
    BY <1>1, <2>1, PageHolds
  <2> QED  BY <1>1, <2>1, <2>2, <2>3, SameSearches DEF PageLists
<1>10. ASSUME NEW op \in R!Operation, NEW v \in R!Asked,
              NEW e \in R!ToSet(R!findRelationships(rels, relColumn, op, literal(v), 0, MaxRels))
       PROVE  e.ends # R!NoEnds /\ e.value = relWritten[e.id]
  <2> DEFINE ids == find(op, v, 0, MaxRels)
             S == R!Matches(op, [value |-> v])
  <2>1. op \in Operation
    BY SameSearches
  <2>2. R!findRelationships(rels, relColumn, op, literal(v), 0, MaxRels) = R!Relationships(rels, relColumn, ids)
    BY <1>4, <2>1, FindRelationshipsAre DEF find
  <2>3. PICK m \in Nat : ids = Page(Ascending(S), 0, m)
    BY <1>1, <1>6, <2>1
  <2>4. PageLists(S, m, n <= m)
    BY <1>1, <1>3, PageHolds
  <2> HIDE DEF ids
  <2>5. PICK j \in DOMAIN ids : e = R!getRelationship(rels, relColumn, ids[j])
    BY <2>2 DEF R!Relationships, R!ToSet
  <2> DEFINE i == ids[j]
  <2>6. i \in S /\ i \in R!LiveRels(rels)
    BY <1>3, <2>3, <2>4 DEF PageLists
  <2>7. e.id = i /\ e.ends = rels.ends[i + 1] /\ e.value = getProperties(relColumn, i)
    BY <2>5, SameWriters DEF R!getRelationship, R!getProperties, R!EndsOf
  <2>8. getProperties(relColumn, i) = relWritten[i]
    BY <1>1, <2>6 DEF ColumnHolds, ColumnReads
  <2> QED  BY <1>1, <2>6, <2>7, <2>8
<1> QED  BY <1>7, <1>8, <1>9, <1>10 DEF R!FindExact, find

-----------------------------------------------------------------------------
(* Reading many at once *)

\* The list of a group of slots names each of them, and ends with the greatest.
LEMMA ListOfSlots ==
    ASSUME NEW N \in Nat, NEW S, S \subseteq 0 .. N - 1, S # {}
    PROVE  /\ ToSet(Ascending(S)) = S
           /\ Ascending(S)[Len(Ascending(S))] = Max(S)
           /\ Max(S) \in S /\ \A i \in S : i <= Max(S)
<1> DEFINE q == Ascending(S)
           M == Cardinality(S)
<1>1. /\ M \in Nat /\ q \in [1 .. M -> S]
      /\ \A i \in S : \E n \in 1 .. M : q[n] = i
  BY AscendingLists
<1>2. \A m, n \in DOMAIN q : m < n => q[m] < q[n]
  <2>1. \E p \in [1 .. M -> S] : \A m, n \in DOMAIN p : m < n => p[m] < p[n]
    BY OrderExists DEF Ascends
  <2> QED  BY <2>1 DEF Ascending
<1> HIDE DEF q, M
<1>3. DOMAIN q = 1 .. M /\ Len(q) = M
  BY <1>1
<1>4. ToSet(q) = S
  BY <1>1, <1>3 DEF ToSet
<1>0. S \subseteq Int
  OBVIOUS
<1>5. M \in 1 .. M /\ q[M] \in S
  <2>1. PICK i \in S : TRUE
    OBVIOUS
  <2>2. PICK n \in 1 .. M : q[n] = i
    BY <1>1
  <2> QED  BY <1>1, <2>2
<1>6. \A i \in S : i <= q[M]
  <2>1. SUFFICES ASSUME NEW i \in S PROVE i <= q[M]
    OBVIOUS
  <2>2. PICK n \in 1 .. M : q[n] = i
    BY <1>1
  <2>3. n = M \/ q[n] < q[M]
    BY <1>1, <1>2, <1>3, <1>5
  <2>4. q[M] \in Int /\ q[n] \in Int
    BY <1>0, <1>1, <1>5
  <2> QED  BY <2>2, <2>3, <2>4
<1>7. Max(S) \in S /\ \A i \in S : i <= Max(S)
  BY <1>5, <1>6 DEF Max
<1>8. Max(S) = q[M]
  <2>1. q[M] \in Int /\ Max(S) \in Int
    BY <1>0, <1>5, <1>7
  <2>2. Max(S) <= q[M] /\ q[M] <= Max(S)
    BY <1>5, <1>6, <1>7
  <2> QED  BY <2>1, <2>2
<1> QED  BY <1>3, <1>4, <1>7, <1>8 DEF q

\* What getPropertyOfMany gives for the slots S: what they hold, or nothing of any of them when the
\* vector does not reach the last.
Given(c, S) ==
    [i \in S |->
        IF c.kind \in ValueKind /\ Covers(c, Max(S)) /\ i \notin c.gone THEN c.vec[i + 1] ELSE NoValue]

\* What is given is what reading the slot alone gives, or nothing; the former where the last slot has it.
ReadOrNothing(c, S, i) ==
    /\ Given(c, S)[i] \in {getProperties(c, i), NoValue}
    /\ getProperties(c, Max(S)) # NoValue => Given(c, S)[i] = getProperties(c, i)

\* So it is in every column.
LEMMA GivenIsRead ==
    ASSUME NEW N \in Nat, NEW S, S \subseteq 0 .. N - 1, S # {}, NEW c, Len(c.vec) \in Nat, NEW i \in S
    PROVE  getPropertyOfMany(c, Ascending(S)) = Given(c, S) /\ ReadOrNothing(c, S, i)
<1>1. /\ ToSet(Ascending(S)) = S /\ Ascending(S)[Len(Ascending(S))] = Max(S)
      /\ Max(S) \in S /\ i <= Max(S)
  BY ListOfSlots
<1>2. getPropertyOfMany(c, Ascending(S)) = Given(c, S)
  BY <1>1 DEF getPropertyOfMany, Given
<1>3. i \in Int /\ Max(S) \in Int
  <2>1. S \subseteq Int
    OBVIOUS
  <2> QED  BY <1>1, <2>1
<1>4. Covers(c, Max(S)) => Covers(c, i)
  BY <1>1, <1>3 DEF Covers
<1> QED  BY <1>2, <1>4 DEF ReadOrNothing, Given, getProperties

\* A batch of ids: the slots g[s] of each of the two shards s.
BatchOf(g, N, ids) == g \in [0 .. 1 -> SUBSET (0 .. N - 1)] /\ ids = UNION {{s} \X g[s] : s \in 0 .. 1}

Asking(g) == {s \in 0 .. 1 : g[s] # {}}

\* PartitionIdsByShardId gives each shard that is asked its slots in order.
LEMMA PartsAre ==
    ASSUME NEW N \in Nat, NEW g, NEW ids, BatchOf(g, N, ids)
    PROVE  /\ \A id \in ids : id[1] \in Asking(g) /\ id[2] \in g[id[1]]
           /\ PartitionIdsByShardId(ids) = [s \in Asking(g) |-> Ascending(g[s])]
<1>1. \A id \in ids : id[1] \in 0 .. 1 /\ id[2] \in g[id[1]]
  BY DEF BatchOf
<1>2. \A s \in 0 .. 1 : \A i \in g[s] : <<s, i>> \in ids
  BY DEF BatchOf
<1>3. {id[1] : id \in ids} = Asking(g)
  <2>1. \A s \in Asking(g) : \E id \in ids : id[1] = s
    BY <1>2 DEF Asking
  <2>2. \A id \in ids : id[1] \in Asking(g)
    BY <1>1 DEF Asking
  <2> QED  BY <2>1, <2>2
<1>4. ASSUME NEW s \in 0 .. 1 PROVE {id[2] : id \in {d \in ids : d[1] = s}} = g[s]
  <2>1. \A i \in g[s] : \E id \in ids : id[1] = s /\ id[2] = i
    BY <1>2
  <2> QED  BY <1>1, <2>1
<1>5. Asking(g) \subseteq 0 .. 1
  BY DEF Asking
<1> QED  BY <1>1, <1>3, <1>4, <1>5 DEF PartitionIdsByShardId

\* The entries of the shards' answers, as Combined puts them together.
Joined(ids, answer) == [id \in {d \in ids : d[2] \in DOMAIN answer[d[1]]} |-> answer[id[1]][id[2]]]

\* What the nodes' readers of a batch answer, together.
NodesAnswer(g, ids) ==
    LET there == {d \in ids : g[d[1]] \subseteq Visible}
        value(id) == Given(column, g[id[1]])[id[2]]
    IN  /\ NodesGetPeered(Shards, ids) =
              [id \in there |-> [id |-> id[2], key |-> KeyOf(nodes, id[2]), value |-> value(id)]]
        /\ NodesGetPropertiesPeered(Shards, ids) = [id \in there |-> value(id)]
        /\ NodesGetPropertyPeered(Shards, ids) = [id \in {d \in there : value(d) # NoValue} |-> value(id)]
        /\ NodesGetKeyPeered(Shards, ids) =
              [id \in ids |-> IF id[2] \in Visible THEN KeyOf(nodes, id[2]) ELSE NoKey]
        /\ NodesGetTypePeered(Shards, ids) = [id \in ids |-> id[2] \in Visible]
        /\ NodesGetPropertyOfLinksPeered(Shards, ids) = [id \in ids |-> getNodeProperty(nodes, column, id[2])]

\* Every shard answers for its group alone.
LEMMA NodesAnswers ==
    ASSUME NodesHold, NEW g, NEW ids, BatchOf(g, Len(nodes.keys), ids)
    PROVE  NodesAnswer(g, ids)
<1> DEFINE N == Len(nodes.keys)
           K == Asking(g)
           L(s) == Ascending(g[s])
           value(id) == Given(column, g[id[1]])[id[2]]
           there == {d \in ids : g[d[1]] \subseteq Visible}
<1>1. N \in Nat /\ 0 .. N - 1 \subseteq Slot /\ Len(column.vec) \in Nat
  <2>1. N \in Nat /\ 0 .. N - 1 \subseteq Slot
    BY NodesParts
  <2>2. Len(column.vec) \in Nat
    BY <2>1, NodesParts, FitsParts
  <2> QED  BY <2>1, <2>2
<1> HIDE DEF N
<1>2. BatchOf(g, N, ids)
  BY DEF N
<1>3. /\ \A id \in ids : id[1] \in K /\ id[2] \in g[id[1]]
      /\ PartitionIdsByShardId(ids) = [s \in K |-> L(s)]
  BY <1>1, <1>2, PartsAre
<1>4. \A s \in K : /\ g[s] \subseteq 0 .. N - 1 /\ g[s] # {} /\ g[s] \subseteq Slot
                   /\ Shards[s].nodes = nodes /\ Shards[s].column = column
  BY <1>1, <1>2 DEF Asking, BatchOf, Shards
<1>5. \A s \in K : ToSet(L(s)) = g[s]
  BY <1>1, <1>4, ListOfSlots
<1>6. \A s \in K : getPropertyOfMany(column, L(s)) = Given(column, g[s])
  <2>1. SUFFICES ASSUME NEW s \in K PROVE getPropertyOfMany(column, L(s)) = Given(column, g[s])
    OBVIOUS
  <2>2. PICK i \in g[s] : TRUE
    BY <1>4
  <2> QED  BY <1>1, <1>4, <2>2, GivenIsRead
<1>7. \A s \in K : ValidNodeIds(Shards[s], L(s)) <=> g[s] \subseteq Visible
  BY <1>4, <1>5 DEF ValidNodeIds, Visible
<1>8. \A s \in K : DOMAIN Given(column, g[s]) = g[s]
  BY DEF Given
<1> HIDE DEF K, L
<1>0. \A id \in ids : id[1] \in K /\ id[2] \in g[id[1]]
  BY <1>3
<1>9. DOMAIN Nothing = {}
  BY DEF Nothing
<1>10. \A s \in K : NodesGet(Shards[s], L(s)) =
          IF g[s] \subseteq Visible
          THEN [i \in g[s] |-> [id |-> i, key |-> KeyOf(nodes, i), value |-> Given(column, g[s])[i]]]
          ELSE Nothing
  BY <1>4, <1>5, <1>6, <1>7 DEF NodesGet, getNodes, getNodesProperties, getPropertiesOfMany
<1>11. \A s \in K : NodesGetProperties(Shards[s], L(s)) =
          IF g[s] \subseteq Visible THEN Given(column, g[s]) ELSE Nothing
  BY <1>4, <1>6, <1>7 DEF NodesGetProperties, getNodesProperties, getPropertiesOfMany
<1>12. \A s \in K : NodesGetProperty(Shards[s], L(s)) =
          IF g[s] \subseteq Visible
          THEN [i \in {j \in g[s] : Given(column, g[s])[j] # NoValue} |-> Given(column, g[s])[i]]
          ELSE Nothing
  BY <1>4, <1>5, <1>6, <1>7 DEF NodesGetProperty, getNodesProperty
<1>13. \A s \in K : NodesGetKey(Shards[s], L(s)) =
          [i \in g[s] |-> IF i \in Visible THEN KeyOf(nodes, i) ELSE NoKey]
  BY <1>4, <1>5 DEF NodesGetKey, Visible
<1>14. \A s \in K : NodesGetType(Shards[s], L(s)) = [i \in g[s] |-> i \in Visible]
  <2>1. SUFFICES ASSUME NEW s \in K PROVE NodesGetType(Shards[s], L(s)) = [i \in g[s] |-> i \in Visible]
    OBVIOUS
  <2>2. NodesGetType(Shards[s], L(s)) = [i \in g[s] |-> ValidNodeId(nodes, i)]
    BY <1>4, <1>5 DEF NodesGetType
  <2>3. \A i \in g[s] : ValidNodeId(nodes, i) = (i \in Visible)
    <3>1. g[s] \subseteq Slot
      BY <1>4
    <3>2. \A i \in g[s] : ValidNodeId(nodes, i) <=> i \in Visible
      BY <3>1 DEF Visible
    <3> QED  BY <3>2 DEF ValidNodeId
  <2> QED  BY <2>2, <2>3, Zenon
<1>15. \A s \in K : NodesGetPropertyOfLinks(Shards[s], L(s)) =
          [i \in g[s] |-> getNodeProperty(nodes, column, i)]
  BY <1>4, <1>5 DEF NodesGetPropertyOfLinks
<1>16. NodesGetPeered(Shards, ids) = [id \in there |-> [id |-> id[2], key |-> KeyOf(nodes, id[2]), value |-> value(id)]]
  <2> DEFINE answer == [s \in K |-> NodesGet(Shards[s], L(s))]
  <2>1. NodesGetPeered(Shards, ids) = Joined(ids, answer)
    BY <1>3 DEF NodesGetPeered, Combined, Joined
  <2>2. \A s \in K : answer[s] = NodesGet(Shards[s], L(s))
    OBVIOUS
  <2> HIDE DEF answer
  <2>3. ASSUME NEW id \in ids
        PROVE  /\ id[2] \in DOMAIN answer[id[1]] <=> g[id[1]] \subseteq Visible
               /\ g[id[1]] \subseteq Visible => answer[id[1]][id[2]] = [id |-> id[2], key |-> KeyOf(nodes, id[2]), value |-> value(id)]
    <3>1. id[1] \in K /\ id[2] \in g[id[1]]
      BY <1>0
    <3>2. answer[id[1]] = IF g[id[1]] \subseteq Visible
                     THEN [i \in g[id[1]] |-> [id |-> i, key |-> KeyOf(nodes, i), value |-> Given(column, g[id[1]])[i]]]
                     ELSE Nothing
      BY <1>10, <2>2, <3>1
    <3> QED  BY <1>8, <1>9, <3>1, <3>2
  <2> QED  BY <2>1, <2>3 DEF Joined
<1>17. NodesGetPropertiesPeered(Shards, ids) = [id \in there |-> value(id)]
  <2> DEFINE answer == [s \in K |-> NodesGetProperties(Shards[s], L(s))]
  <2>1. NodesGetPropertiesPeered(Shards, ids) = Joined(ids, answer)
    BY <1>3 DEF NodesGetPropertiesPeered, Combined, Joined
  <2>2. \A s \in K : answer[s] = NodesGetProperties(Shards[s], L(s))
    OBVIOUS
  <2> HIDE DEF answer
  <2>3. ASSUME NEW id \in ids
        PROVE  /\ id[2] \in DOMAIN answer[id[1]] <=> g[id[1]] \subseteq Visible
               /\ g[id[1]] \subseteq Visible => answer[id[1]][id[2]] = value(id)
    <3>1. id[1] \in K /\ id[2] \in g[id[1]]
      BY <1>0
    <3>2. answer[id[1]] = IF g[id[1]] \subseteq Visible THEN Given(column, g[id[1]]) ELSE Nothing
      BY <1>11, <2>2, <3>1
    <3> QED  BY <1>8, <1>9, <3>1, <3>2
  <2> QED  BY <2>1, <2>3 DEF Joined
<1>18. NodesGetPropertyPeered(Shards, ids) = [id \in {d \in there : value(d) # NoValue} |-> value(id)]
  <2> DEFINE answer == [s \in K |-> NodesGetProperty(Shards[s], L(s))]
  <2>1. NodesGetPropertyPeered(Shards, ids) = Joined(ids, answer)
    BY <1>3 DEF NodesGetPropertyPeered, Combined, Joined
  <2>2. \A s \in K : answer[s] = NodesGetProperty(Shards[s], L(s))
    OBVIOUS
  <2> HIDE DEF answer
  <2>3. ASSUME NEW id \in ids
        PROVE  /\ id[2] \in DOMAIN answer[id[1]] <=> (g[id[1]] \subseteq Visible /\ value(id) # NoValue)
               /\ (g[id[1]] \subseteq Visible /\ value(id) # NoValue) => answer[id[1]][id[2]] = value(id)
    <3>1. id[1] \in K /\ id[2] \in g[id[1]]
      BY <1>0
    <3>2. answer[id[1]] = IF g[id[1]] \subseteq Visible
                     THEN [i \in {j \in g[id[1]] : Given(column, g[id[1]])[j] # NoValue} |-> Given(column, g[id[1]])[i]]
                     ELSE Nothing
      BY <1>12, <2>2, <3>1
    <3> QED  BY <1>8, <1>9, <3>1, <3>2
  <2> QED  BY <2>1, <2>3 DEF Joined
<1>19. NodesGetKeyPeered(Shards, ids) = [id \in ids |-> (IF id[2] \in Visible THEN KeyOf(nodes, id[2]) ELSE NoKey)]
  <2> DEFINE answer == [s \in K |-> NodesGetKey(Shards[s], L(s))]
  <2>1. NodesGetKeyPeered(Shards, ids) = Joined(ids, answer)
    BY <1>3 DEF NodesGetKeyPeered, Combined, Joined
  <2>2. \A s \in K : answer[s] = NodesGetKey(Shards[s], L(s))
    OBVIOUS
  <2> HIDE DEF answer
  <2>3. ASSUME NEW id \in ids
        PROVE  /\ id[2] \in DOMAIN answer[id[1]] <=> TRUE
               /\ TRUE => answer[id[1]][id[2]] = (IF id[2] \in Visible THEN KeyOf(nodes, id[2]) ELSE NoKey)
    <3>1. id[1] \in K /\ id[2] \in g[id[1]]
      BY <1>0
    <3>2. answer[id[1]] = [i \in g[id[1]] |-> IF i \in Visible THEN KeyOf(nodes, i) ELSE NoKey]
      BY <1>13, <2>2, <3>1
    <3> QED  BY <1>8, <1>9, <3>1, <3>2
  <2> QED  BY <2>1, <2>3 DEF Joined
<1>20. NodesGetTypePeered(Shards, ids) = [id \in ids |-> (id[2] \in Visible)]
  <2> DEFINE answer == [s \in K |-> NodesGetType(Shards[s], L(s))]
  <2>1. NodesGetTypePeered(Shards, ids) = Joined(ids, answer)
    BY <1>3 DEF NodesGetTypePeered, Combined, Joined
  <2>2. \A s \in K : answer[s] = NodesGetType(Shards[s], L(s))
    OBVIOUS
  <2> HIDE DEF answer
  <2>3. ASSUME NEW id \in ids
        PROVE  /\ id[2] \in DOMAIN answer[id[1]] <=> TRUE
               /\ TRUE => answer[id[1]][id[2]] = (id[2] \in Visible)
    <3>1. id[1] \in K /\ id[2] \in g[id[1]]
      BY <1>0
    <3>2. answer[id[1]] = [i \in g[id[1]] |-> i \in Visible]
      BY <1>14, <2>2, <3>1
    <3> QED  BY <1>8, <1>9, <3>1, <3>2
  <2> QED  BY <2>1, <2>3 DEF Joined
<1>21. NodesGetPropertyOfLinksPeered(Shards, ids) = [id \in ids |-> getNodeProperty(nodes, column, id[2])]
  <2> DEFINE answer == [s \in K |-> NodesGetPropertyOfLinks(Shards[s], L(s))]
  <2>1. NodesGetPropertyOfLinksPeered(Shards, ids) = Joined(ids, answer)
    BY <1>3 DEF NodesGetPropertyOfLinksPeered, Combined, Joined
  <2>2. \A s \in K : answer[s] = NodesGetPropertyOfLinks(Shards[s], L(s))
    OBVIOUS
  <2> HIDE DEF answer
  <2>3. ASSUME NEW id \in ids
        PROVE  /\ id[2] \in DOMAIN answer[id[1]] <=> TRUE
               /\ TRUE => answer[id[1]][id[2]] = getNodeProperty(nodes, column, id[2])
    <3>1. id[1] \in K /\ id[2] \in g[id[1]]
      BY <1>0
    <3>2. answer[id[1]] = [i \in g[id[1]] |-> getNodeProperty(nodes, column, i)]
      BY <1>15, <2>2, <3>1
    <3> QED  BY <1>8, <1>9, <3>1, <3>2
  <2> QED  BY <2>1, <2>3 DEF Joined
<1> QED  BY <1>16, <1>17, <1>18, <1>19, <1>20, <1>21 DEF NodesAnswer

\* What a batch of two shards answers about nodes is what each node answers when asked alone.
LEMMA NodesBatch == NodesHold => BatchReadsAgree
<1> SUFFICES ASSUME NodesHold PROVE BatchReadsAgree
  OBVIOUS
<1> DEFINE N == Len(nodes.keys)
<1>1. /\ N \in Nat /\ SlotsOf(nodes) = 0 .. N - 1 /\ 0 .. N - 1 \subseteq Slot
      /\ Len(column.vec) \in Nat
  <2>1. N \in Nat /\ SlotsOf(nodes) = 0 .. N - 1 /\ 0 .. N - 1 \subseteq Slot
    BY NodesParts
  <2>2. Len(column.vec) \in Nat
    BY <2>1, NodesParts, FitsParts
  <2> QED  BY <2>1, <2>2
<1>2. \A i \in Visible : KeyOf(nodes, i) \in Key /\ nodes.keyToNodeId[KeyOf(nodes, i)] = i
  <2>1. Visible \subseteq LiveSlots(nodes)
    BY NodesParts, ValidIsLive DEF Visible
  <2> QED  BY <2>1 DEF NodesHold, WellFormed, SlotsAgree, LiveSlotsAreNamed
<1> HIDE DEF N
<1> SUFFICES ASSUME NEW slots \in SUBSET SlotsOf(nodes)
    PROVE  LET group == [s \in 0 .. 1 |-> IF s = 0 THEN slots ELSE SlotsOf(nodes) \ slots]
               ids   == UNION {{s} \X group[s] : s \in 0 .. 1}
               read  == [id \in ids |-> IF id[2] \in Visible THEN getProperties(column, id[2]) ELSE NoValue]
               whole == {s \in 0 .. 1 : group[s] # {} /\ group[s] \subseteq Visible}
               full  == {s \in whole : read[<<s, Max(group[s])>>] # NoValue}
               answered == {id \in ids : id[1] \in whole}
               found    == NodesGetPeered(Shards, ids)
               values   == NodesGetPropertyPeered(Shards, ids)
               ends     == [n \in 1 .. Cardinality(slots) |-> <<0, Ascending(slots)[n]>>]
           IN  /\ DOMAIN found = answered
               /\ NodesGetPropertiesPeered(Shards, ids) = [id \in answered |-> found[id].value]
               /\ DOMAIN values \subseteq answered
               /\ \A id \in answered :
                     /\ found[id].id = id[2] /\ nodes.keyToNodeId[found[id].key] = id[2]
                     /\ found[id].value \in {read[id], NoValue}
                     /\ found[id].value = IF id \in DOMAIN values THEN values[id] ELSE NoValue
                     /\ id[1] \in full => found[id].value = read[id]
               /\ \A id \in ids : LET key == NodesGetKeyPeered(Shards, ids)[id] IN
                     IF id[2] \in Visible THEN nodes.keyToNodeId[key] = id[2] ELSE key = NoKey
               /\ NodesGetTypePeered(Shards, ids) = [id \in ids |-> id[2] \in Visible]
               /\ NodesGetPropertyOfLinksPeered(Shards, ids)
                     = IF column.kind = "integer_list" THEN [id \in ids |-> NoValue] ELSE read
               /\ 0 \in whole =>
                     NodeIdsGetNeighborsPeered(Shards, [id \in ids |-> ends])
                         = [id \in ids |-> [n \in DOMAIN ends |-> found[ends[n]]]]
  BY Zenon DEF BatchReadsAgree
<1> DEFINE group == [s \in 0 .. 1 |-> IF s = 0 THEN slots ELSE SlotsOf(nodes) \ slots]
           ids   == UNION {{s} \X group[s] : s \in 0 .. 1}
           read  == [id \in ids |-> IF id[2] \in Visible THEN getProperties(column, id[2]) ELSE NoValue]
           whole == {s \in 0 .. 1 : group[s] # {} /\ group[s] \subseteq Visible}
           full  == {s \in whole : read[<<s, Max(group[s])>>] # NoValue}
           answered == {id \in ids : id[1] \in whole}
           found    == NodesGetPeered(Shards, ids)
           values   == NodesGetPropertyPeered(Shards, ids)
           ends     == [n \in 1 .. Cardinality(slots) |-> <<0, Ascending(slots)[n]>>]
           value(id) == Given(column, group[id[1]])[id[2]]
<1>3. BatchOf(group, N, ids)
  BY <1>1 DEF BatchOf
<1>4. /\ \A s \in 0 .. 1 : group[s] \subseteq 0 .. N - 1
      /\ group[0] = slots
  BY <1>1
<1>5. \A s \in 0 .. 1 : \A i \in group[s] : <<s, i>> \in ids
  OBVIOUS
<1>6. \A id \in ids : id[1] \in 0 .. 1 /\ id[2] \in group[id[1]] /\ group[id[1]] # {}
  OBVIOUS
<1>7. NodesAnswer(group, ids)
  BY <1>3, NodesAnswers DEF N
<1> HIDE DEF group, ids
<1>8. {d \in ids : group[d[1]] \subseteq Visible} = answered
  BY <1>6
<1>9. /\ found = [id \in answered |-> [id |-> id[2], key |-> KeyOf(nodes, id[2]), value |-> value(id)]]
      /\ NodesGetPropertiesPeered(Shards, ids) = [id \in answered |-> value(id)]
      /\ values = [id \in {d \in answered : value(d) # NoValue} |-> value(id)]
      /\ NodesGetKeyPeered(Shards, ids) =
            [id \in ids |-> IF id[2] \in Visible THEN KeyOf(nodes, id[2]) ELSE NoKey]
      /\ NodesGetTypePeered(Shards, ids) = [id \in ids |-> id[2] \in Visible]
      /\ NodesGetPropertyOfLinksPeered(Shards, ids) = [id \in ids |-> getNodeProperty(nodes, column, id[2])]
  BY <1>7, <1>8, Zenon DEF NodesAnswer
<1>16. NodesGetPropertyOfLinksPeered(Shards, ids)
          = IF column.kind = "integer_list" THEN [id \in ids |-> NoValue] ELSE read
  <2>1. \A i \in Slot : getNodeProperty(nodes, column, i)
            = IF i \in Visible
              THEN IF column.kind = "integer_list" THEN NoValue ELSE getProperties(column, i)
              ELSE NoValue
    BY SingleRead DEF getNodeProperty, Visible
  <2>2. \A id \in ids : id[2] \in Slot
    BY <1>1, <1>4, <1>6
  <2> HIDE DEF read
  <2>3. CASE column.kind = "integer_list"
    <3>1. \A id \in ids : getNodeProperty(nodes, column, id[2]) = NoValue
      BY <2>1, <2>2, <2>3
    <3> QED  BY <1>9, <2>3, <3>1
  <2>4. CASE column.kind # "integer_list"
    <3>1. \A id \in ids : getNodeProperty(nodes, column, id[2])
              = IF id[2] \in Visible THEN getProperties(column, id[2]) ELSE NoValue
      BY <2>1, <2>2, <2>4
    <3>2. read = [id \in ids |-> getNodeProperty(nodes, column, id[2])]
      BY <3>1 DEF read
    <3> QED  BY <1>9, <2>4, <3>2
  <2> QED  BY <2>3, <2>4
<1>10. \A s \in whole : s \in 0 .. 1 /\ group[s] # {} /\ group[s] \subseteq Visible
  OBVIOUS
<1>11. ASSUME NEW id \in answered
       PROVE  /\ id[2] \in Visible
              /\ value(id) \in {read[id], NoValue}
              /\ id[1] \in full => value(id) = read[id]
  <2>1. id[1] \in whole /\ id[2] \in group[id[1]] /\ id \in ids
    BY <1>6
  <2>2. id[2] \in Visible /\ group[id[1]] \subseteq Visible /\ id[1] \in 0 .. 1
    BY <1>10, <2>1
  <2>4. read[id] = getProperties(column, id[2])
    BY <2>1, <2>2
  <2>5. /\ value(id) \in {getProperties(column, id[2]), NoValue}
        /\ getProperties(column, Max(group[id[1]])) # NoValue => value(id) = getProperties(column, id[2])
    <3> DEFINE S == group[id[1]]
               i == id[2]
    <3>1. S \subseteq 0 .. N - 1 /\ S # {} /\ i \in S
      BY <1>4, <2>1, <2>2
    <3> HIDE DEF S, i
    <3>2. /\ Given(column, S)[i] \in {getProperties(column, i), NoValue}
          /\ getProperties(column, Max(S)) # NoValue => Given(column, S)[i] = getProperties(column, i)
      <4>1. ReadOrNothing(column, S, i)
        BY <1>1, <3>1, GivenIsRead
      <4> QED  BY <4>1 DEF ReadOrNothing
    <3> QED  BY <3>2 DEF S, i
  <2>6. id[1] \in full => getProperties(column, Max(group[id[1]])) # NoValue
    <3>1. Max(group[id[1]]) \in group[id[1]]
      BY <1>1, <1>4, <2>1, <2>2, ListOfSlots
    <3>2. read[<<id[1], Max(group[id[1]])>>] = getProperties(column, Max(group[id[1]]))
      BY <1>5, <2>2, <3>1
    <3> QED  BY <3>2
  <2> QED  BY <2>2, <2>4, <2>5, <2>6
<1> HIDE DEF value, read, whole, found, values, full
<1>12. DOMAIN found = answered /\ DOMAIN values \subseteq answered
       /\ NodesGetPropertiesPeered(Shards, ids) = [id \in answered |-> found[id].value]
  BY <1>9
<1>13. ASSUME NEW id \in answered
       PROVE  /\ found[id].id = id[2] /\ nodes.keyToNodeId[found[id].key] = id[2]
              /\ found[id].value \in {read[id], NoValue}
              /\ found[id].value = IF id \in DOMAIN values THEN values[id] ELSE NoValue
              /\ id[1] \in full => found[id].value = read[id]
  <2>1. found[id].id = id[2] /\ found[id].key = KeyOf(nodes, id[2]) /\ found[id].value = value(id)
    BY <1>9
  <2>2. value(id) = IF id \in DOMAIN values THEN values[id] ELSE NoValue
    BY <1>9
  <2> QED  BY <1>2, <1>11, <2>1, <2>2
<1>14. ASSUME NEW id \in ids
       PROVE  LET key == NodesGetKeyPeered(Shards, ids)[id]
              IN  IF id[2] \in Visible THEN nodes.keyToNodeId[key] = id[2] ELSE key = NoKey
  BY <1>2, <1>9
<1>15. ASSUME 0 \in whole
       PROVE  NodeIdsGetNeighborsPeered(Shards, [id \in ids |-> ends])
                  = [id \in ids |-> [n \in DOMAIN ends |-> found[ends[n]]]]
  <2> DEFINE links == [id \in ids |-> ends]
             asked == UNION {ToSet(links[id]) : id \in DOMAIN links}
             only  == [s \in 0 .. 1 |-> IF s = 0 THEN slots ELSE {}]
             got   == NodesGetPeered(Shards, asked)
  <2>1. slots # {} /\ slots \subseteq Visible /\ slots \subseteq 0 .. N - 1
    BY <1>4, <1>10, <1>15
  <2>2. /\ DOMAIN ends = 1 .. Cardinality(slots)
        /\ \A n \in DOMAIN ends : \E i \in slots : ends[n] = <<0, i>>
        /\ \A i \in slots : \E n \in DOMAIN ends : ends[n] = <<0, i>>
    <3>1. /\ Ascending(slots) \in [1 .. Cardinality(slots) -> slots]
          /\ \A i \in slots : \E n \in 1 .. Cardinality(slots) : Ascending(slots)[n] = i
      BY <1>1, <2>1, AscendingLists
    <3> QED  BY <3>1
  <2> HIDE DEF ends
  <2> DEFINE first == {0} \X slots
  <2>18. /\ \A p \in first : \E i \in slots : p = <<0, i>>
         /\ \A i \in slots : <<0, i>> \in first
    OBVIOUS
  <2> HIDE DEF first
  <2>3. ToSet(ends) = first
    <3>1. \A n \in DOMAIN ends : ends[n] \in first
      BY <2>2, <2>18
    <3>2. ASSUME NEW p \in first PROVE \E n \in DOMAIN ends : ends[n] = p
      <4>1. PICK i \in slots : p = <<0, i>>
        BY <2>18
      <4> QED  BY <2>2, <4>1
    <3> QED  BY <3>1, <3>2, Zenon DEF ToSet
  <2>4. \E id \in ids : TRUE
    <3>1. PICK i \in slots : TRUE
      BY <2>1
    <3>2. <<0, i>> \in ids
      BY <1>4, <1>5
    <3> QED  BY <3>2
  <2>5. asked = first
    BY <2>3, <2>4
  <2>6. asked = UNION {{s} \X only[s] : s \in 0 .. 1}
    BY <2>5 DEF first
  <2>7. BatchOf(only, N, asked)
    BY <2>1, <2>6 DEF BatchOf
  <2>8. NodesAnswer(only, asked)
    BY <2>7, NodesAnswers DEF N
  <2>9. only[0] = slots /\ group[0] = slots
    BY <1>4
  <2> HIDE DEF asked, only
  <2>10. \A d \in asked : d[1] = 0 /\ d[2] \in slots
    BY <2>5 DEF first
  <2>11. {d \in asked : only[d[1]] \subseteq Visible} = asked
    BY <2>1, <2>9, <2>10
  <2>12. got = [id \in asked |-> [id |-> id[2], key |-> KeyOf(nodes, id[2]), value |-> Given(column, only[id[1]])[id[2]]]]
    BY <2>8, <2>11 DEF NodesAnswer
  <2>13. ASSUME NEW d \in asked PROVE d \in answered /\ got[d] = found[d]
    <3>1. d \in ids
      BY <1>4, <1>5, <2>5 DEF first
    <3>2. d \in answered
      BY <1>15, <2>10, <3>1
    <3>3. Given(column, only[d[1]])[d[2]] = value(d)
      BY <2>9, <2>10 DEF value
    <3> QED  BY <1>9, <2>12, <3>2, <3>3
  <2> HIDE DEF got
  <2>14. DOMAIN got = asked
    BY <2>12
  <2>15. \A id \in ids : links[id] = ends
    OBVIOUS
  <2>16. \A n \in DOMAIN ends : ends[n] \in asked
    BY <2>2, <2>5, <2>18
  <2>17. NodeIdsGetNeighborsPeered(Shards, links) = [id \in ids |-> [n \in DOMAIN ends |-> got[ends[n]]]]
    BY <2>14, <2>16 DEF NodeIdsGetNeighborsPeered, got, asked
  <2> QED  BY <2>13, <2>16, <2>17
<1> QED  BY <1>9, <1>12, <1>13, <1>14, <1>15, <1>16, Zenon DEF group, ids, read, whole, full, found, values

\* The readers of RelationshipReads take the columns' part from the same functions.
LEMMA SameReads ==
    /\ \A c, ids : R!getPropertyOfMany(c, ids) = getPropertyOfMany(c, ids)
    /\ \A ids : R!PartitionIdsByShardId(ids) = PartitionIdsByShardId(ids)
    /\ \A S : R!Max(S) = Max(S)
<1>1. \A c, ids : R!getPropertyOfMany(c, ids) = getPropertyOfMany(c, ids)
  BY SameWriters, SameSearches DEF R!getPropertyOfMany, getPropertyOfMany, R!Covers, Covers
<1>2. \A ids : R!PartitionIdsByShardId(ids) = PartitionIdsByShardId(ids)
  BY SameSearches DEF R!PartitionIdsByShardId, PartitionIdsByShardId
<1>3. \A S : R!Max(S) = Max(S)
  BY DEF R!Max, Max
<1> QED  BY <1>1, <1>2, <1>3

\* The relationships the shard calls valid.
ValidRels == {i \in R!RelSlot : R!ValidRelationshipId(rels, i)}

\* What the relationships' readers of a batch answer, together.
RelsAnswer(g, ids) ==
    LET there == {d \in ids : g[d[1]] \subseteq ValidRels}
        value(id) == Given(relColumn, g[id[1]])[id[2]]
    IN  /\ R!RelationshipsGetPeered(R!Shards, ids) =
              [id \in ids |-> R!RelationshipGet([rels |-> rels, column |-> relColumn], id[2])]
        /\ R!RelationshipsGetTypePeered(R!Shards, ids) = [id \in ids |-> id[2] \in ValidRels]
        /\ R!RelationshipsGetTypeIdPeered(R!Shards, ids) = [id \in there |-> TRUE]
        /\ R!RelationshipsGetPropertiesPeered(R!Shards, ids) = [id \in there |-> value(id)]
        /\ R!RelationshipsGetPropertyPeered(R!Shards, ids) =
              [id \in {d \in there : value(d) # NoValue} |-> value(id)]

\* Every shard answers for its group alone.
LEMMA RelsAnswers ==
    ASSUME RelsHold, NEW g, NEW ids, BatchOf(g, Len(rels.ends), ids)
    PROVE  RelsAnswer(g, ids)
<1> DEFINE N == Len(rels.ends)
           K == Asking(g)
           L(s) == Ascending(g[s])
           sh == [rels |-> rels, column |-> relColumn]
           value(id) == Given(relColumn, g[id[1]])[id[2]]
           there == {d \in ids : g[d[1]] \subseteq ValidRels}
<1>1. N \in Nat /\ 0 .. N - 1 \subseteq R!RelSlot /\ Len(relColumn.vec) \in Nat
  <2>1. N \in Nat /\ 0 .. N - 1 \subseteq R!RelSlot
    BY RelsParts
  <2>2. Len(relColumn.vec) \in Nat
    BY <2>1, RelsParts, FitsParts
  <2> QED  BY <2>1, <2>2
<1> HIDE DEF N
<1>2. BatchOf(g, N, ids)
  BY DEF N
<1>3. /\ \A id \in ids : id[1] \in K /\ id[2] \in g[id[1]]
      /\ R!PartitionIdsByShardId(ids) = [s \in K |-> L(s)]
  BY <1>1, <1>2, PartsAre, SameReads
<1>4. \A s \in K : /\ g[s] \subseteq 0 .. N - 1 /\ g[s] # {} /\ g[s] \subseteq R!RelSlot
                   /\ R!Shards[s] = sh
  BY <1>1, <1>2 DEF Asking, BatchOf, R!Shards
<1>5. \A s \in K : R!ToSet(L(s)) = g[s]
  BY <1>1, <1>4, ListOfSlots, SameSearches
<1>6. \A s \in K : R!getPropertyOfMany(relColumn, L(s)) = Given(relColumn, g[s])
  <2>1. SUFFICES ASSUME NEW s \in K PROVE getPropertyOfMany(relColumn, L(s)) = Given(relColumn, g[s])
    BY SameReads
  <2>2. PICK i \in g[s] : TRUE
    BY <1>4
  <2> QED  BY <1>1, <1>4, <2>2, GivenIsRead
<1>7. \A s \in K : R!ValidRelationshipIds(sh, L(s)) <=> g[s] \subseteq ValidRels
  BY <1>4, <1>5 DEF R!ValidRelationshipIds, ValidRels
<1>8. \A s \in K : DOMAIN Given(relColumn, g[s]) = g[s]
  BY DEF Given
<1> HIDE DEF K, L
<1>0. \A id \in ids : id[1] \in K /\ id[2] \in g[id[1]]
  BY <1>3
<1>9. DOMAIN R!Nothing = {}
  BY DEF R!Nothing
<1>10. \A s \in K : R!RelationshipsGet(sh, L(s)) = [i \in g[s] |-> R!RelationshipGet(sh, i)]
  BY <1>5 DEF R!RelationshipsGet
<1>11. \A s \in K : R!RelationshipsGetProperties(sh, L(s)) =
          IF g[s] \subseteq ValidRels THEN Given(relColumn, g[s]) ELSE R!Nothing
  BY <1>6, <1>7 DEF R!RelationshipsGetProperties, R!getRelationshipsProperties, R!getPropertiesOfMany
<1>12. \A s \in K : R!RelationshipsGetProperty(sh, L(s)) =
          IF g[s] \subseteq ValidRels
          THEN [i \in {j \in g[s] : Given(relColumn, g[s])[j] # NoValue} |-> Given(relColumn, g[s])[i]]
          ELSE R!Nothing
  BY <1>5, <1>6, <1>7, SameWriters DEF R!RelationshipsGetProperty, R!getRelationshipsProperty
<1>13. \A s \in K : R!RelationshipsGetTypeId(sh, L(s)) =
          IF g[s] \subseteq ValidRels THEN [i \in g[s] |-> TRUE] ELSE R!Nothing
  BY <1>5, <1>7 DEF R!RelationshipsGetTypeId
<1>14. \A s \in K : R!RelationshipsGetType(sh, L(s)) = [i \in g[s] |-> i \in ValidRels]
  <2>1. SUFFICES ASSUME NEW s \in K PROVE R!RelationshipsGetType(sh, L(s)) = [i \in g[s] |-> i \in ValidRels]
    OBVIOUS
  <2>2. R!RelationshipsGetType(sh, L(s)) = [i \in g[s] |-> R!ValidRelationshipId(rels, i)]
    BY <1>4, <1>5 DEF R!RelationshipsGetType
  <2>3. \A i \in g[s] : R!ValidRelationshipId(rels, i) = (i \in ValidRels)
    <3>1. g[s] \subseteq R!RelSlot
      BY <1>4
    <3>2. \A i \in g[s] : R!ValidRelationshipId(rels, i) <=> i \in ValidRels
      BY <3>1 DEF ValidRels
    <3> QED  BY <3>2 DEF R!ValidRelationshipId
  <2> QED  BY <2>2, <2>3, Zenon
<1> HIDE DEF sh
<1>16. R!RelationshipsGetPeered(R!Shards, ids) = [id \in ids |-> R!RelationshipGet(sh, id[2])]
  <2> DEFINE answer == [s \in K |-> R!RelationshipsGet(R!Shards[s], L(s))]
  <2>1. R!RelationshipsGetPeered(R!Shards, ids) = Joined(ids, answer)
    BY <1>3 DEF R!RelationshipsGetPeered, R!Combined, Joined
  <2>2. \A s \in K : answer[s] = R!RelationshipsGet(sh, L(s))
    BY <1>4
  <2> HIDE DEF answer
  <2>3. ASSUME NEW id \in ids
        PROVE  /\ id[2] \in DOMAIN answer[id[1]] <=> TRUE
               /\ TRUE => answer[id[1]][id[2]] = R!RelationshipGet(sh, id[2])
    <3>1. id[1] \in K /\ id[2] \in g[id[1]]
      BY <1>0
    <3>2. answer[id[1]] = [i \in g[id[1]] |-> R!RelationshipGet(sh, i)]
      BY <1>10, <2>2, <3>1
    <3> QED  BY <1>8, <1>9, <3>1, <3>2
  <2> QED  BY <2>1, <2>3 DEF Joined
<1>17. R!RelationshipsGetTypePeered(R!Shards, ids) = [id \in ids |-> (id[2] \in ValidRels)]
  <2> DEFINE answer == [s \in K |-> R!RelationshipsGetType(R!Shards[s], L(s))]
  <2>1. R!RelationshipsGetTypePeered(R!Shards, ids) = Joined(ids, answer)
    BY <1>3 DEF R!RelationshipsGetTypePeered, R!Combined, Joined
  <2>2. \A s \in K : answer[s] = R!RelationshipsGetType(sh, L(s))
    BY <1>4
  <2> HIDE DEF answer
  <2>3. ASSUME NEW id \in ids
        PROVE  /\ id[2] \in DOMAIN answer[id[1]] <=> TRUE
               /\ TRUE => answer[id[1]][id[2]] = (id[2] \in ValidRels)
    <3>1. id[1] \in K /\ id[2] \in g[id[1]]
      BY <1>0
    <3>2. answer[id[1]] = [i \in g[id[1]] |-> i \in ValidRels]
      BY <1>14, <2>2, <3>1
    <3> QED  BY <1>8, <1>9, <3>1, <3>2
  <2> QED  BY <2>1, <2>3 DEF Joined
<1>18. R!RelationshipsGetTypeIdPeered(R!Shards, ids) = [id \in there |-> TRUE]
  <2> DEFINE answer == [s \in K |-> R!RelationshipsGetTypeId(R!Shards[s], L(s))]
  <2>1. R!RelationshipsGetTypeIdPeered(R!Shards, ids) = Joined(ids, answer)
    BY <1>3 DEF R!RelationshipsGetTypeIdPeered, R!Combined, Joined
  <2>2. \A s \in K : answer[s] = R!RelationshipsGetTypeId(sh, L(s))
    BY <1>4
  <2> HIDE DEF answer
  <2>3. ASSUME NEW id \in ids
        PROVE  /\ id[2] \in DOMAIN answer[id[1]] <=> g[id[1]] \subseteq ValidRels
               /\ g[id[1]] \subseteq ValidRels => answer[id[1]][id[2]] = TRUE
    <3>1. id[1] \in K /\ id[2] \in g[id[1]]
      BY <1>0
    <3>2. answer[id[1]] = IF g[id[1]] \subseteq ValidRels THEN [i \in g[id[1]] |-> TRUE] ELSE R!Nothing
      BY <1>13, <2>2, <3>1
    <3> QED  BY <1>8, <1>9, <3>1, <3>2
  <2> QED  BY <2>1, <2>3 DEF Joined
<1>19. R!RelationshipsGetPropertiesPeered(R!Shards, ids) = [id \in there |-> value(id)]
  <2> DEFINE answer == [s \in K |-> R!RelationshipsGetProperties(R!Shards[s], L(s))]
  <2>1. R!RelationshipsGetPropertiesPeered(R!Shards, ids) = Joined(ids, answer)
    BY <1>3 DEF R!RelationshipsGetPropertiesPeered, R!Combined, Joined
  <2>2. \A s \in K : answer[s] = R!RelationshipsGetProperties(sh, L(s))
    BY <1>4
  <2> HIDE DEF answer
  <2>3. ASSUME NEW id \in ids
        PROVE  /\ id[2] \in DOMAIN answer[id[1]] <=> g[id[1]] \subseteq ValidRels
               /\ g[id[1]] \subseteq ValidRels => answer[id[1]][id[2]] = value(id)
    <3>1. id[1] \in K /\ id[2] \in g[id[1]]
      BY <1>0
    <3>2. answer[id[1]] = IF g[id[1]] \subseteq ValidRels THEN Given(relColumn, g[id[1]]) ELSE R!Nothing
      BY <1>11, <2>2, <3>1
    <3> QED  BY <1>8, <1>9, <3>1, <3>2
  <2> QED  BY <2>1, <2>3 DEF Joined
<1>20. R!RelationshipsGetPropertyPeered(R!Shards, ids) = [id \in {d \in there : value(d) # NoValue} |-> value(id)]
  <2> DEFINE answer == [s \in K |-> R!RelationshipsGetProperty(R!Shards[s], L(s))]
  <2>1. R!RelationshipsGetPropertyPeered(R!Shards, ids) = Joined(ids, answer)
    BY <1>3 DEF R!RelationshipsGetPropertyPeered, R!Combined, Joined
  <2>2. \A s \in K : answer[s] = R!RelationshipsGetProperty(sh, L(s))
    BY <1>4
  <2> HIDE DEF answer
  <2>3. ASSUME NEW id \in ids
        PROVE  /\ id[2] \in DOMAIN answer[id[1]] <=> (g[id[1]] \subseteq ValidRels /\ value(id) # NoValue)
               /\ (g[id[1]] \subseteq ValidRels /\ value(id) # NoValue) => answer[id[1]][id[2]] = value(id)
    <3>1. id[1] \in K /\ id[2] \in g[id[1]]
      BY <1>0
    <3>2. answer[id[1]] = IF g[id[1]] \subseteq ValidRels
                     THEN [i \in {j \in g[id[1]] : Given(relColumn, g[id[1]])[j] # NoValue}
                              |-> Given(relColumn, g[id[1]])[i]]
                     ELSE R!Nothing
      BY <1>12, <2>2, <3>1
    <3> QED  BY <1>8, <1>9, <3>1, <3>2
  <2> QED  BY <2>1, <2>3 DEF Joined
<1> QED  BY <1>16, <1>17, <1>18, <1>19, <1>20 DEF RelsAnswer, sh

\* And so for the relationships.
LEMMA RelsBatch == RelsHold => R!BatchReadsAgree
<1> SUFFICES ASSUME RelsHold PROVE R!BatchReadsAgree
  OBVIOUS
<1> DEFINE N == Len(rels.ends)
<1>1. /\ N \in Nat /\ R!RelSlotsOf(rels) = 0 .. N - 1 /\ Len(relColumn.vec) \in Nat
  <2>1. N \in Nat /\ R!RelSlotsOf(rels) = 0 .. N - 1
    BY RelsParts DEF R!RelSlotsOf
  <2>2. Len(relColumn.vec) \in Nat
    BY <2>1, RelsParts, FitsParts
  <2> QED  BY <2>1, <2>2
<1> HIDE DEF N
<1> SUFFICES ASSUME NEW slots \in SUBSET R!RelSlotsOf(rels)
    PROVE  LET group == [s \in 0 .. 1 |-> IF s = 0 THEN slots ELSE R!RelSlotsOf(rels) \ slots]
               ids   == UNION {{s} \X group[s] : s \in 0 .. 1}
               live  == {i \in R!RelSlot : R!ValidRelationshipId(rels, i)}
               read  == [id \in ids |-> IF id[2] \in live THEN R!getProperties(relColumn, id[2]) ELSE NoValue]
               whole == {s \in 0 .. 1 : group[s] # {} /\ group[s] \subseteq live}
               full  == {s \in whole : read[<<s, R!Max(group[s])>>] # NoValue}
               answered == {id \in ids : id[1] \in whole}
               found    == R!RelationshipsGetPeered(R!Shards, ids)
               values   == R!RelationshipsGetPropertyPeered(R!Shards, ids)
           IN  /\ \A id \in ids : IF id[2] \in live
                                  THEN found[id] = R!getRelationship(rels, relColumn, id[2])
                                  ELSE found[id] = R!Nothing
               /\ R!RelationshipsGetTypePeered(R!Shards, ids) = [id \in ids |-> id[2] \in live]
               /\ DOMAIN R!RelationshipsGetTypeIdPeered(R!Shards, ids) = answered
               /\ DOMAIN R!RelationshipsGetPropertiesPeered(R!Shards, ids) = answered
               /\ \A id \in answered : id[1] \in full =>
                     R!RelationshipsGetPropertiesPeered(R!Shards, ids)[id] = read[id]
               /\ \A id \in DOMAIN values : id \in answered /\ values[id] = read[id]
  BY DEF R!BatchReadsAgree
<1> DEFINE group == [s \in 0 .. 1 |-> IF s = 0 THEN slots ELSE R!RelSlotsOf(rels) \ slots]
           ids   == UNION {{s} \X group[s] : s \in 0 .. 1}
           live  == {i \in R!RelSlot : R!ValidRelationshipId(rels, i)}
           read  == [id \in ids |-> IF id[2] \in live THEN R!getProperties(relColumn, id[2]) ELSE NoValue]
           whole == {s \in 0 .. 1 : group[s] # {} /\ group[s] \subseteq live}
           full  == {s \in whole : read[<<s, R!Max(group[s])>>] # NoValue}
           answered == {id \in ids : id[1] \in whole}
           found    == R!RelationshipsGetPeered(R!Shards, ids)
           values   == R!RelationshipsGetPropertyPeered(R!Shards, ids)
           value(id) == Given(relColumn, group[id[1]])[id[2]]
<1>2. live = ValidRels
  BY DEF ValidRels
<1>3. BatchOf(group, N, ids)
  BY <1>1 DEF BatchOf
<1>4. \A s \in 0 .. 1 : group[s] \subseteq 0 .. N - 1
  BY <1>1
<1>5. \A s \in 0 .. 1 : \A i \in group[s] : <<s, i>> \in ids
  OBVIOUS
<1>6. \A id \in ids : id[1] \in 0 .. 1 /\ id[2] \in group[id[1]] /\ group[id[1]] # {}
  OBVIOUS
<1>7. RelsAnswer(group, ids)
  BY <1>3, RelsAnswers DEF N
<1> HIDE DEF group, ids, live
<1>8. {d \in ids : group[d[1]] \subseteq ValidRels} = answered
  BY <1>2, <1>6
<1>9. /\ found = [id \in ids |-> R!RelationshipGet([rels |-> rels, column |-> relColumn], id[2])]
      /\ R!RelationshipsGetTypePeered(R!Shards, ids) = [id \in ids |-> id[2] \in live]
      /\ R!RelationshipsGetTypeIdPeered(R!Shards, ids) = [id \in answered |-> TRUE]
      /\ R!RelationshipsGetPropertiesPeered(R!Shards, ids) = [id \in answered |-> value(id)]
      /\ values = [id \in {d \in answered : value(d) # NoValue} |-> value(id)]
  BY <1>2, <1>7, <1>8, Zenon DEF RelsAnswer
<1>10. \A s \in whole : s \in 0 .. 1 /\ group[s] # {} /\ group[s] \subseteq live
  OBVIOUS
<1>11. \A i \in live : R!ValidRelationshipId(rels, i) /\ R!getProperties(relColumn, i) = getProperties(relColumn, i)
  BY SameWriters DEF live
<1>12. ASSUME NEW id \in ids
       PROVE  IF id[2] \in live THEN found[id] = R!getRelationship(rels, relColumn, id[2])
              ELSE found[id] = R!Nothing
  <2>1. found[id] = R!RelationshipGet([rels |-> rels, column |-> relColumn], id[2])
    BY <1>9
  <2>2. id[2] \in R!RelSlot
    BY <1>1, <1>4, <1>6, RelsParts DEF N
  <2>3. id[2] \in live <=> R!ValidRelationshipId(rels, id[2])
    BY <2>2 DEF live
  <2> QED  BY <2>1, <2>3 DEF R!RelationshipGet
<1>13. ASSUME NEW id \in answered
       PROVE  /\ value(id) \in {read[id], NoValue}
              /\ id[1] \in full => value(id) = read[id]
  <2>1. id[1] \in whole /\ id[2] \in group[id[1]] /\ id \in ids
    BY <1>6
  <2>2. id[2] \in live /\ group[id[1]] \subseteq live /\ id[1] \in 0 .. 1
    BY <1>10, <2>1
  <2>3. read[id] = getProperties(relColumn, id[2])
    BY <1>11, <2>1, <2>2
  <2> DEFINE S == group[id[1]]
             i == id[2]
  <2>4. S \subseteq 0 .. N - 1 /\ S # {} /\ i \in S
    BY <1>4, <2>1, <2>2
  <2>5. /\ Given(relColumn, S)[i] \in {getProperties(relColumn, i), NoValue}
        /\ getProperties(relColumn, Max(S)) # NoValue => Given(relColumn, S)[i] = getProperties(relColumn, i)
    <3> HIDE DEF S, i
    <3>1. ReadOrNothing(relColumn, S, i)
      BY <1>1, <2>4, GivenIsRead
    <3> QED  BY <3>1 DEF ReadOrNothing
  <2>6. id[1] \in full => getProperties(relColumn, Max(S)) # NoValue
    <3>1. Max(S) \in S
      <4> HIDE DEF S, i
      <4> QED  BY <1>1, <2>4, ListOfSlots
    <3>2. read[<<id[1], Max(S)>>] = getProperties(relColumn, Max(S))
      BY <1>5, <1>11, <2>2, <3>1
    <3> QED  BY <3>2, SameReads
  <2> QED  BY <2>3, <2>5, <2>6
<1> HIDE DEF value, read, whole, found, values, full
<1>14. \A id \in answered : id[1] \in full =>
          R!RelationshipsGetPropertiesPeered(R!Shards, ids)[id] = read[id]
  BY <1>9, <1>13
<1>15. \A id \in DOMAIN values : id \in answered /\ values[id] = read[id]
  BY <1>9, <1>13
<1>16. /\ DOMAIN R!RelationshipsGetTypeIdPeered(R!Shards, ids) = answered
       /\ DOMAIN R!RelationshipsGetPropertiesPeered(R!Shards, ids) = answered
  BY <1>9
<1> QED  BY <1>9, <1>12, <1>14, <1>15, <1>16, Zenon DEF group, ids, live, read, whole, full, found, values

-----------------------------------------------------------------------------
(* Filtering a list *)

\* The list q has the slots of S, each once, in order.
Lists(q, S) ==
    /\ Ascends(q, S)
    /\ \A i \in S : \E m \in 1 .. Cardinality(S) : q[m] = i

\* Ascending gives such a list.
LEMMA AscendingListsThem ==
    ASSUME NEW N \in Nat, NEW S, S \subseteq 0 .. N - 1
    PROVE  Lists(Ascending(S), S)
<1>1. \E p : Ascends(p, S)
  BY OrderExists
<1>2. Ascends(Ascending(S), S)
  <2>1. \E p \in [1 .. Cardinality(S) -> S] : \A m, n \in DOMAIN p : m < n => p[m] < p[n]
    BY <1>1 DEF Ascends
  <2> QED  BY <2>1 DEF Ascending, Ascends
<1>3. \A i \in S : \E m \in 1 .. Cardinality(S) : Ascending(S)[m] = i
  BY AscendingLists
<1> QED  BY <1>2, <1>3 DEF Lists

\* What a list has that is in T, in the order of the list.
LEMMA KeptLists ==
    ASSUME NEW N \in Nat, NEW S, S \subseteq 0 .. N - 1, NEW q, Lists(q, S), NEW T
    PROVE  Lists(Keep(q, T), S \cap T) /\ ToSet(q) = S
<1> DEFINE M == Cardinality(S)
           P == {n \in DOMAIN q : q[n] \in T}
           L == Cardinality(P)
           at == Ascending(P)
           r == Keep(q, T)
<1>1. /\ M \in Nat /\ q \in [1 .. M -> S] /\ DOMAIN q = 1 .. M
      /\ \A m, n \in 1 .. M : m < n => q[m] < q[n]
      /\ \A i \in S : \E m \in 1 .. M : q[m] = i
  BY SlotSetsFinite DEF Lists, Ascends
<1>2. ToSet(q) = S
  BY <1>1 DEF ToSet
<1>3. P \subseteq 0 .. (M + 1) - 1 /\ M + 1 \in Nat /\ IsFiniteSet(P)
  <2>1. P \subseteq 0 .. (M + 1) - 1 /\ M + 1 \in Nat
    BY <1>1
  <2> HIDE DEF P, M
  <2> QED  BY <2>1, SlotSetsFinite
<1>4. Lists(at, P)
  <2> HIDE DEF P, M
  <2> QED  BY <1>3, AscendingListsThem
<1>5. /\ L \in Nat /\ at \in [1 .. L -> P] /\ DOMAIN at = 1 .. L
      /\ \A m, n \in 1 .. L : m < n => at[m] < at[n]
      /\ \A p \in P : \E m \in 1 .. L : at[m] = p
  <2> HIDE DEF P, at
  <2> QED  BY <1>3, <1>4, FS_CardinalityType DEF Lists, Ascends
<1>6. r = [n \in 1 .. L |-> q[at[n]]]
  BY <1>5 DEF Keep
<1>7. L = Cardinality(S \cap T)
  <2> DEFINE f == [p \in P |-> q[p]]
  <2>1. \A m, n \in 1 .. M : q[m] = q[n] => m = n
    <3>1. \A i \in S : i \in Int
      OBVIOUS
    <3>2. \A m \in 1 .. M : q[m] \in Int
      BY <1>1, <3>1
    <3> HIDE DEF M
    <3> QED  BY <1>1, <3>2
  <2>2. \A p \in P : p \in 1 .. M /\ q[p] \in S \cap T
    BY <1>1
  <2>3. f \in Injection(P, S \cap T)
    BY <2>1, <2>2 DEF Injection, IsInjective
  <2>4. f \in Surjection(P, S \cap T)
    BY <1>1, <2>2 DEF Surjection
  <2>5. ExistsBijection(P, S \cap T)
    BY <2>3, <2>4 DEF ExistsBijection, Bijection
  <2> HIDE DEF P, f
  <2> QED  BY <1>3, <2>5, FS_Bijection
<1>8. \A n \in 1 .. L : at[n] \in 1 .. M /\ r[n] = q[at[n]] /\ r[n] \in S \cap T
  BY <1>1, <1>5, <1>6
<1>9. r \in [1 .. L -> S \cap T]
  BY <1>6, <1>8
<1>10. \A m, n \in DOMAIN r : m < n => r[m] < r[n]
  <2> HIDE DEF P, at, r, M, L
  <2> QED  BY <1>1, <1>5, <1>6, <1>8
<1>11. ASSUME NEW i \in S \cap T PROVE \E m \in 1 .. L : r[m] = i
  <2>1. PICK p \in 1 .. M : q[p] = i
    BY <1>1
  <2>2. p \in P
    BY <1>1, <2>1
  <2>3. PICK m \in 1 .. L : at[m] = p
    BY <1>5, <2>2
  <2> QED  BY <1>6, <2>1, <2>3
<1>12. \A i \in S \cap T : \E m \in 1 .. L : r[m] = i
  BY <1>11
<1> HIDE DEF r, L
<1>13. Lists(r, S \cap T)
  BY <1>7, <1>9, <1>10, <1>12 DEF Lists, Ascends
<1> QED  BY <1>2, <1>13 DEF r

\* The page of one is the smallest, and a page that is large enough has all.
PageGives(q, N, S, limit) ==
    /\ N <= limit => ToSet(Page(q, 0, limit)) = S
    /\ limit = 1 => ToSet(Page(q, 0, limit)) = IF S = {} THEN {} ELSE {Min(S)}
    /\ Len(q) = Cardinality(S)

LEMMA PageOfList ==
    ASSUME NEW N \in Nat, NEW S, S \subseteq 0 .. N - 1, NEW q, Lists(q, S), NEW limit \in Nat
    PROVE  PageGives(q, N, S, limit)
<1> DEFINE M == Cardinality(S)
           m == Min({0 + limit, Len(q)})
<1>1. /\ M \in Nat /\ q \in [1 .. M -> S] /\ DOMAIN q = 1 .. M
      /\ \A j, n \in 1 .. M : j < n => q[j] < q[n]
      /\ \A i \in S : \E n \in 1 .. M : q[n] = i
  BY SlotSetsFinite DEF Lists, Ascends
<1>2. M <= N
  <2>1. 0 \in Int /\ N - 1 \in Int
    OBVIOUS
  <2>2. IsFiniteSet(0 .. N - 1) /\ Cardinality(0 .. N - 1) = N
    BY <2>1, FS_Interval
  <2>3. S \in SUBSET (0 .. N - 1)
    OBVIOUS
  <2> QED  BY <2>2, <2>3, FS_Subset
<1> HIDE DEF M
<1>3. q \in Seq(S) /\ Len(q) = M
  BY <1>1
<1>4. m \in Nat /\ m <= M /\ m <= limit /\ (m = limit \/ m = M)
  <2>1. {0 + limit, Len(q)} \subseteq Nat /\ {0 + limit, Len(q)} # {}
    BY <1>1, <1>3
  <2>2. Min({0 + limit, Len(q)}) \in {0 + limit, Len(q)}
        /\ \A y \in {0 + limit, Len(q)} : Min({0 + limit, Len(q)}) <= y
    BY <2>1, MinIsElement
  <2>3. m \in {0 + limit, Len(q)} /\ m <= 0 + limit /\ m <= Len(q)
    BY <2>2
  <2> HIDE DEF m
  <2> QED  BY <1>1, <1>3, <2>3
<1> HIDE DEF m
<1> DEFINE p == SubSeq(q, 1, m)
<1>5. Page(q, 0, limit) = p
  BY DEF Page, m
<1>6. DOMAIN p = 1 .. m /\ \A n \in 1 .. m : p[n] = q[n]
  BY <1>1, <1>3, <1>4
<1> HIDE DEF p
<1>7. ToSet(p) = {q[n] : n \in 1 .. m}
  BY <1>6 DEF ToSet
<1>8. N <= limit => ToSet(p) = S
  <2>1. SUFFICES ASSUME N <= limit PROVE {q[n] : n \in 1 .. m} = S
    BY <1>7
  <2>2. m = M
    BY <1>1, <1>2, <1>4, <2>1
  <2> QED  BY <1>1, <2>2
<1>9. limit = 1 => ToSet(p) = IF S = {} THEN {} ELSE {Min(S)}
  <2>1. SUFFICES ASSUME limit = 1 PROVE {q[n] : n \in 1 .. m} = IF S = {} THEN {} ELSE {Min(S)}
    BY <1>7
  <2>2. CASE S = {}
    <3>1. M = 0
      BY <2>2, FS_EmptySet DEF M
    <3>2. 1 .. m = {}
      BY <1>4, <3>1
    <3> QED  BY <2>2, <3>2
  <2>3. CASE S # {}
    <3>1. PICK k \in S : TRUE
      BY <2>3
    <3>2. M >= 1
      BY <1>1, <3>1
    <3>3. m = 1
      BY <1>4, <2>1, <3>2
    <3>4. q[1] \in S /\ \A n \in 1 .. M : n # 1 => q[1] < q[n]
      BY <1>1, <3>2
    <3>5. ASSUME NEW i \in S PROVE q[1] <= i /\ q[1] \in Int /\ i \in Int
      <4>0. \A x \in S : x \in Int
        OBVIOUS
      <4>1. q[1] \in Int /\ i \in Int
        BY <3>4, <4>0
      <4>2. PICK n \in 1 .. M : q[n] = i
        BY <1>1
      <4>3. n = 1 \/ q[1] < i
        BY <3>4, <4>2
      <4> QED  BY <4>1, <4>2, <4>3
    <3>6. q[1] = Min(S)
      <4>1. S \subseteq Nat
        OBVIOUS
      <4>2. Min(S) \in S /\ \A y \in S : Min(S) <= y
        BY <2>3, <4>1, MinIsElement
      <4>3. q[1] <= Min(S) /\ Min(S) <= q[1] /\ q[1] \in Int /\ Min(S) \in Int
        BY <3>4, <3>5, <4>2
      <4> QED  BY <4>3
    <3>7. {q[n] : n \in 1 .. m} = {q[1]}
      BY <3>3
    <3> QED  BY <2>3, <3>6, <3>7
  <2> QED  BY <2>2, <2>3
<1> QED  BY <1>3, <1>5, <1>8, <1>9 DEF M, PageGives

\* The smallest, if there is any.
Smallest(K) == IF K = {} THEN {} ELSE {Min(K)}

\* Those of H that the filters' lambda accepts, and whose value in the vector compares that way.
Accepted(c, H, op, l) == {i \in H : Evaluate(op, ValueOrTombstone(c, i), l.value)}

Compared(c, H, op, l) == {i \in H : Evaluate(op, c.vec[i + 1], l.value)}

\* One of K, if there is any, that is not behind any other of them.
FirstBy(c, K, sort) ==
    {S \in SUBSET K : /\ Cardinality(S) = Min({1, Cardinality(K)})
                      /\ \A i \in S, j \in K \ S : ~Before(sort, c.vec[j + 1], c.vec[i + 1])}

\* What a filter that is asked for one gives of the slots H.
FirstOf(c, H, op, l, sort) ==
    IF sort = "NONE" \/ c.kind \in ListKind
    THEN {Smallest(Compared(c, H, op, l))}
    ELSE FirstBy(c, Compared(c, H, op, l), sort)

\* What a filter without a sort gives of the slots H.
UnsortedGives(q, N, H, c, op, l, limit) ==
    /\ N <= limit => filterUnsorted(c, q, op, l, limit) = Accepted(c, H, op, l)
    /\ limit = 1 => filterUnsorted(c, q, op, l, limit) = Smallest(Accepted(c, H, op, l))

\* It gives those that are accepted, or the smallest of them.
LEMMA UnsortedIs ==
    ASSUME NEW N \in Nat, NEW H, H \subseteq 0 .. N - 1, NEW q, Lists(q, H),
           NEW c, NEW op, NEW l, NEW limit \in Nat
    PROVE  UnsortedGives(q, N, H, c, op, l, limit)
<1> DEFINE T == {i \in ToSet(q) : Evaluate(op, ValueOrTombstone(c, i), l.value)}
           U == Accepted(c, H, op, l)
           r == Keep(q, T)
<1>1. ToSet(q) = H
  BY KeptLists
<1>2. H \cap T = U
  BY <1>1 DEF Accepted
<1>3. Lists(r, H \cap T)
  <2> HIDE DEF T
  <2> QED  BY KeptLists
<1>4. U \subseteq 0 .. N - 1
  BY DEF Accepted
<1>5. filterUnsorted(c, q, op, l, limit) = ToSet(Page(r, 0, limit))
  BY DEF filterUnsorted
<1> HIDE DEF T, U, r
<1>6. Lists(r, U)
  BY <1>2, <1>3
<1>7. /\ N <= limit => ToSet(Page(r, 0, limit)) = U
      /\ limit = 1 => ToSet(Page(r, 0, limit)) = IF U = {} THEN {} ELSE {Min(U)}
  <2>1. PageGives(r, N, U, limit)
    BY <1>4, <1>6, PageOfList
  <2> QED  BY <2>1 DEF PageGives
<1> QED  BY <1>5, <1>7 DEF U, Smallest, UnsortedGives

\* Every one of the slots has a value.
HaveValues(c, H) == \A i \in H : Covers(c, i) /\ i \notin c.gone

\* What the filters that ask for one give of slots that have a value.
OneGiven(q, H, c, op, l, sort) ==
    /\ filterUnsorted(c, q, op, l, 1) = Smallest(Compared(c, H, op, l))
    /\ filterSorted(c, q, op, l, 1, sort) = FirstBy(c, Compared(c, H, op, l), sort)

\* Nothing is read beyond the vector when all the slots of the list have a value.
LEMMA SortedIs ==
    ASSUME NEW N \in Nat, NEW H, H \subseteq 0 .. N - 1, NEW q, Lists(q, H),
           NEW c, HaveValues(c, H), NEW op, NEW l, NEW sort
    PROVE  OneGiven(q, H, c, op, l, sort)
<1> DEFINE K == Compared(c, H, op, l)
<1>1. Accepted(c, H, op, l) = K
  BY DEF HaveValues, Accepted, Compared, ValueOrTombstone
<1>2. filterUnsorted(c, q, op, l, 1) = Smallest(K)
  <2>1. 1 \in Nat
    OBVIOUS
  <2>2. filterUnsorted(c, q, op, l, 1) = Smallest(Accepted(c, H, op, l))
    <3>1. UnsortedGives(q, N, H, c, op, l, 1)
      BY <2>1, UnsortedIs
    <3> QED  BY <3>1 DEF UnsortedGives
  <2> QED  BY <1>1, <2>2
<1>3. ToSet(q) = H
  BY KeptLists
<1>4. getPropertyWhere(c, q, op, l) = K
  <2>1. CASE q = <<>>
    <3>1. H = {}
      BY <1>3, <2>1 DEF ToSet
    <3> QED  BY <2>1, <3>1 DEF getPropertyWhere, Compared
  <2>2. CASE q # <<>>
    <3>1. q \in [1 .. Cardinality(H) -> H] /\ Cardinality(H) \in Nat
      BY SlotSetsFinite DEF Lists, Ascends
    <3>2. Len(q) \in 1 .. Cardinality(H) /\ q[Len(q)] \in H
      BY <2>2, <3>1
    <3>3. Covers(c, q[Len(q)])
      BY <3>2 DEF HaveValues
    <3>4. H \ c.gone = H
      BY DEF HaveValues
    <3> QED  BY <1>3, <2>2, <3>3, <3>4 DEF getPropertyWhere, Compared
  <2> QED  BY <2>1, <2>2
<1>5. filterSorted(c, q, op, l, 1, sort) = FirstBy(c, K, sort)
  <2> HIDE DEF K
  <2> QED  BY <1>4 DEF filterSorted, Foremost, kSubset, FirstBy
<1> QED  BY <1>2, <1>5 DEF OneGiven

\* The kinds whose filters keep nothing: they ask whether the value is a list of booleans.
KeepsNothing(kind) == kind \in ListKind \ {"boolean_list"}

\* So whichever kind the property has, unless its filter keeps nothing.
KindGives(q, H, c, op, l, sort) ==
    filterByKind(c, q, op, l, 1, sort) = IF KeepsNothing(c.kind) THEN {{}} ELSE FirstOf(c, H, op, l, sort)

LEMMA ByKindIs ==
    ASSUME NEW N \in Nat, NEW H, H \subseteq 0 .. N - 1, NEW q, Lists(q, H),
           NEW c, c.kind \in ValueKind, HaveValues(c, H),
           NEW op, NEW l, l.kind = c.kind, NEW sort
    PROVE  KindGives(q, H, c, op, l, sort)
<1>1. /\ filterUnsorted(c, q, op, l, 1) = Smallest(Compared(c, H, op, l))
      /\ filterSorted(c, q, op, l, 1, sort) = FirstBy(c, Compared(c, H, op, l), sort)
  <2>1. OneGiven(q, H, c, op, l, sort)
    BY SortedIs
  <2> QED  BY <2>1 DEF OneGiven
<1>2. CASE c.kind \in ListKind
  <2>1. c.kind \notin {"integer", "double", "boolean", "string"}
    BY <1>2 DEF ListKind
  <2>2. filterByKind(c, q, op, l, 1, sort) = filterListIds(c, q, op, l, 1)
    BY <1>2, <2>1 DEF filterByKind
  <2>3. CASE KeepsNothing(c.kind)
    BY <2>2, <2>3 DEF KindGives, KeepsNothing, filterListIds
  <2>4. CASE ~KeepsNothing(c.kind)
    <3>1. c.kind = "boolean_list"
      BY <1>2, <2>4 DEF KeepsNothing
    <3> QED  BY <1>1, <1>2, <2>2, <2>4, <3>1 DEF KindGives, filterListIds, FirstOf
  <2> QED  BY <2>3, <2>4
<1>3. CASE c.kind \notin ListKind
  <2>1. Filtered(c, q, op, l, 1, sort) = FirstOf(c, H, op, l, sort)
    BY <1>1, <1>3 DEF Filtered, FirstOf
  <2>2. c.kind \in {"integer", "double", "boolean", "string"}
    BY <1>3 DEF ValueKind
  <2> QED  BY <1>3, <2>1, <2>2
             DEF KindGives, KeepsNothing, filterByKind, filterIntegerIds, filterDoubleIds, filterBooleanIds,
                 filterStringIds
<1> QED  BY <1>2, <1>3

\* The filters for nodes and for their properties do to the list without deleted nodes what the
\* filter for ids does to a list without deleted properties either.
LEMMA FilterNodesAre ==
    ASSUME NEW t, NEW c, c.kind \in ValueKind, NEW list, NEW op \in Operation, NEW l, NEW limit, NEW sort
    PROVE  /\ filterIds(t, c, list, op, l, limit, sort)
                 = filterByKind(c, removeDeletedProperties(c, removeDeletedIds(t, list)), op, l, limit, sort)
           /\ filterNodes(t, c, list, op, l, limit, sort)
                 = NodeSets(t, c, filterByKind(c, removeDeletedIds(t, list), op, l, limit, sort))
           /\ filterNodeProperties(t, c, list, op, l, limit, sort)
                 = PropertySets(c, filterByKind(c, removeDeletedIds(t, list), op, l, limit, sort))
<1>1. op # "IS_NULL" /\ op # "NOT_IS_NULL"
  BY DEF Operation, Comparison, TextTest
<1>2. filterIds(t, c, list, op, l, limit, sort)
          = filterByKind(c, removeDeletedProperties(c, removeDeletedIds(t, list)), op, l, limit, sort)
  BY <1>1 DEF filterIds
<1> DEFINE live == removeDeletedIds(t, list)
<1> HIDE DEF live
<1>3. ListKind \cap {"integer", "double", "boolean", "string"} = {}
  BY DEF ListKind
<1>4. /\ filterNodes(t, c, list, op, l, limit, sort) = NodeSets(t, c, filterByKind(c, live, op, l, limit, sort))
      /\ filterNodeProperties(t, c, list, op, l, limit, sort)
            = PropertySets(c, filterByKind(c, live, op, l, limit, sort))
  <2>1. CASE c.kind = "integer"
    BY <1>1, <1>3, <2>1
       DEF filterNodes, filterIntegerNodes, filterNodeProperties, filterIntegerNodeProperties, filterByKind, live
  <2>2. CASE c.kind = "double"
    BY <1>1, <1>3, <2>2
       DEF filterNodes, filterDoubleNodes, filterNodeProperties, filterDoubleNodeProperties, filterByKind, live
  <2>3. CASE c.kind = "boolean"
    BY <1>1, <1>3, <2>3
       DEF filterNodes, filterBooleanNodes, filterNodeProperties, filterBooleanNodeProperties, filterByKind, live
  <2>4. CASE c.kind = "string"
    BY <1>1, <1>3, <2>4
       DEF filterNodes, filterStringNodes, filterNodeProperties, filterStringNodeProperties, filterByKind, live
  <2>5. CASE c.kind \in ListKind
    <3>1. c.kind \notin {"integer", "double", "boolean", "string"}
      BY <2>5 DEF ListKind
    <3> QED  BY <1>1, <2>5, <3>1
       DEF filterNodes, filterListNodes, filterNodeProperties, filterListNodeProperties, filterByKind, live
  <2> QED  BY <2>1, <2>2, <2>3, <2>4, <2>5 DEF ValueKind
<1> QED  BY <1>2, <1>4 DEF live

\* The slots of a list that are in use, and those of them that have a value.
Live(t, slots) == slots \ t.deletedIds

Valued(t, c, slots) == Live(t, slots) \ c.gone

\* What a filter is to keep.
ToKeep(c, n, t, w, slots, op, l) ==
    {i \in InUse(n, t.deletedIds) : w[i] # NoValue /\ Holds(c.kind, op, w[i], l.value)} \cap slots

\* A column that holds what was written, and slots to be filtered.
CanFilter(c, n, t, w, slots) ==
    /\ n \in Nat /\ slots \subseteq 0 .. n - 1
    /\ ColumnHolds(c, n, t.deletedIds, w, {})
    /\ c.kind \in ValueKind /\ t.deletedIds \subseteq 0 .. n - 1

\* Taking out the deleted ids, and then the deleted properties, leaves these.
LEMMA ListsLeft ==
    ASSUME NEW n, NEW c, NEW t, NEW w, NEW slots, CanFilter(c, n, t, w, slots)
    PROVE  /\ ToSet(Ascending(slots)) = slots
           /\ Lists(removeDeletedIds(t, Ascending(slots)), Live(t, slots))
           /\ ToSet(removeDeletedIds(t, Ascending(slots))) = Live(t, slots)
           /\ Lists(removeDeletedProperties(c, removeDeletedIds(t, Ascending(slots))), Valued(t, c, slots))
<1>1. n \in Nat /\ slots \subseteq 0 .. n - 1
  BY DEF CanFilter
<1> DEFINE q == Ascending(slots)
           live == removeDeletedIds(t, q)
           G == Live(t, slots)
           T == ToSet(q) \ t.deletedIds
<1>2. Lists(q, slots)
  BY <1>1, AscendingListsThem
<1> HIDE DEF q
<1>3. ToSet(q) = slots /\ Lists(Keep(q, T), slots \cap T)
  <2> HIDE DEF T
  <2> QED  BY <1>1, <1>2, KeptLists
<1>4. slots \cap T = G
  BY <1>3 DEF Live
<1>5. Lists(live, G) /\ G \subseteq 0 .. n - 1
  BY <1>1, <1>3, <1>4 DEF removeDeletedIds, Live
<1> DEFINE T2 == ToSet(live) \ c.gone
<1> HIDE DEF live, G
<1>6. ToSet(live) = G /\ Lists(Keep(live, T2), G \cap T2)
  <2> HIDE DEF T2
  <2> QED  BY <1>1, <1>5, KeptLists
<1>7. G \cap T2 = Valued(t, c, slots)
  BY <1>6 DEF Valued, G
<1>8. Lists(removeDeletedProperties(c, live), Valued(t, c, slots))
  BY <1>6, <1>7 DEF removeDeletedProperties
<1> QED  BY <1>3, <1>5, <1>6, <1>8 DEF q, live, G

\* The values of those that have one.
LEMMA ValuedHold ==
    ASSUME NEW n, NEW c, NEW t, NEW w, NEW slots, CanFilter(c, n, t, w, slots)
    PROVE  /\ HaveValues(c, Valued(t, c, slots)) /\ Valued(t, c, slots) \subseteq 0 .. n - 1
           /\ \A i \in Valued(t, c, slots) :
                 c.vec[i + 1] = w[i] /\ getProperties(c, i) = w[i] /\ w[i] # NoValue /\ w[i] \in Int
           /\ \A i \in Live(t, slots) : i \in Valued(t, c, slots) <=> w[i] # NoValue
<1>1. n \in Nat /\ slots \subseteq 0 .. n - 1 /\ ColumnFits(c, n, t.deletedIds, {}) /\ c.kind \in ValueKind
      /\ t.deletedIds \subseteq 0 .. n - 1
  BY DEF CanFilter, ColumnHolds
<1>2. \A i \in 0 .. n - 1 : ~Covers(c, i) \/ i \in t.deletedIds => i \in c.gone
  BY <1>1 DEF ColumnFits, ValueKind, ListKind
<1>3. /\ Len(c.vec) \in Nat /\ Len(c.vec) <= n
      /\ \A i \in 0 .. n - 1 : Covers(c, i) => c.vec[i + 1] \in Stored
  BY <1>1, FitsParts
<1>4. \A i \in (0 .. n - 1) \ t.deletedIds : getProperties(c, i) = w[i]
  BY DEF CanFilter, ColumnHolds, ColumnReads
<1>5. Stored \subseteq Int /\ NoValue \notin Stored
  <2>1. \A v \in Value : v \in Int /\ v + 1 \in Int
    BY PropertyColumnsAssumption
  <2>2. \A x \in Stored : x \in Int
    BY <2>1 DEF Stored
  <2> QED  BY <2>2, StoredFacts
<1>6. ASSUME NEW i \in Valued(t, c, slots)
      PROVE  /\ Covers(c, i) /\ i \notin c.gone /\ i \in 0 .. n - 1
             /\ c.vec[i + 1] = w[i] /\ getProperties(c, i) = w[i] /\ w[i] # NoValue /\ w[i] \in Int
  <2>1. i \in 0 .. n - 1 /\ i \notin t.deletedIds /\ i \notin c.gone
    BY <1>1 DEF Valued, Live
  <2>2. Covers(c, i) /\ c.vec[i + 1] \in Stored
    BY <1>2, <1>3, <2>1
  <2>3. getProperties(c, i) = c.vec[i + 1]
    BY <1>1, <2>1, <2>2 DEF getProperties
  <2> QED  BY <1>4, <1>5, <2>1, <2>2, <2>3
<1>7. ASSUME NEW i \in Live(t, slots), i \notin Valued(t, c, slots) PROVE w[i] = NoValue
  <2>1. i \in 0 .. n - 1 /\ i \notin t.deletedIds /\ i \in c.gone
    BY <1>1, <1>7 DEF Valued, Live
  <2> QED  BY <1>4, <2>1 DEF getProperties
<1> QED  BY <1>6, <1>7 DEF HaveValues

\* Where both comparisons agree, what compares that way is what is to be kept.
LEMMA KeptCompared ==
    ASSUME NEW n, NEW c, NEW t, NEW w, NEW slots, CanFilter(c, n, t, w, slots), NEW op \in Operation, NEW l
    PROVE  /\ ToKeep(c, n, t, w, slots, op, l) = {i \in Valued(t, c, slots) : Holds(c.kind, op, c.vec[i + 1], l.value)}
           /\ ComparedAlike(c.kind, op) =>
                 ToKeep(c, n, t, w, slots, op, l) = Compared(c, Valued(t, c, slots), op, l)
<1> DEFINE H == Valued(t, c, slots)
           Meets(x) == Holds(c.kind, op, x, l.value)
<1>1. /\ \A i \in H : c.vec[i + 1] = w[i] /\ w[i] # NoValue
      /\ \A i \in Live(t, slots) : i \in H <=> w[i] # NoValue
  BY ValuedHold
<1>2. slots \subseteq 0 .. n - 1
  BY DEF CanFilter
<1>3. H \subseteq Live(t, slots) /\ Live(t, slots) = InUse(n, t.deletedIds) \cap slots
  BY <1>2 DEF Valued, Live, InUse
<1>4. ToKeep(c, n, t, w, slots, op, l) = {i \in H : Meets(c.vec[i + 1])}
  <2>1. ToKeep(c, n, t, w, slots, op, l) = {i \in InUse(n, t.deletedIds) : w[i] # NoValue /\ Meets(w[i])} \cap slots
    BY DEF ToKeep
  <2> HIDE DEF H, Meets
  <2> QED  BY <1>1, <1>3, <2>1
<1>5. ASSUME ComparedAlike(c.kind, op), NEW x PROVE Meets(x) <=> Evaluate(op, x, l.value)
  <2>1. "string" \notin ListKind /\ Comparison \cap TextTest = {}
    BY DEF ListKind, Comparison, TextTest
  <2>2. CASE c.kind = "string"
    <3>1. op \notin TextTest
      BY <1>5, <2>1, <2>2 DEF ComparedAlike
    <3> QED  BY <2>1, <2>2, <3>1 DEF Holds, EvaluateString
  <2>3. CASE c.kind \in ListKind
    <3>1. op \in {"EQ", "NEQ"}
      <4>1. c.kind # "string"
        BY <2>1, <2>3
      <4> QED  BY <1>5, <2>3, <4>1 DEF ComparedAlike
    <3>2. op \notin TextTest /\ op # "GTE" /\ op # "LTE" /\ op \notin {"GT", "LT"}
      BY <3>1 DEF TextTest
    <3> QED  BY <2>3, <3>2 DEF Holds, EvaluateVector
  <2>4. CASE c.kind # "string" /\ c.kind \notin ListKind
    BY <2>4 DEF Holds
  <2> QED  BY <2>2, <2>3, <2>4
<1>6. ComparedAlike(c.kind, op) => {i \in H : Meets(c.vec[i + 1])} = Compared(c, H, op, l)
  <2> HIDE DEF H, Meets
  <2> QED  BY <1>5 DEF Compared
<1> QED  BY <1>4, <1>6

\* A filter that keeps nothing is not among those that compare alike.
LEMMA AlikeKept ==
    ASSUME NEW kind, NEW op, ComparedAlike(kind, op)
    PROVE  ~KeepsNothing(kind)
<1>1. "string" \notin ListKind
  BY DEF ListKind
<1> QED  BY <1>1 DEF ComparedAlike, KeepsNothing

\* S is one of those to keep, if there are any, and none of them comes before it.
IsForemost(S, kept, sort, w) ==
    /\ S \subseteq kept
    /\ Cardinality(S) = Min({1, Cardinality(kept)})
    /\ \A i \in S, j \in kept : Before(sort, w[i], w[j]) \/ w[i] = w[j]

\* The first by the values in the vector is the first by the values written.
LEMMA FirstIsForemost ==
    ASSUME NEW n \in Nat, NEW c, NEW w, NEW K, K \subseteq 0 .. n - 1,
           \A i \in K : c.vec[i + 1] = w[i] /\ w[i] \in Int,
           NEW sort \in {"ASC", "DESC"}, NEW S \in FirstBy(c, K, sort)
    PROVE  IsForemost(S, K, sort, w)
<1>1. /\ S \subseteq K /\ Cardinality(S) = Min({1, Cardinality(K)})
      /\ \A i \in S, j \in K \ S : ~Before(sort, c.vec[j + 1], c.vec[i + 1])
  BY DEF FirstBy
<1>2. Cardinality(S) <= 1 /\ Cardinality(S) \in Nat /\ IsFiniteSet(S)
  <2>1. Cardinality(K) \in Nat /\ IsFiniteSet(S)
    <3>1. S \subseteq 0 .. n - 1
      BY <1>1
    <3> QED  BY <3>1, SlotSetsFinite
  <2>2. {1, Cardinality(K)} \subseteq Nat /\ {1, Cardinality(K)} # {}
    BY <2>1
  <2>3. Min({1, Cardinality(K)}) \in {1, Cardinality(K)}
        /\ \A y \in {1, Cardinality(K)} : Min({1, Cardinality(K)}) <= y
    BY <2>2, MinIsElement
  <2> QED  BY <1>1, <2>1, <2>3
<1>3. \A i, j \in S : i = j
  <2>1. SUFFICES ASSUME NEW i \in S, NEW j \in S, i # j PROVE FALSE
    OBVIOUS
  <2>2. Cardinality(S) = 1
    <3>1. Cardinality(S) # 0
      BY <1>2, <2>1, FS_EmptySet
    <3> QED  BY <1>2, <3>1
  <2>3. PICK x : S = {x}
    BY <1>2, <2>2, FS_Singleton
  <2> QED  BY <2>1, <2>3
<1>4. ASSUME NEW i \in S, NEW j \in K PROVE Before(sort, w[i], w[j]) \/ w[i] = w[j]
  <2>1. CASE j \in S
    BY <1>3, <2>1
  <2>2. CASE j \notin S
    <3>1. ~Before(sort, c.vec[j + 1], c.vec[i + 1])
      BY <1>1, <2>2
    <3>2. c.vec[i + 1] = w[i] /\ c.vec[j + 1] = w[j] /\ w[i] \in Int /\ w[j] \in Int
      BY <1>1
    <3>3. ~Before(sort, w[j], w[i])
      BY <3>1, <3>2
    <3> QED  BY <3>2, <3>3 DEF Before
  <2> QED  BY <2>1, <2>2
<1> QED  BY <1>1, <1>4 DEF IsForemost

\* What the filters that are asked for one give: ids when they name slots, and live when they make
\* nodes or relationships of them.
OneIsRight(c, n, t, w, slots, op, l, sort, ids, live) ==
    LET kept  == ToKeep(c, n, t, w, slots, op, l)
        alike == ComparedAlike(c.kind, op)
    IN  /\ KeepsNothing(c.kind) => ids = {{}}
        /\ alike /\ sort = "NONE" => ids = {IF kept = {} THEN {} ELSE {Min(kept)}}
        /\ alike /\ sort # "NONE" /\ c.kind \notin ListKind => \A S \in ids : IsForemost(S, kept, sort, w)
        /\ slots \cap c.gone \subseteq t.deletedIds => live = ids
        /\ \A S \in ids : \A i \in S : getProperties(c, i) = w[i]

\* So they do, of a column that holds what was written.
LEMMA OneFilters ==
    ASSUME NEW n, NEW c, NEW t, NEW w, NEW slots, CanFilter(c, n, t, w, slots), NEW op \in Operation,
           NEW l, l.kind = c.kind, NEW sort \in {"NONE", "ASC", "DESC"}
    PROVE  OneIsRight(c, n, t, w, slots, op, l, sort,
               filterByKind(c, removeDeletedProperties(c, removeDeletedIds(t, Ascending(slots))), op, l, 1, sort),
               filterByKind(c, removeDeletedIds(t, Ascending(slots)), op, l, 1, sort))
<1> DEFINE live == removeDeletedIds(t, Ascending(slots))
           rest == removeDeletedProperties(c, live)
           H == Valued(t, c, slots)
           K == Compared(c, H, op, l)
           kept == ToKeep(c, n, t, w, slots, op, l)
           ids == IF KeepsNothing(c.kind) THEN {{}} ELSE FirstOf(c, H, op, l, sort)
<1>1. n \in Nat /\ c.kind \in ValueKind
  BY DEF CanFilter
<1>2. Lists(live, Live(t, slots)) /\ Lists(rest, H)
  BY ListsLeft
<1>3. /\ HaveValues(c, H) /\ H \subseteq 0 .. n - 1
      /\ \A i \in H : c.vec[i + 1] = w[i] /\ getProperties(c, i) = w[i] /\ w[i] \in Int
  BY ValuedHold
<1>4. ComparedAlike(c.kind, op) => kept = K
  BY KeptCompared
<1> HIDE DEF live, rest, H
<1>5. filterByKind(c, rest, op, l, 1, sort) = ids
  <2>1. HaveValues(c, H) /\ H \subseteq 0 .. n - 1 /\ Lists(rest, H)
    BY <1>2, <1>3
  <2>2. KindGives(rest, H, c, op, l, sort)
    BY <1>1, <2>1, ByKindIs
  <2> QED  BY <2>2 DEF KindGives
<1>6. slots \cap c.gone \subseteq t.deletedIds => filterByKind(c, live, op, l, 1, sort) = ids
  <2>1. SUFFICES ASSUME slots \cap c.gone \subseteq t.deletedIds PROVE filterByKind(c, live, op, l, 1, sort) = ids
    OBVIOUS
  <2>2. Live(t, slots) = H
    BY <2>1 DEF Live, H, Valued
  <2>3. Lists(live, H)
    BY <1>2, <2>2
  <2>4. HaveValues(c, H) /\ H \subseteq 0 .. n - 1
    BY <1>3
  <2>5. KindGives(live, H, c, op, l, sort)
    BY <1>1, <2>3, <2>4, ByKindIs
  <2> QED  BY <2>5 DEF KindGives
<1>7. K \subseteq H
  BY DEF Compared
<1> HIDE DEF K, kept
<1>12. ComparedAlike(c.kind, op) => ~KeepsNothing(c.kind)
  BY AlikeKept
<1>8. ComparedAlike(c.kind, op) /\ sort = "NONE" => ids = {IF kept = {} THEN {} ELSE {Min(kept)}}
  BY <1>4, <1>12 DEF FirstOf, Smallest, K
<1>9. ASSUME ComparedAlike(c.kind, op), sort # "NONE", c.kind \notin ListKind, NEW S \in ids
      PROVE  IsForemost(S, kept, sort, w)
  <2>1. S \in FirstBy(c, K, sort)
    BY <1>9, <1>12 DEF FirstOf, K
  <2>2. K \subseteq 0 .. n - 1 /\ \A i \in K : c.vec[i + 1] = w[i] /\ w[i] \in Int
    BY <1>3, <1>7
  <2>3. IsForemost(S, K, sort, w)
    BY <1>1, <1>9, <2>1, <2>2, FirstIsForemost
  <2> QED  BY <1>4, <1>9, <2>3
<1>10. ASSUME NEW S \in ids, NEW i \in S PROVE getProperties(c, i) = w[i]
  <2>2. S \in FirstOf(c, H, op, l, sort)
    BY <1>10
  <2>1. S \subseteq K
    <3>1. CASE sort = "NONE" \/ c.kind \in ListKind
      <4>1. S = Smallest(K)
        BY <2>2, <3>1 DEF FirstOf, K
      <4>2. K # {} => Min(K) \in K
        <5>1. K \subseteq Nat
          BY <1>3, <1>7
        <5> QED  BY <5>1, MinIsElement
      <4> QED  BY <4>1, <4>2 DEF Smallest
    <3>2. CASE ~(sort = "NONE" \/ c.kind \in ListKind)
      BY <2>2, <3>2 DEF FirstOf, FirstBy, K
    <3> QED  BY <3>1, <3>2
  <2> QED  BY <1>3, <1>7, <2>1
<1>13. KeepsNothing(c.kind) => ids = {{}}
  OBVIOUS
<1> HIDE DEF ids
<1>11. OneIsRight(c, n, t, w, slots, op, l, sort, ids, filterByKind(c, live, op, l, 1, sort))
  BY <1>6, <1>8, <1>9, <1>10, <1>13 DEF OneIsRight, kept
<1> QED  BY <1>5, <1>11 DEF live, rest

\* What a filter gives as nodes, those without a value among them: the deleted properties are
\* still in its list.
LEMMA AllFilters ==
    ASSUME NEW n, NEW c, NEW t, NEW w, NEW slots, CanFilter(c, n, t, w, slots), NEW op \in Operation,
           NEW l, l.kind = c.kind, ComparedAlike(c.kind, op), NEW limit \in Nat, n <= limit
    PROVE  \E U \in SUBSET Live(t, slots) :
              /\ filterByKind(c, removeDeletedIds(t, Ascending(slots)), op, l, limit, "NONE") = {U}
              /\ ToKeep(c, n, t, w, slots, op, l) \subseteq U
              /\ \A i \in U : i \notin ToKeep(c, n, t, w, slots, op, l) => w[i] = NoValue
<1> DEFINE live == removeDeletedIds(t, Ascending(slots))
           G == Live(t, slots)
           H == Valued(t, c, slots)
           U == Accepted(c, G, op, l)
           K == Compared(c, H, op, l)
           kept == ToKeep(c, n, t, w, slots, op, l)
<1>1. n \in Nat /\ c.kind \in ValueKind /\ slots \subseteq 0 .. n - 1
  BY DEF CanFilter
<1>2. Lists(live, G) /\ G \subseteq 0 .. n - 1
  BY <1>1, ListsLeft DEF Live
<1>3. HaveValues(c, H) /\ \A i \in G : i \in H <=> w[i] # NoValue
  BY ValuedHold
<1>4. kept = K
  BY KeptCompared
<1>5. H \subseteq G /\ \A i \in H : i \in U <=> i \in K
  BY <1>3 DEF Valued, Accepted, Compared, HaveValues, ValueOrTombstone
<1>6. filterByKind(c, live, op, l, limit, "NONE") = {U}
  <2> HIDE DEF live, G
  <2>1. UnsortedGives(live, n, G, c, op, l, limit)
    BY <1>1, <1>2, UnsortedIs
  <2>2. filterUnsorted(c, live, op, l, limit) = U
    BY <2>1 DEF UnsortedGives
  <2>3. CASE c.kind \in ListKind
    <3>1. c.kind \notin {"integer", "double", "boolean", "string"}
      BY <2>3 DEF ListKind
    <3>2. c.kind = "boolean_list"
      BY <2>3, AlikeKept DEF KeepsNothing
    <3> QED  BY <2>2, <2>3, <3>1, <3>2 DEF filterByKind, filterListIds
  <2>4. CASE c.kind \notin ListKind
    <3>1. Filtered(c, live, op, l, limit, "NONE") = {U}
      BY <2>2 DEF Filtered
    <3>2. c.kind \in {"integer", "double", "boolean", "string"}
      BY <1>1, <2>4 DEF ValueKind
    <3> HIDE DEF U
    <3> QED
      BY <2>4, <3>1, <3>2 DEF filterByKind, filterIntegerIds, filterDoubleIds, filterBooleanIds, filterStringIds
  <2> QED  BY <2>3, <2>4
<1>7. U \subseteq G /\ K \subseteq H
  BY DEF Accepted, Compared
<1> HIDE DEF U, K, H, G, kept, live
<1>8. kept \subseteq U /\ \A i \in U : i \notin kept => w[i] = NoValue
  BY <1>3, <1>4, <1>5, <1>7
<1>9. U \in SUBSET G
  BY <1>7
<1> QED  BY <1>6, <1>8, <1>9 DEF live, G, kept

\* filterCount gives as many as there are to keep.
LEMMA CountFilters ==
    ASSUME NEW n, NEW c, NEW t, NEW w, NEW slots, CanFilter(c, n, t, w, slots), NEW op \in Operation, NEW l
    PROVE  countAccepted(t, c, Ascending(slots), op, l) = Cardinality(ToKeep(c, n, t, w, slots, op, l))
<1> DEFINE q == Ascending(slots)
           H == Valued(t, c, slots)
           T == {i \in ToSet(q) \ getBlanks(t, c) : Holds(c.kind, op, ValueOrTombstone(c, i), l.value)}
           kept == ToKeep(c, n, t, w, slots, op, l)
           Meets(x) == Holds(c.kind, op, x, l.value)
<1>1. n \in Nat /\ slots \subseteq 0 .. n - 1
  BY DEF CanFilter
<1>2. Lists(q, slots) /\ ToSet(q) = slots
  BY <1>1, AscendingListsThem, ListsLeft
<1>3. kept = {i \in H : Meets(c.vec[i + 1])}
  BY KeptCompared
<1>4. HaveValues(c, H)
  BY ValuedHold
<1>5. H = slots \ getBlanks(t, c)
  BY DEF Valued, Live, getBlanks
<1>6. T = kept
  <2>1. T = {i \in H : Meets(ValueOrTombstone(c, i))}
    BY <1>2, <1>5
  <2>2. \A i \in H : ValueOrTombstone(c, i) = c.vec[i + 1]
    BY <1>4 DEF HaveValues, ValueOrTombstone
  <2> HIDE DEF Meets, H, T, kept
  <2> QED  BY <1>3, <2>1, <2>2
<1>7. kept \subseteq slots
  BY <1>5, <1>3
<1> HIDE DEF q, kept
<1>8. Lists(Keep(q, T), slots \cap T)
  <2> HIDE DEF T
  <2> QED  BY <1>1, <1>2, KeptLists
<1>9. slots \cap T = kept
  <2> HIDE DEF T
  <2> QED  BY <1>6, <1>7
<1>10. Len(Keep(q, T)) = Cardinality(kept)
  <2>1. Lists(Keep(q, T), kept) /\ kept \subseteq 0 .. n - 1 /\ n \in Nat
    BY <1>1, <1>7, <1>8, <1>9
  <2>2. Keep(q, T) \in [1 .. Cardinality(kept) -> kept] /\ Cardinality(kept) \in Nat
    BY <2>1, SlotSetsFinite DEF Lists, Ascends
  <2> QED  BY <2>2
<1> QED  BY <1>10 DEF countAccepted, q, kept

\* Of slots in use the filters for nulls give those without a value, and the opposite ones the others.
LEMMA NullFilters ==
    ASSUME NEW n, NEW c, NEW t, NEW w, NEW slots, CanFilter(c, n, t, w, slots), NEW limit \in Nat, n <= limit,
           NEW sort
    PROVE  /\ filterNotNullIds(t, c, removeDeletedIds(t, Ascending(slots)), limit, sort) = {Valued(t, c, slots)}
           /\ filterNullIds(c, removeDeletedIds(t, Ascending(slots)), limit) = Live(t, slots) \ Valued(t, c, slots)
<1> DEFINE live == removeDeletedIds(t, Ascending(slots))
           G == Live(t, slots)
           H == Valued(t, c, slots)
           T == {i \in ToSet(live) : ~isDeleted(c, i)}
           T2 == {i \in ToSet(live) : isDeleted(c, i)}
           rank(i) == Rank(getNodeProperty(t, c, i))
<1>1. n \in Nat /\ c.kind \in ValueKind /\ slots \subseteq 0 .. n - 1 /\ c.kind # "none"
  BY DEF CanFilter, ValueKind, ListKind
<1>2. Lists(live, G) /\ ToSet(live) = G /\ G \subseteq 0 .. n - 1
  <2>1. Lists(live, G) /\ ToSet(live) = G
    BY ListsLeft
  <2> QED  BY <1>1, <2>1 DEF Live
<1> HIDE DEF live
<1>3. G \cap T = H /\ G \cap T2 = G \ H
  BY <1>1, <1>2 DEF isDeleted, Valued
<1>4. H \subseteq 0 .. n - 1 /\ G \ H \subseteq 0 .. n - 1
  BY <1>2 DEF Valued
<1>5. Lists(Keep(live, T), H) /\ Lists(Keep(live, T2), G \ H)
  <2> HIDE DEF T, T2, G
  <2>1. Lists(Keep(live, T), G \cap T)
    BY <1>1, <1>2, KeptLists
  <2>2. Lists(Keep(live, T2), G \cap T2)
    BY <1>1, <1>2, KeptLists
  <2> QED  BY <1>3, <2>1, <2>2
<1>6. ToSet(Page(Keep(live, T), 0, limit)) = H
  <2> HIDE DEF T, H
  <2>1. PageGives(Keep(live, T), n, H, limit)
    BY <1>1, <1>4, <1>5, PageOfList
  <2> QED  BY <2>1 DEF PageGives
<1>7. ToSet(Page(Keep(live, T2), 0, limit)) = G \ H
  <2> DEFINE J == G \ H
  <2>1. J \subseteq 0 .. n - 1 /\ Lists(Keep(live, T2), J)
    BY <1>4, <1>5
  <2> HIDE DEF T2, J
  <2>2. PageGives(Keep(live, T2), n, J, limit)
    BY <1>1, <2>1, PageOfList
  <2> QED  BY <2>2 DEF J, PageGives
<1>8. filterNullIds(c, live, limit) = G \ H
  BY <1>7 DEF filterNullIds
<1>9. filterNotNullIds(t, c, live, limit, sort) = {H}
  <2>1. CASE sort = "NONE"
    BY <1>6, <2>1 DEF filterNotNullIds
  <2>2. CASE sort # "NONE"
    <3>1. ToSet(Keep(live, T)) = H
      <4> HIDE DEF T, H
      <4> QED  BY <1>1, <1>4, <1>5, KeptLists
    <3>2. filterNotNullIds(t, c, live, limit, sort)
              = {S \in kSubset(Min({limit, Cardinality(H)}), H) :
                    \A i \in S, j \in H \ S : ~Before(sort, rank(j), rank(i))}
      BY <2>2, <3>1 DEF filterNotNullIds, Foremost
    <3>3. Cardinality(H) \in Nat /\ Cardinality(H) <= n /\ IsFiniteSet(H)
      <4>1. IsFiniteSet(H) /\ Cardinality(H) \in Nat
        <5> HIDE DEF H
        <5> QED  BY <1>1, <1>4, SlotSetsFinite
      <4>2. IsFiniteSet(0 .. n - 1) /\ Cardinality(0 .. n - 1) = n
        <5>1. 0 \in Int /\ n - 1 \in Int
          BY <1>1
        <5>2. Cardinality(0 .. n - 1) = (IF 0 > n - 1 THEN 0 ELSE n - 1 - 0 + 1) /\ IsFiniteSet(0 .. n - 1)
          BY <5>1, FS_Interval
        <5> QED  BY <1>1, <5>2
      <4>3. H \in SUBSET (0 .. n - 1)
        BY <1>4
      <4> HIDE DEF H
      <4> QED  BY <4>1, <4>2, <4>3, FS_Subset
    <3> HIDE DEF H, rank
    <3>4. Min({limit, Cardinality(H)}) = Cardinality(H)
      <4>1. {limit, Cardinality(H)} \subseteq Nat /\ {limit, Cardinality(H)} # {}
        BY <3>3
      <4>2. Min({limit, Cardinality(H)}) \in {limit, Cardinality(H)}
            /\ \A y \in {limit, Cardinality(H)} : Min({limit, Cardinality(H)}) <= y
        BY <4>1, MinIsElement
      <4> QED  BY <1>1, <3>3, <4>2
    <3>5. \A S \in SUBSET H : Cardinality(S) = Cardinality(H) => S = H
      BY <3>3, FS_Subset
    <3>6. kSubset(Cardinality(H), H) = {H}
      BY <3>5 DEF kSubset
    <3>7. \A i \in H, j \in H \ H : ~Before(sort, rank(j), rank(i))
      OBVIOUS
    <3> QED  BY <3>2, <3>4, <3>6, <3>7
  <2> QED  BY <2>1, <2>2
<1> QED  BY <1>8, <1>9 DEF live

\* filterIds, filterNodes, filterNodeProperties and filterCount keep the nodes there are to keep.
LEMMA NodesFilter == NodesHold => FilterExact
<1> SUFFICES ASSUME NodesHold, late = {}, column.kind \in ValueKind, NEW slots \in SUBSET SlotsOf(nodes)
    PROVE  LET list == Ascending(slots)
               held == {i \in slots \cap LiveSlots(nodes) : written[i] # NoValue}
           IN
           /\ \A sort \in {"NONE", "ASC"} :
                 filterIds(nodes, column, list, "NOT_IS_NULL", NoValue, MaxSlots, sort) = {held}
           /\ filterIds(nodes, column, list, "IS_NULL", NoValue, MaxSlots, "NONE")
                  = {(slots \cap LiveSlots(nodes)) \ held}
           /\ \A op \in Operation, v \in Asked :
                 LET l     == [kind |-> column.kind, value |-> v]
                     kept  == Matches(op, l) \cap slots
                     alike == ComparedAlike(column.kind, op)
                     found(limit, sort) == filterNodes(nodes, column, list, op, l, limit, sort)
                 IN
                 /\ filterCount(nodes, column, list, op, l) = Cardinality(kept)
                 /\ alike =>
                       \A S \in found(MaxSlots, "NONE") :
                           /\ kept \subseteq {x.id : x \in S}
                           /\ \A x \in S : x.id \notin kept => written[x.id] = NoValue
                 /\ \A sort \in {"NONE", "ASC", "DESC"} :
                       LET ids == filterIds(nodes, column, list, op, l, 1, sort) IN
                       /\ column.kind \in ListKind \ {"boolean_list"} => ids = {{}}
                       /\ alike /\ sort = "NONE" => ids = {IF kept = {} THEN {} ELSE {Min(kept)}}
                       /\ alike /\ sort # "NONE" /\ column.kind \notin ListKind =>
                             \A S \in ids : ForemostOf(S, kept, sort)
                       /\ slots \cap column.gone \subseteq nodes.deletedIds =>
                             /\ {{x.id : x \in S} : S \in found(1, sort)} = ids
                             /\ \A f \in filterNodeProperties(nodes, column, list, op, l, 1, sort) :
                                   \A i \in DOMAIN f : f[i] = written[i]
  BY DEF FilterExact
<1> DEFINE n == Len(nodes.keys)
           list == Ascending(slots)
           live == removeDeletedIds(nodes, list)
           held == {i \in slots \cap LiveSlots(nodes) : written[i] # NoValue}
           H == Valued(nodes, column, slots)
           G == Live(nodes, slots)
<1>1. /\ CanFilter(column, n, nodes, written, slots)
      /\ LiveSlots(nodes) = InUse(n, nodes.deletedIds) /\ n \in Nat /\ n <= MaxSlots /\ MaxSlots \in Nat
  BY NodesParts, NodeTypesAssumption DEF CanFilter, InUse
<1> HIDE DEF n
<1>2. G = slots \cap LiveSlots(nodes)
  BY <1>1 DEF Live, CanFilter, InUse
<1>3. H = held
  <2>1. \A i \in G : i \in H <=> written[i] # NoValue
    BY <1>1, ValuedHold
  <2> QED  BY <1>2, <2>1 DEF Valued
<1>4. ASSUME NEW sort
      PROVE  filterIds(nodes, column, list, "NOT_IS_NULL", NoValue, MaxSlots, sort) = {held}
  <2>1. filterNotNullIds(nodes, column, live, MaxSlots, sort) = {H}
    BY <1>1, NullFilters
  <2> QED  BY <1>3, <2>1 DEF filterIds
<1>5. filterIds(nodes, column, list, "IS_NULL", NoValue, MaxSlots, "NONE")
          = {(slots \cap LiveSlots(nodes)) \ held}
  <2>1. filterNullIds(column, live, MaxSlots) = G \ H
    BY <1>1, NullFilters
  <2> QED  BY <1>2, <1>3, <2>1 DEF filterIds
<1> HIDE DEF held, H, G
<1>6. ASSUME NEW op \in Operation, NEW v \in Asked
      PROVE  LET l     == [kind |-> column.kind, value |-> v]
                 kept  == Matches(op, l) \cap slots
                 alike == ComparedAlike(column.kind, op)
                 found(limit, sort) == filterNodes(nodes, column, list, op, l, limit, sort)
             IN
             /\ filterCount(nodes, column, list, op, l) = Cardinality(kept)
             /\ alike =>
                   \A S \in found(MaxSlots, "NONE") :
                       /\ kept \subseteq {x.id : x \in S}
                       /\ \A x \in S : x.id \notin kept => written[x.id] = NoValue
             /\ \A sort \in {"NONE", "ASC", "DESC"} :
                   LET ids == filterIds(nodes, column, list, op, l, 1, sort) IN
                   /\ column.kind \in ListKind \ {"boolean_list"} => ids = {{}}
                   /\ alike /\ sort = "NONE" => ids = {IF kept = {} THEN {} ELSE {Min(kept)}}
                   /\ alike /\ sort # "NONE" /\ column.kind \notin ListKind =>
                         \A S \in ids : ForemostOf(S, kept, sort)
                   /\ slots \cap column.gone \subseteq nodes.deletedIds =>
                         /\ {{x.id : x \in S} : S \in found(1, sort)} = ids
                         /\ \A f \in filterNodeProperties(nodes, column, list, op, l, 1, sort) :
                               \A i \in DOMAIN f : f[i] = written[i]
  <2> DEFINE l == [kind |-> column.kind, value |-> v]
             kept == ToKeep(column, n, nodes, written, slots, op, l)
             found(limit, sort) == filterNodes(nodes, column, list, op, l, limit, sort)
             ids(sort) == filterIds(nodes, column, list, op, l, 1, sort)
             lived(limit, sort) == filterByKind(column, live, op, l, limit, sort)
  <2>1. Matches(op, l) \cap slots = kept
    BY <1>1 DEF Matches, ToKeep
  <2>2. l.kind = column.kind
    OBVIOUS
  <2> HIDE DEF l
  <2>3. filterCount(nodes, column, list, op, l) = Cardinality(kept)
    <3>1. countAccepted(nodes, column, list, op, l) = Cardinality(kept)
      BY <1>1, CountFilters
    <3> QED  BY <2>2, <3>1 DEF filterCount, Accepts
  <2>4. \A limit, sort : found(limit, sort) = NodeSets(nodes, column, lived(limit, sort))
    BY FilterNodesAre
  <2>5. \A i : getNode(nodes, column, i).id = i
    BY DEF getNode
  <2>6. ASSUME ComparedAlike(column.kind, op), NEW S \in found(MaxSlots, "NONE")
        PROVE  /\ kept \subseteq {x.id : x \in S}
               /\ \A x \in S : x.id \notin kept => written[x.id] = NoValue
    <3>1. PICK U : /\ lived(MaxSlots, "NONE") = {U} /\ kept \subseteq U
                   /\ \A i \in U : i \notin kept => written[i] = NoValue
      BY <1>1, <2>2, <2>6, AllFilters
    <3> HIDE DEF kept, lived
    <3>2. S = {getNode(nodes, column, i) : i \in U}
      BY <2>4, <2>6, <3>1 DEF NodeSets
    <3>3. {x.id : x \in S} = U
      BY <2>5, <3>2
    <3>4. \A x \in S : x.id \in U
      BY <2>5, <3>2
    <3> QED  BY <3>1, <3>3, <3>4
  <2>7. ASSUME NEW sort \in {"NONE", "ASC", "DESC"}
        PROVE  /\ KeepsNothing(column.kind) => ids(sort) = {{}}
               /\ ComparedAlike(column.kind, op) /\ sort = "NONE" =>
                     ids(sort) = {IF kept = {} THEN {} ELSE {Min(kept)}}
               /\ ComparedAlike(column.kind, op) /\ sort # "NONE" /\ column.kind \notin ListKind =>
                     \A S \in ids(sort) : ForemostOf(S, kept, sort)
               /\ slots \cap column.gone \subseteq nodes.deletedIds =>
                     /\ {{x.id : x \in S} : S \in found(1, sort)} = ids(sort)
                     /\ \A f \in filterNodeProperties(nodes, column, list, op, l, 1, sort) :
                           \A i \in DOMAIN f : f[i] = written[i]
    <3>1. ids(sort) = filterByKind(column, removeDeletedProperties(column, live), op, l, 1, sort)
      BY FilterNodesAre
    <3>2. OneIsRight(column, n, nodes, written, slots, op, l, sort, ids(sort), lived(1, sort))
      BY <1>1, <2>2, <3>1, OneFilters
    <3>3. /\ KeepsNothing(column.kind) => ids(sort) = {{}}
          /\ ComparedAlike(column.kind, op) /\ sort = "NONE" =>
                ids(sort) = {IF kept = {} THEN {} ELSE {Min(kept)}}
          /\ ComparedAlike(column.kind, op) /\ sort # "NONE" /\ column.kind \notin ListKind =>
                \A S \in ids(sort) : IsForemost(S, kept, sort, written)
          /\ slots \cap column.gone \subseteq nodes.deletedIds => lived(1, sort) = ids(sort)
          /\ \A S \in ids(sort) : \A i \in S : getProperties(column, i) = written[i]
      <4> HIDE DEF ids, lived
      <4> QED  BY <3>2, Zenon DEF OneIsRight
    <3>4. \A S : IsForemost(S, kept, sort, written) => ForemostOf(S, kept, sort)
      <4> HIDE DEF kept
      <4> QED  BY DEF IsForemost, ForemostOf
    <3>5. ASSUME slots \cap column.gone \subseteq nodes.deletedIds
          PROVE  /\ {{x.id : x \in S} : S \in found(1, sort)} = ids(sort)
                 /\ \A f \in filterNodeProperties(nodes, column, list, op, l, 1, sort) :
                       \A i \in DOMAIN f : f[i] = written[i]
      <4>1. lived(1, sort) = ids(sort)
        BY <3>3, <3>5
      <4>2. found(1, sort) = {{getNode(nodes, column, i) : i \in S} : S \in ids(sort)}
        BY <2>4, <4>1 DEF NodeSets
      <4>3. filterNodeProperties(nodes, column, list, op, l, 1, sort)
                = {[i \in S |-> getProperties(column, i)] : S \in ids(sort)}
        BY <4>1, FilterNodesAre DEF PropertySets
      <4> HIDE DEF ids, found
      <4>4. \A S : {x.id : x \in {getNode(nodes, column, i) : i \in S}} = S
        BY <2>5
      <4>5. {{x.id : x \in S} : S \in found(1, sort)} = ids(sort)
        <5>1. ASSUME NEW T \in ids(sort) PROVE T \in {{x.id : x \in S} : S \in found(1, sort)}
          <6>1. {getNode(nodes, column, i) : i \in T} \in found(1, sort)
            BY <4>2
          <6> QED  BY <4>4, <6>1
        <5>2. ASSUME NEW S \in found(1, sort) PROVE {x.id : x \in S} \in ids(sort)
          <6>1. PICK T \in ids(sort) : S = {getNode(nodes, column, i) : i \in T}
            BY <4>2
          <6> QED  BY <4>4, <6>1
        <5> QED  BY <5>1, <5>2
      <4>6. ASSUME NEW f \in filterNodeProperties(nodes, column, list, op, l, 1, sort), NEW i \in DOMAIN f
            PROVE  f[i] = written[i]
        <5>1. PICK S \in ids(sort) : f = [j \in S |-> getProperties(column, j)]
          BY <4>3
        <5>2. i \in S /\ f[i] = getProperties(column, i)
          BY <5>1 DEF getProperties
        <5> QED  BY <3>3, <5>2
      <4> QED  BY <4>5, <4>6
    <3> QED  BY <3>3, <3>4, <3>5
  <2> HIDE DEF kept, found, ids, lived
  <2>8. /\ filterCount(nodes, column, list, op, l) = Cardinality(Matches(op, l) \cap slots)
        /\ ComparedAlike(column.kind, op) =>
              \A S \in found(MaxSlots, "NONE") :
                  /\ Matches(op, l) \cap slots \subseteq {x.id : x \in S}
                  /\ \A x \in S : x.id \notin Matches(op, l) \cap slots => written[x.id] = NoValue
    BY <2>1, <2>3, <2>6
  <2>9. \A sort \in {"NONE", "ASC", "DESC"} : column.kind \in ListKind \ {"boolean_list"} => ids(sort) = {{}}
    BY <2>7 DEF KeepsNothing
  <2> QED  BY <2>1, <2>7, <2>8, <2>9 DEF l, found, ids
<1> QED  BY <1>4, <1>5, <1>6 DEF held

\* Relationships are filtered as nodes are.
LEMMA SameFilters ==
    /\ \A t, list : R!removeDeletedIds(t, list) = removeDeletedIds(t, list)
    /\ \A c, list : R!removeDeletedProperties(c, list) = removeDeletedProperties(c, list)
    /\ \A t, c, list, op, l : R!countAccepted(t, c, list, op, l) = countAccepted(t, c, list, op, l)
    /\ \A c, list, op, l, limit, sort :
          R!filterRelationshipsByKind(c, list, op, l, limit, sort) = filterByKind(c, list, op, l, limit, sort)
    /\ \A kind, op : R!ComparedAlike(kind, op) <=> ComparedAlike(kind, op)
    /\ \A S : R!Min(S) = Min(S)
    /\ \A sort, x, y : R!Before(sort, x, y) <=> Before(sort, x, y)
    /\ R!ListKind = ListKind /\ R!Asked = Asked
<1>1. R!ListKind = ListKind /\ R!Comparison = Comparison /\ R!Default = Default
  BY SameWriters DEF R!ListKind, ListKind, R!Comparison, Comparison
<1>2. \A list, S : R!Keep(list, S) = Keep(list, S)
  BY SameSearches DEF R!Keep, Keep
<1>3. \A t, list : R!removeDeletedIds(t, list) = removeDeletedIds(t, list)
  BY <1>2, SameSearches DEF R!removeDeletedIds, removeDeletedIds
<1>4. \A c, list : R!removeDeletedProperties(c, list) = removeDeletedProperties(c, list)
  BY <1>2, SameSearches DEF R!removeDeletedProperties, removeDeletedProperties
<1>5. \A c, i : R!ValueOrTombstone(c, i) = ValueOrTombstone(c, i)
  BY <1>1 DEF R!ValueOrTombstone, ValueOrTombstone, R!Tombstone, Tombstone, R!Covers, Covers
<1>6. \A op, x, y : R!Evaluate(op, x, y) = Evaluate(op, x, y)
  BY DEF R!Evaluate, Evaluate
<1>7. \A t, c, list, op, l : R!countAccepted(t, c, list, op, l) = countAccepted(t, c, list, op, l)
  <2>1. \A t, c : R!getBlanks(t, c) = getBlanks(t, c)
    BY DEF R!getBlanks, getBlanks
  <2>2. ASSUME NEW t, NEW c, NEW list, NEW op, NEW l
        PROVE  R!countAccepted(t, c, list, op, l) = countAccepted(t, c, list, op, l)
    <3> DEFINE theirs == {i \in R!ToSet(list) \ R!getBlanks(t, c) :
                            R!Holds(c.kind, op, R!ValueOrTombstone(c, i), l.value)}
               mine == {i \in ToSet(list) \ getBlanks(t, c) : Holds(c.kind, op, ValueOrTombstone(c, i), l.value)}
    <3>1. R!ToSet(list) \ R!getBlanks(t, c) = ToSet(list) \ getBlanks(t, c)
      BY <2>1, SameSearches
    <3>2. \A i : R!Holds(c.kind, op, R!ValueOrTombstone(c, i), l.value)
                   = Holds(c.kind, op, ValueOrTombstone(c, i), l.value)
      BY <1>5, SameCounts
    <3>3. theirs = mine
      BY <3>1, <3>2
    <3>4. R!countAccepted(t, c, list, op, l) = Len(R!Keep(list, theirs))
      BY DEF R!countAccepted
    <3>5. countAccepted(t, c, list, op, l) = Len(Keep(list, mine))
      BY DEF countAccepted
    <3> HIDE DEF theirs, mine
    <3> QED  BY <1>2, <3>3, <3>4, <3>5
  <2> QED  BY <2>2
<1>8. \A c, list, op, l, limit : R!filterUnsorted(c, list, op, l, limit) = filterUnsorted(c, list, op, l, limit)
  BY <1>2, <1>5, <1>6, SameSearches DEF R!filterUnsorted, filterUnsorted
<1>9. \A c, list, op, l : R!getPropertyWhere(c, list, op, l) = getPropertyWhere(c, list, op, l)
  BY <1>6, SameSearches DEF R!getPropertyWhere, getPropertyWhere, R!Covers, Covers
<1>10. /\ \A S : R!Min(S) = Min(S)
       /\ \A sort, x, y : R!Before(sort, x, y) <=> Before(sort, x, y)
       /\ \A k, S : R!kSubset(k, S) = kSubset(k, S)
  BY SameCardinality DEF R!Min, Min, R!Before, Before, R!kSubset, kSubset
<1>11. ASSUME NEW c, NEW list, NEW op, NEW l, NEW limit, NEW sort
       PROVE  R!filterSorted(c, list, op, l, limit, sort) = filterSorted(c, list, op, l, limit, sort)
  <2> DEFINE W == getPropertyWhere(c, list, op, l)
  <2>1. filterSorted(c, list, op, l, limit, sort)
            = {S \in kSubset(Min({limit, Cardinality(W)}), W) :
                  \A i \in S, j \in W \ S : ~Before(sort, c.vec[j + 1], c.vec[i + 1])}
    BY DEF filterSorted, Foremost
  <2>2. R!filterSorted(c, list, op, l, limit, sort)
            = {S \in R!kSubset(R!Min({limit, R!Cardinality(W)}), W) :
                  \A i \in S, j \in W \ S : ~R!Before(sort, c.vec[j + 1], c.vec[i + 1])}
    BY <1>9 DEF R!filterSorted, R!Foremost
  <2> HIDE DEF W
  <2>3. R!kSubset(R!Min({limit, R!Cardinality(W)}), W) = kSubset(Min({limit, Cardinality(W)}), W)
    BY <1>10, SameCardinality
  <2> QED  BY <1>10, <2>1, <2>2, <2>3
<1>12. \A c, list, op, l, limit, sort : R!Filtered(c, list, op, l, limit, sort) = Filtered(c, list, op, l, limit, sort)
  BY <1>8, <1>11 DEF R!Filtered, Filtered
<1>13. ASSUME NEW c, NEW list, NEW op, NEW l, NEW limit, NEW sort
       PROVE  R!filterRelationshipsByKind(c, list, op, l, limit, sort) = filterByKind(c, list, op, l, limit, sort)
  <2>1. /\ R!filterBooleanIds(c, list, op, l, limit, sort) = filterBooleanIds(c, list, op, l, limit, sort)
        /\ R!filterIntegerIds(c, list, op, l, limit, sort) = filterIntegerIds(c, list, op, l, limit, sort)
        /\ R!filterDoubleIds(c, list, op, l, limit, sort) = filterDoubleIds(c, list, op, l, limit, sort)
        /\ R!filterStringIds(c, list, op, l, limit, sort) = filterStringIds(c, list, op, l, limit, sort)
        /\ R!filterListIds(c, list, op, l, limit) = filterListIds(c, list, op, l, limit)
    BY <1>8, <1>12
       DEF R!filterBooleanIds, filterBooleanIds, R!filterIntegerIds, filterIntegerIds, R!filterDoubleIds, filterDoubleIds,
           R!filterStringIds, filterStringIds, R!filterListIds, filterListIds
  <2> QED
    BY <1>1, <2>1, Zenon
       DEF R!filterRelationshipsByKind, filterByKind, R!filterBooleanRelationshipIds, R!filterIntegerRelationshipIds,
           R!filterDoubleRelationshipIds, R!filterStringRelationshipIds, R!filterListRelationshipIds
<1>14. \A kind, op : R!ComparedAlike(kind, op) <=> ComparedAlike(kind, op)
  BY <1>1 DEF R!ComparedAlike, ComparedAlike
<1>15. R!Asked = Asked
  BY DEF R!Asked, Asked, R!Max, Max
<1> QED  BY <1>1, <1>3, <1>4, <1>7, <1>10, <1>13, <1>14, <1>15

\* The filters for relationships and for their properties do to the list without deleted
\* relationships what the filter for ids does to a list without deleted properties either.
LEMMA FilterRelationshipsAre ==
    ASSUME NEW r, NEW c, c.kind \in ValueKind, NEW list, NEW op \in Operation, NEW l, NEW limit, NEW sort
    PROVE  /\ R!filterRelationshipIds(r, c, list, op, l, limit, sort)
                 = filterByKind(c, removeDeletedProperties(c, removeDeletedIds(r, list)), op, l, limit, sort)
           /\ R!filterRelationships(r, c, list, op, l, limit, sort)
                 = R!RelationshipSets(r, c, filterByKind(c, removeDeletedIds(r, list), op, l, limit, sort))
           /\ R!filterRelationshipProperties(r, c, list, op, l, limit, sort)
                 = R!PropertySets(c, filterByKind(c, removeDeletedIds(r, list), op, l, limit, sort))
<1>1. op # "IS_NULL" /\ op # "NOT_IS_NULL"
  BY DEF Operation, Comparison, TextTest
<1> DEFINE live == removeDeletedIds(r, list)
           byKind == filterByKind(c, live, op, l, limit, sort)
<1>2. R!removeDeletedIds(r, list) = live
  BY SameFilters
<1>3. R!filterRelationshipIds(r, c, list, op, l, limit, sort)
          = filterByKind(c, removeDeletedProperties(c, live), op, l, limit, sort)
  <2>1. R!filterRelationshipIds(r, c, list, op, l, limit, sort)
            = R!filterRelationshipsByKind(c, R!removeDeletedProperties(c, live), op, l, limit, sort)
    BY <1>1, <1>2 DEF R!filterRelationshipIds
  <2> HIDE DEF live
  <2> QED  BY <2>1, SameFilters
<1>4. byKind = R!filterRelationshipsByKind(c, live, op, l, limit, sort)
  BY SameFilters
<1> HIDE DEF live, byKind
<1>5. R!ListKind = ListKind /\ ListKind \cap {"integer", "double", "boolean", "string"} = {}
  BY SameFilters DEF ListKind
<1>6. /\ R!filterRelationships(r, c, list, op, l, limit, sort) = R!RelationshipSets(r, c, byKind)
      /\ R!filterRelationshipProperties(r, c, list, op, l, limit, sort) = R!PropertySets(c, byKind)
  <2>1. CASE c.kind = "integer"
    BY <1>1, <1>2, <1>4, <1>5, <2>1
       DEF R!filterRelationships, R!filterIntegerRelationships, R!filterRelationshipProperties,
           R!filterIntegerRelationshipProperties, R!filterRelationshipsByKind
  <2>2. CASE c.kind = "double"
    BY <1>1, <1>2, <1>4, <1>5, <2>2
       DEF R!filterRelationships, R!filterDoubleRelationships, R!filterRelationshipProperties,
           R!filterDoubleRelationshipProperties, R!filterRelationshipsByKind
  <2>3. CASE c.kind = "boolean"
    BY <1>1, <1>2, <1>4, <1>5, <2>3
       DEF R!filterRelationships, R!filterBooleanRelationships, R!filterRelationshipProperties,
           R!filterBooleanRelationshipProperties, R!filterRelationshipsByKind
  <2>4. CASE c.kind = "string"
    BY <1>1, <1>2, <1>4, <1>5, <2>4
       DEF R!filterRelationships, R!filterStringRelationships, R!filterRelationshipProperties,
           R!filterStringRelationshipProperties, R!filterRelationshipsByKind
  <2>5. CASE c.kind \in ListKind
    <3>1. c.kind \notin {"integer", "double", "boolean", "string"}
      BY <2>5 DEF ListKind
    <3> QED
      BY <1>1, <1>2, <1>4, <1>5, <2>5, <3>1
         DEF R!filterRelationships, R!filterListRelationships, R!filterRelationshipProperties,
             R!filterListRelationshipProperties, R!filterRelationshipsByKind
  <2> QED  BY <2>1, <2>2, <2>3, <2>4, <2>5 DEF ValueKind
<1> QED  BY <1>3, <1>6 DEF byKind, live

\* The filters of RelationshipTypes keep the relationships there are to keep.
LEMMA RelsFilter == RelsHold => R!FilterExact
<1> SUFFICES ASSUME RelsHold, R!Settled, NEW slots \in SUBSET R!RelSlotsOf(rels), NEW op \in R!Operation,
                    NEW v \in R!Asked
    PROVE  LET list  == R!Ascending(slots)
               l     == [kind |-> relColumn.kind, value |-> v]
               kept  == R!Matches(op, l) \cap slots
               alike == R!ComparedAlike(relColumn.kind, op)
           IN
           /\ R!filterRelationshipCount(rels, relColumn, list, op, l) = R!Cardinality(kept)
           /\ \A sort \in {"NONE", "ASC", "DESC"} :
                 LET ids   == R!filterRelationshipIds(rels, relColumn, list, op, l, 1, sort)
                     found == R!filterRelationships(rels, relColumn, list, op, l, 1, sort)
                 IN
                 /\ relColumn.kind \in R!ListKind \ {"boolean_list"} => ids = {{}}
                 /\ alike /\ sort = "NONE" => ids = {IF kept = {} THEN {} ELSE {R!Min(kept)}}
                 /\ alike /\ sort # "NONE" /\ relColumn.kind \notin R!ListKind =>
                       \A S \in ids : R!ForemostOf(S, kept, sort)
                 /\ slots \cap relColumn.gone \subseteq rels.deletedIds =>
                       /\ {{e.id : e \in S} : S \in found} = ids
                       /\ \A f \in R!filterRelationshipProperties(rels, relColumn, list, op, l, 1, sort) :
                             \A i \in DOMAIN f : f[i] = relWritten[i]
  BY DEF R!FilterExact
<1>0. relLate = {} /\ relColumn.kind \in ValueKind /\ op \in Operation
  BY SameWriters, SameSearches DEF R!Settled
<1> DEFINE n == Len(rels.ends)
           list == R!Ascending(slots)
           live == removeDeletedIds(rels, list)
           l == [kind |-> relColumn.kind, value |-> v]
           kept == ToKeep(relColumn, n, rels, relWritten, slots, op, l)
           found(sort) == R!filterRelationships(rels, relColumn, list, op, l, 1, sort)
           ids(sort) == R!filterRelationshipIds(rels, relColumn, list, op, l, 1, sort)
           lived(sort) == filterByKind(relColumn, live, op, l, 1, sort)
<1>1. /\ CanFilter(relColumn, n, rels, relWritten, slots)
      /\ R!LiveRels(rels) = InUse(n, rels.deletedIds)
      /\ list = Ascending(slots)
  BY <1>0, RelsParts, SameSearches DEF CanFilter, R!RelSlotsOf
<1>2. R!Matches(op, l) \cap slots = kept
  BY <1>1, SameCounts DEF R!Matches, ToKeep
<1>3. l.kind = relColumn.kind
  OBVIOUS
<1> HIDE DEF l, n, list
<1>4. R!filterRelationshipCount(rels, relColumn, list, op, l) = Cardinality(kept)
  <2>1. countAccepted(rels, relColumn, list, op, l) = Cardinality(kept)
    BY <1>0, <1>1, CountFilters
  <2>2. R!countAccepted(rels, relColumn, list, op, l) = Cardinality(kept)
    BY <2>1, SameFilters
  <2>3. op \in R!Operation /\ relColumn.kind \in R!ValueKind
    BY <1>0, SameSearches, SameWriters
  <2> QED  BY <1>3, <2>2, <2>3 DEF R!filterRelationshipCount
<1>5. \A sort : found(sort) = R!RelationshipSets(rels, relColumn, lived(sort))
  BY <1>0, FilterRelationshipsAre
<1>6. \A i : R!getRelationship(rels, relColumn, i).id = i
  BY DEF R!getRelationship
<1>7. ASSUME NEW sort \in {"NONE", "ASC", "DESC"}
      PROVE  /\ KeepsNothing(relColumn.kind) => ids(sort) = {{}}
             /\ ComparedAlike(relColumn.kind, op) /\ sort = "NONE" =>
                   ids(sort) = {IF kept = {} THEN {} ELSE {Min(kept)}}
             /\ ComparedAlike(relColumn.kind, op) /\ sort # "NONE" /\ relColumn.kind \notin ListKind =>
                   \A S \in ids(sort) : R!ForemostOf(S, kept, sort)
             /\ slots \cap relColumn.gone \subseteq rels.deletedIds =>
                   /\ {{e.id : e \in S} : S \in found(sort)} = ids(sort)
                   /\ \A f \in R!filterRelationshipProperties(rels, relColumn, list, op, l, 1, sort) :
                         \A i \in DOMAIN f : f[i] = relWritten[i]
  <2>1. ids(sort) = filterByKind(relColumn, removeDeletedProperties(relColumn, live), op, l, 1, sort)
    BY <1>0, FilterRelationshipsAre
  <2>2. OneIsRight(relColumn, n, rels, relWritten, slots, op, l, sort, ids(sort), lived(sort))
    BY <1>0, <1>1, <1>3, <2>1, OneFilters
  <2>3. /\ KeepsNothing(relColumn.kind) => ids(sort) = {{}}
        /\ ComparedAlike(relColumn.kind, op) /\ sort = "NONE" =>
              ids(sort) = {IF kept = {} THEN {} ELSE {Min(kept)}}
        /\ ComparedAlike(relColumn.kind, op) /\ sort # "NONE" /\ relColumn.kind \notin ListKind =>
              \A S \in ids(sort) : IsForemost(S, kept, sort, relWritten)
        /\ slots \cap relColumn.gone \subseteq rels.deletedIds => lived(sort) = ids(sort)
        /\ \A S \in ids(sort) : \A i \in S : getProperties(relColumn, i) = relWritten[i]
    <3> HIDE DEF ids, lived
    <3> QED  BY <2>2, Zenon DEF OneIsRight
  <2>4. \A S : IsForemost(S, kept, sort, relWritten) => R!ForemostOf(S, kept, sort)
    <3> HIDE DEF kept
    <3> QED  BY SameFilters, SameCardinality DEF IsForemost, R!ForemostOf
  <2>5. ASSUME slots \cap relColumn.gone \subseteq rels.deletedIds
        PROVE  /\ {{e.id : e \in S} : S \in found(sort)} = ids(sort)
               /\ \A f \in R!filterRelationshipProperties(rels, relColumn, list, op, l, 1, sort) :
                     \A i \in DOMAIN f : f[i] = relWritten[i]
    <3>1. lived(sort) = ids(sort)
      BY <2>3, <2>5
    <3>2. found(sort) = {{R!getRelationship(rels, relColumn, i) : i \in S} : S \in ids(sort)}
      BY <1>5, <3>1 DEF R!RelationshipSets
    <3>3. R!filterRelationshipProperties(rels, relColumn, list, op, l, 1, sort)
              = {[i \in S |-> R!getProperties(relColumn, i)] : S \in ids(sort)}
      BY <1>0, <3>1, FilterRelationshipsAre DEF R!PropertySets
    <3> HIDE DEF ids, found
    <3>4. \A S : {e.id : e \in {R!getRelationship(rels, relColumn, i) : i \in S}} = S
      BY <1>6
    <3>5. {{e.id : e \in S} : S \in found(sort)} = ids(sort)
      <4>1. ASSUME NEW T \in ids(sort) PROVE T \in {{e.id : e \in S} : S \in found(sort)}
        <5>1. {R!getRelationship(rels, relColumn, i) : i \in T} \in found(sort)
          BY <3>2
        <5> QED  BY <3>4, <5>1
      <4>2. ASSUME NEW S \in found(sort) PROVE {e.id : e \in S} \in ids(sort)
        <5>1. PICK T \in ids(sort) : S = {R!getRelationship(rels, relColumn, i) : i \in T}
          BY <3>2
        <5> QED  BY <3>4, <5>1
      <4> QED  BY <4>1, <4>2
    <3>6. ASSUME NEW f \in R!filterRelationshipProperties(rels, relColumn, list, op, l, 1, sort), NEW i \in DOMAIN f
          PROVE  f[i] = relWritten[i]
      <4>1. PICK S \in ids(sort) : f = [j \in S |-> R!getProperties(relColumn, j)]
        BY <3>3
      <4>2. i \in S /\ f[i] = R!getProperties(relColumn, i)
        BY <4>1 DEF R!getProperties
      <4>3. R!getProperties(relColumn, i) = getProperties(relColumn, i)
        BY SameWriters
      <4> QED  BY <2>3, <4>2, <4>3
    <3> QED  BY <3>5, <3>6
  <2> HIDE DEF kept, found, ids
  <2> QED  BY <2>3, <2>4, <2>5
<1>8. /\ R!Matches(op, l) \cap slots = kept
      /\ R!Cardinality(kept) = Cardinality(kept)
      /\ R!Min(kept) = Min(kept)
      /\ R!ComparedAlike(relColumn.kind, op) <=> ComparedAlike(relColumn.kind, op)
      /\ R!ListKind = ListKind
  <2> HIDE DEF kept
  <2> QED  BY <1>2, SameCardinality, SameFilters
<1> HIDE DEF kept, found, ids, lived
<1>9. \A sort \in {"NONE", "ASC", "DESC"} :
          relColumn.kind \in R!ListKind \ {"boolean_list"} => ids(sort) = {{}}
  BY <1>7, <1>8 DEF KeepsNothing
<1> QED  BY <1>4, <1>7, <1>8, <1>9 DEF l, found, ids, list

-----------------------------------------------------------------------------
(* Both modules in one behaviour *)

BothHold == NodesHold /\ RelsHold

\* Both start empty.
LEMMA BothInit == MCInit => BothHold
BY NodesInit, RelsInit DEF MCInit, BothHold

\* A step of either module keeps both parts.
LEMMA BothNext == BothHold /\ [MCNext]_<<about, vars, relVars>> => BothHold'
<1> SUFFICES ASSUME BothHold, [MCNext]_<<about, vars, relVars>> PROVE BothHold'
  OBVIOUS
<1>1. NodesHold /\ RelsHold
  BY DEF BothHold
<1>2. UNCHANGED vars => NodesHold'
  BY <1>1 DEF vars, NodesHold
<1>3. UNCHANGED relVars => RelsHold'
  BY <1>1 DEF relVars, RelsHold
<1>4. CASE Next /\ UNCHANGED relVars
  BY <1>1, <1>3, <1>4, NodesNext DEF BothHold
<1>5. CASE R!Next /\ UNCHANGED vars
  BY <1>1, <1>2, <1>5, RelsNext DEF BothHold
<1>6. CASE UNCHANGED <<about, vars, relVars>>
  BY <1>2, <1>3, <1>6 DEF BothHold
<1> QED  BY <1>4, <1>5, <1>6 DEF MCNext

\* In every reachable state the column of the nodes, and that of the relationships, fits its slots and
\* holds what was last written: the inductive invariant of the handlers of Node.cpp, Relationship.cpp
\* and of the writers of NodeTypes.cpp and RelationshipTypes.cpp.
THEOREM BothHoldAlways == MCSpec => []BothHold
BY BothInit, BothNext, PTL DEF MCSpec

\* Reading a property of a node or relationship gives the value last written to that one, never what an
\* earlier owner of the slot had nor what growing the vector put there; one as old as the property's
\* type may read as the default.
THEOREM EveryReadIsTheLastWriteHolds == MCSpec => []EveryReadIsTheLastWrite
<1>1. BothHold => EveryReadIsTheLastWrite
  BY NodesRead, RelsRead DEF BothHold, EveryReadIsTheLastWrite
<1> QED  BY <1>1, BothHoldAlways, PTL

\* findCount of nodes and of relationships agrees with what there is to find, by value and by null,
\* although it subtracts one bitmap's size from another's in unsigned words.
THEOREM EveryCountExactHolds == MCSpec => []EveryCountExact
<1>1. BothHold => EveryCountExact
  BY NodesCount, RelsCount DEF BothHold, EveryCountExact
<1> QED  BY <1>1, BothHoldAlways, PTL

\* findIds, findNodes and findRelationships return exactly those whose last written value compares that
\* way, whichever page of them is asked for, and those that have no value when asked for nulls.
THEOREM EverySearchExactHolds == MCSpec => []EverySearchExact
<1>1. BothHold => EverySearchExact
  BY NodesFind, RelsFind DEF BothHold, EverySearchExact
<1> QED  BY <1>1, BothHoldAlways, PTL

\* The readers of many nodes or relationships (NodesGet...Peered, RelationshipsGet...Peered), which send
\* each shard the sorted list of its slots, answer for each id what reading that id alone answers; an id
\* that is gone costs at most the answers of its own shard.
THEOREM EveryBatchReadAgreesHolds == MCSpec => []EveryBatchReadAgrees
<1>1. BothHold => EveryBatchReadAgrees
  BY NodesBatch, RelsBatch DEF BothHold, EveryBatchReadAgrees
<1> QED  BY <1>1, BothHoldAlways, PTL

\* filterIds, filterNodes, filterNodeProperties and filterCount, and those for relationships, keep of a
\* list of slots those whose last written value compares that way: the smallest of them, or the first by
\* value, when one is asked for, and of nulls and of all the others every one.
THEOREM EveryFilterExactHolds == MCSpec => []EveryFilterExact
<1>1. BothHold => EveryFilterExact
  BY NodesFilter, RelsFilter DEF BothHold, EveryFilterExact
<1> QED  BY <1>1, BothHoldAlways, PTL

=============================================================================
