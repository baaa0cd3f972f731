---------------------------- MODULE PropertyFinds ----------------------------
(***************************************************************************)
(* The searches over one column: NodeTypes::findCount, findIds, findNodes  *)
(* (src/src/graph/node/Find.cpp) and filterCount, filterIds, filterNodes,  *)
(* filterNodeProperties (src/src/graph/node/Filter.cpp). A search takes an *)
(* operation and a typed value; the find family scans the column, the      *)
(* filter family goes through a list of ids that came from elsewhere.      *)
(*                                                                         *)
(* t is the column group of the node type, c the column of the property.   *)
(***************************************************************************)
EXTENDS PropertyColumns

Comparison == {"EQ", "NEQ", "GT", "GTE", "LT", "LTE"}

TextTest == {"STARTS_WITH", "CONTAINS", "ENDS_WITH", "NOT_STARTS_WITH", "NOT_CONTAINS", "NOT_ENDS_WITH"}

Operation == Comparison \cup TextTest

\* Expression::Evaluate, and the lambdas of the find functions: a test of texts is never met.
Evaluate(op, x, y) ==
    CASE op = "EQ"  -> x = y
      [] op = "NEQ" -> x # y
      [] op = "GT"  -> x > y
      [] op = "GTE" -> x >= y
      [] op = "LT"  -> x < y
      [] op = "LTE" -> x <= y
      [] OTHER      -> FALSE

\* Where the text or list y is at the start of x it is at its end and within it too: x repeats
\* one item.
Within(x, y) == y = Default \/ x = y \/ x = Twice(y)

Tested(op, x, y) == Within(x, y) = (op \in {"STARTS_WITH", "CONTAINS", "ENDS_WITH"})

EvaluateString(op, x, y) == IF op \in TextTest THEN Tested(op, x, y) ELSE Evaluate(op, x, y)

Length(v) == IF v = Default THEN 0 ELSE 1 + (v % 2)

\* Lists are more or less than others by their length, whatever they hold.
EvaluateVector(op, x, y) ==
    CASE op \in TextTest -> Tested(op, x, y)
      [] op = "GTE"      -> Length(x) > Length(y) \/ x = y
      [] op = "LTE"      -> Length(x) < Length(y) \/ x = y
      [] op \in {"GT", "LT"} -> Evaluate(op, Length(x), Length(y))
      [] OTHER           -> Evaluate(op, x, y)

Holds(kind, op, x, y) ==
    IF kind \in ListKind THEN EvaluateVector(op, x, y)
    ELSE IF kind = "string" THEN EvaluateString(op, x, y)
    ELSE Evaluate(op, x, y)

Page(ids, skip, limit) == SubSeq(ids, skip + 1, Min({skip + limit, Len(ids)}))

\* The slots a search passes over: the property or the node was deleted.
getBlanks(t, c) == c.gone \cup t.deletedIds

MatchingSlots(t, c, op, l) ==
    {i \in 0 .. Len(c.vec) - 1 : i \notin getBlanks(t, c) /\ Holds(c.kind, op, c.vec[i + 1], l.value)}

-----------------------------------------------------------------------------
(* find: over the whole column *)

\* countBooleans to countStringLists: a value of another kind matches nothing.
countMatches(t, c, op, l) ==
    IF l.kind = c.kind THEN Cardinality(MatchingSlots(t, c, op, l)) ELSE 0

Unsigned(n) == n % Word

findCount_NullsOnly(t, c, op, l) ==
    IF op = "IS_NULL" THEN Unsigned(Cardinality(c.gone))
    ELSE IF op = "NOT_IS_NULL" THEN Unsigned(MapSize(t) - Cardinality(c.gone))
    ELSE countMatches(t, c, op, l)

\* Deleted nodes count as deleted properties too, so they are taken off again.
findCount(t, c, op, l) ==
    IF op = "IS_NULL" THEN Unsigned(Cardinality(c.gone) - Cardinality(t.deletedIds))
    ELSE IF op = "NOT_IS_NULL" THEN Unsigned(MapSize(t) - (Cardinality(c.gone) - Cardinality(t.deletedIds)))
    ELSE IF c.kind \in ValueKind THEN countMatches(t, c, op, l) ELSE 0

findNullIds(t, c, skip, limit) == Page(Ascending(c.gone \ t.deletedIds), skip, limit)

findNotNullIds_WholeVector(t, c, skip, limit) ==
    Page(Ascending((SlotsOf(t) \ t.deletedIds) \ c.gone), skip, limit)

\* The bitmap starts as 0 .. size of the hash map of keys, not of the vectors.
findNotNullIds(t, c, skip, limit) ==
    Page(Ascending(((0 .. MapSize(t) - 1) \ t.deletedIds) \ c.gone), skip, limit)

\* findIntegerIds emits a match before it looks at the limit: with nothing skipped and a limit of
\* 0 one id comes back.
findIntegerIds(t, c, op, l, skip, limit) ==
    IF l.kind = "integer"
    THEN Page(Ascending(MatchingSlots(t, c, op, l)), skip, IF skip = 0 THEN Max({limit, 1}) ELSE limit)
    ELSE <<>>

\* findDoubleIds reads an integer as the double of the same value.
findDoubleIds(t, c, op, l, skip, limit) ==
    IF l.kind \in {"integer", "double"}
    THEN Page(Ascending(MatchingSlots(t, c, op, l)), skip, IF skip = 0 THEN Max({limit, 1}) ELSE limit)
    ELSE <<>>

\* The others look at the limit first.
findStringIds(t, c, op, l, skip, limit) ==
    IF l.kind = "string" THEN Page(Ascending(MatchingSlots(t, c, op, l)), skip, limit) ELSE <<>>

findBooleanIds(t, c, op, l, skip, limit) ==
    IF l.kind = "boolean" THEN Page(Ascending(MatchingSlots(t, c, op, l)), skip, limit) ELSE <<>>

\* findBooleanListIds and its siblings: a list of doubles is compared with one of integers too.
findListIds(t, c, op, l, skip, limit) ==
    IF l.kind = c.kind \/ (c.kind = "double_list" /\ l.kind = "integer_list")
    THEN Page(Ascending(MatchingSlots(t, c, op, l)), skip, limit)
    ELSE <<>>

findIds(t, c, op, l, skip, limit) ==
    IF op = "IS_NULL" THEN findNullIds(t, c, skip, limit)
    ELSE IF op = "NOT_IS_NULL" THEN findNotNullIds(t, c, skip, limit)
    ELSE CASE c.kind = "boolean" -> findBooleanIds(t, c, op, l, skip, limit)
           [] c.kind = "integer" -> findIntegerIds(t, c, op, l, skip, limit)
           [] c.kind = "double"  -> findDoubleIds(t, c, op, l, skip, limit)
           [] c.kind = "string"  -> findStringIds(t, c, op, l, skip, limit)
           [] c.kind \in ListKind -> findListIds(t, c, op, l, skip, limit)
           [] OTHER              -> <<>>

\* getNode: the key and what the property holds, even for a slot ValidNodeId refuses.
getNode(t, c, i) == [id |-> i, key |-> KeyOf(t, i), value |-> getProperties(c, i)]

\* The find functions for nodes repeat those for ids with getNode in place of the id.
Nodes(t, c, ids) == [n \in DOMAIN ids |-> getNode(t, c, ids[n])]

findNullNodes(t, c, skip, limit) == Nodes(t, c, findNullIds(t, c, skip, limit))

findNotNullNodes(t, c, skip, limit) == Nodes(t, c, findNotNullIds(t, c, skip, limit))

findIntegerNodes(t, c, op, l, skip, limit) == Nodes(t, c, findIntegerIds(t, c, op, l, skip, limit))

findDoubleNodes(t, c, op, l, skip, limit) == Nodes(t, c, findDoubleIds(t, c, op, l, skip, limit))

findStringNodes(t, c, op, l, skip, limit) == Nodes(t, c, findStringIds(t, c, op, l, skip, limit))

findBooleanNodes(t, c, op, l, skip, limit) == Nodes(t, c, findBooleanIds(t, c, op, l, skip, limit))

findListNodes(t, c, op, l, skip, limit) == Nodes(t, c, findListIds(t, c, op, l, skip, limit))

findNodes(t, c, op, l, skip, limit) ==
    IF op = "IS_NULL" THEN findNullNodes(t, c, skip, limit)
    ELSE IF op = "NOT_IS_NULL" THEN findNotNullNodes(t, c, skip, limit)
    ELSE CASE c.kind = "boolean" -> findBooleanNodes(t, c, op, l, skip, limit)
           [] c.kind = "integer" -> findIntegerNodes(t, c, op, l, skip, limit)
           [] c.kind = "double"  -> findDoubleNodes(t, c, op, l, skip, limit)
           [] c.kind = "string"  -> findStringNodes(t, c, op, l, skip, limit)
           [] c.kind \in ListKind -> findListNodes(t, c, op, l, skip, limit)
           [] OTHER              -> <<>>

-----------------------------------------------------------------------------
(* filter: over a list of ids *)

\* What getBooleanProperty, getIntegerProperty and so on return beyond the vector: the default,
\* but the least integer and the least positive double. Values are even, so 1 is between.
Tombstone(kind) == CASE kind = "integer" -> -1 [] kind = "double" -> 1 [] OTHER -> Default

ValueOrTombstone(c, i) == IF Covers(c, i) THEN c.vec[i + 1] ELSE Tombstone(c.kind)

\* The slots of a list that are in S, in the order of the list: what is left of it, or what a loop
\* over it lets through.
Keep(list, S) ==
    LET at == Ascending({n \in DOMAIN list : list[n] \in S})
    IN  [n \in DOMAIN at |-> list[at[n]]]

removeDeletedIds(t, list) == Keep(list, ToSet(list) \ t.deletedIds)

removeDeletedProperties_Skipped(c, list) == list

removeDeletedProperties(c, list) == Keep(list, ToSet(list) \ c.gone)

Accepts(c, l) == l.kind = c.kind \/ (c.kind = "double" /\ l.kind = "integer")

countAccepted(t, c, list, op, l) ==
    Len(Keep(list, {i \in ToSet(list) \ getBlanks(t, c) : Holds(c.kind, op, ValueOrTombstone(c, i), l.value)}))

\* For nulls filterCount asks isDeleted with the external id, which lies above every slot: no
\* property of a known name counts as deleted.
countNulls(c, list, op) == IF (op = "IS_NULL") = (c.kind = "none") THEN Len(list) ELSE 0

filterCount(t, c, list, op, l) ==
    IF op \notin Operation THEN countNulls(c, list, op)
    ELSE IF c.kind \in ValueKind /\ Accepts(c, l) THEN countAccepted(t, c, list, op, l)
    ELSE 0

\* The first limit elements after nth_element: as many as that, none of them behind one left out.
\* (With limit beyond the end nth_element is undefined; what libstdc++ does keeps all elements.)
Foremost(slots, before(_, _), limit) ==
    {S \in kSubset(Min({limit, Cardinality(slots)}), slots) :
        \A i \in S, j \in slots \ S : ~before(j, i)}

Before(sort, x, y) == IF sort = "ASC" THEN x < y ELSE x > y

filterNullIds(c, list, limit) == ToSet(Page(Keep(list, {i \in ToSet(list) : isDeleted(c, i)}), 0, limit))

\* An unset value, which variants order before all others.
Rank(v) == IF v = NoValue THEN -2 ELSE v

filterNotNullIds(t, c, list, limit, sort) ==
    LET held == Keep(list, {i \in ToSet(list) : ~isDeleted(c, i)})
        rank(i) == Rank(getNodeProperty(t, c, i))
    IN  IF sort = "NONE" THEN {ToSet(Page(held, 0, limit))}
        ELSE Foremost(ToSet(held), LAMBDA i, j : Before(sort, rank(i), rank(j)), limit)

\* filterBooleanIds and its siblings without a sort: read one by one. Texts and lists are compared
\* by Evaluate here, so that a test of texts is never met and lists are in lexicographic order.
filterUnsorted(c, list, op, l, limit) ==
    ToSet(Page(Keep(list, {i \in ToSet(list) : Evaluate(op, ValueOrTombstone(c, i), l.value)}), 0, limit))

\* getProperty with a filter: looks at the last id only, and leaves out what was deleted.
getPropertyWhere(c, list, op, l) ==
    IF list = <<>> \/ ~Covers(c, list[Len(list)]) THEN {}
    ELSE {i \in ToSet(list) \ c.gone : Evaluate(op, c.vec[i + 1], l.value)}

filterSorted(c, list, op, l, limit, sort) ==
    Foremost(getPropertyWhere(c, list, op, l),
             LAMBDA i, j : Before(sort, c.vec[i + 1], c.vec[j + 1]), limit)

\* What the filters of one kind can return, as sets of slots.
Filtered(c, list, op, l, limit, sort) ==
    IF sort = "NONE" THEN {filterUnsorted(c, list, op, l, limit)}
    ELSE filterSorted(c, list, op, l, limit, sort)

filterIntegerIds(c, list, op, l, limit, sort) ==
    IF l.kind = "integer" THEN Filtered(c, list, op, l, limit, sort) ELSE {{}}

filterDoubleIds(c, list, op, l, limit, sort) ==
    IF l.kind \in {"double", "integer"} THEN Filtered(c, list, op, l, limit, sort) ELSE {{}}

filterStringIds(c, list, op, l, limit, sort) ==
    IF l.kind = "string" THEN Filtered(c, list, op, l, limit, sort) ELSE {{}}

filterBooleanIds(c, list, op, l, limit, sort) ==
    IF l.kind = "boolean" THEN Filtered(c, list, op, l, limit, sort) ELSE {{}}

\* filterBooleanListIds and its siblings: lists are not sorted. All four ask whether the value is a
\* list of booleans. The other three then read it as a list of their own kind, which throws: a list of
\* booleans gets no answer from them, and no other value keeps anything.
filterListIds(c, list, op, l, limit) ==
    IF l.kind # "boolean_list" THEN {{}}
    ELSE IF c.kind = "boolean_list" THEN {filterUnsorted(c, list, op, l, limit)}
    ELSE {}

filterByKind(c, list, op, l, limit, sort) ==
    CASE c.kind = "boolean" -> filterBooleanIds(c, list, op, l, limit, sort)
      [] c.kind = "integer" -> filterIntegerIds(c, list, op, l, limit, sort)
      [] c.kind = "double"  -> filterDoubleIds(c, list, op, l, limit, sort)
      [] c.kind = "string"  -> filterStringIds(c, list, op, l, limit, sort)
      [] c.kind \in ListKind -> filterListIds(c, list, op, l, limit)
      [] OTHER              -> {{}}

filterIds(t, c, list, op, l, limit, sort) ==
    LET live == removeDeletedIds(t, list)
    IN  IF op = "IS_NULL" THEN {filterNullIds(c, live, limit)}
        ELSE IF op = "NOT_IS_NULL" THEN filterNotNullIds(t, c, live, limit, sort)
        ELSE filterByKind(c, removeDeletedProperties(c, live), op, l, limit, sort)

\* The filters for nodes, and for their properties, repeat those for ids.
NodeSets(t, c, sets) == {{getNode(t, c, i) : i \in S} : S \in sets}

filterNullNodes(t, c, list, limit) == NodeSets(t, c, {filterNullIds(c, list, limit)})

filterNotNullNodes(t, c, list, limit, sort) == NodeSets(t, c, filterNotNullIds(t, c, list, limit, sort))

filterIntegerNodes(t, c, list, op, l, limit, sort) ==
    NodeSets(t, c, filterIntegerIds(c, list, op, l, limit, sort))

filterDoubleNodes(t, c, list, op, l, limit, sort) ==
    NodeSets(t, c, filterDoubleIds(c, list, op, l, limit, sort))

filterStringNodes(t, c, list, op, l, limit, sort) ==
    NodeSets(t, c, filterStringIds(c, list, op, l, limit, sort))

filterBooleanNodes(t, c, list, op, l, limit, sort) ==
    NodeSets(t, c, filterBooleanIds(c, list, op, l, limit, sort))

filterListNodes(t, c, list, op, l, limit) == NodeSets(t, c, filterListIds(c, list, op, l, limit))

\* filterNodes removes the deleted nodes and not those whose property was deleted.
filterNodes(t, c, list, op, l, limit, sort) ==
    LET live == removeDeletedIds(t, list)
    IN  IF op = "IS_NULL" THEN filterNullNodes(t, c, live, limit)
        ELSE IF op = "NOT_IS_NULL" THEN filterNotNullNodes(t, c, live, limit, sort)
        ELSE CASE c.kind = "boolean" -> filterBooleanNodes(t, c, live, op, l, limit, sort)
               [] c.kind \in ListKind -> filterListNodes(t, c, live, op, l, limit)
               [] c.kind = "integer" -> filterIntegerNodes(t, c, live, op, l, limit, sort)
               [] c.kind = "double"  -> filterDoubleNodes(t, c, live, op, l, limit, sort)
               [] c.kind = "string"  -> filterStringNodes(t, c, live, op, l, limit, sort)
               [] OTHER              -> {{}}

PropertySets(c, sets) == {[i \in S |-> getProperties(c, i)] : S \in sets}

filterNullNodeProperties(c, list, limit) == PropertySets(c, {filterNullIds(c, list, limit)})

filterNotNullNodeProperties(t, c, list, limit, sort) ==
    PropertySets(c, filterNotNullIds(t, c, list, limit, sort))

filterIntegerNodeProperties(c, list, op, l, limit, sort) ==
    PropertySets(c, filterIntegerIds(c, list, op, l, limit, sort))

filterDoubleNodeProperties(c, list, op, l, limit, sort) ==
    PropertySets(c, filterDoubleIds(c, list, op, l, limit, sort))

filterStringNodeProperties(c, list, op, l, limit, sort) ==
    PropertySets(c, filterStringIds(c, list, op, l, limit, sort))

filterBooleanNodeProperties(c, list, op, l, limit, sort) ==
    PropertySets(c, filterBooleanIds(c, list, op, l, limit, sort))

filterListNodeProperties(c, list, op, l, limit) == PropertySets(c, filterListIds(c, list, op, l, limit))

filterNodeProperties(t, c, list, op, l, limit, sort) ==
    LET live == removeDeletedIds(t, list)
    IN  IF op = "IS_NULL" THEN filterNullNodeProperties(c, live, limit)
        ELSE IF op = "NOT_IS_NULL" THEN filterNotNullNodeProperties(t, c, live, limit, sort)
        ELSE CASE c.kind = "boolean" -> filterBooleanNodeProperties(c, live, op, l, limit, sort)
               [] c.kind \in ListKind -> filterListNodeProperties(c, live, op, l, limit)
               [] c.kind = "integer" -> filterIntegerNodeProperties(c, live, op, l, limit, sort)
               [] c.kind = "double"  -> filterDoubleNodeProperties(c, live, op, l, limit, sort)
               [] c.kind = "string"  -> filterStringNodeProperties(c, live, op, l, limit, sort)
               [] OTHER              -> {<<>>}

=============================================================================
