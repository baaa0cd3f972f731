-------------------------- MODULE RelationshipFinds --------------------------
(***************************************************************************)
(* The searches over one property of one relationship type: class          *)
(* RelationshipTypes in src/src/graph/relationship/Find.cpp and            *)
(* relationship/Filter.cpp. The functions are written out a second time    *)
(* for relationships; what they share with those for nodes, which needs    *)
(* only the freed slots and the column, is taken from PropertyFinds. They  *)
(* differ in the size, which is that of the vectors and not of a map, in   *)
(* the integers a filter of doubles refuses, and in what a relationship is *)
(* read as.                                                                *)
(*                                                                         *)
(* r are the columns of the relationship type, c the column of the         *)
(* property.                                                               *)
(***************************************************************************)
EXTENDS RelationshipTypes, PropertyFinds

\* getRelationship: the ends and what the property holds, for any slot within the vectors.
getRelationship(r, c, i) == [id |-> i, ends |-> EndsOf(r, i), value |-> getProperties(c, i)]

\* getRelationshipProperty
getRelationshipProperty(r, c, i) == IF ValidRelationshipId(r, i) THEN getProperty(c, i) ELSE NoValue

\* RelationshipTypes has its own copies of the writers, which do what those of NodeTypes do.
setRelationshipValue(c, i, l) == setProperty(c, i, l)

setRelationshipProperty(c, i, l) == setNodeProperty(c, i, l)

setRelationshipPropertiesFromJSON(c, i, l) == setPropertiesFromJSON(c, i, l)

-----------------------------------------------------------------------------
(* find *)

countRelationships(r, c, op, l) == countMatches(r, c, op, l)

findRelationshipCount_CountsFreed(r, c, op, l) ==
    IF op = "IS_NULL" THEN Unsigned(Cardinality(c.gone))
    ELSE IF op = "NOT_IS_NULL" THEN Unsigned(Len(r.ends) - Cardinality(c.gone))
    ELSE countRelationships(r, c, op, l)

findRelationshipCount(r, c, op, l) ==
    IF op = "IS_NULL" THEN Unsigned(Cardinality(c.gone) - Cardinality(r.deletedIds))
    ELSE IF op = "NOT_IS_NULL" THEN Unsigned(Len(r.ends) - (Cardinality(c.gone) - Cardinality(r.deletedIds)))
    ELSE IF c.kind \in ValueKind THEN countRelationships(r, c, op, l) ELSE 0

findNullRelationshipIds(r, c, skip, limit) == findNullIds(r, c, skip, limit)

findNotNullRelationshipIds(r, c, skip, limit) ==
    Page(Ascending((RelSlotsOf(r) \ r.deletedIds) \ c.gone), skip, limit)

findBooleanRelationshipIds(r, c, op, l, skip, limit) == findBooleanIds(r, c, op, l, skip, limit)

findIntegerRelationshipIds(r, c, op, l, skip, limit) == findIntegerIds(r, c, op, l, skip, limit)

findDoubleRelationshipIds(r, c, op, l, skip, limit) == findDoubleIds(r, c, op, l, skip, limit)

findStringRelationshipIds(r, c, op, l, skip, limit) == findStringIds(r, c, op, l, skip, limit)

findListRelationshipIds(r, c, op, l, skip, limit) == findListIds(r, c, op, l, skip, limit)

findRelationshipIds(r, c, op, l, skip, limit) ==
    IF op = "IS_NULL" THEN findNullRelationshipIds(r, c, skip, limit)
    ELSE IF op = "NOT_IS_NULL" THEN findNotNullRelationshipIds(r, c, skip, limit)
    ELSE CASE c.kind = "boolean" -> findBooleanRelationshipIds(r, c, op, l, skip, limit)
           [] c.kind = "integer" -> findIntegerRelationshipIds(r, c, op, l, skip, limit)
           [] c.kind = "double"  -> findDoubleRelationshipIds(r, c, op, l, skip, limit)
           [] c.kind = "string"  -> findStringRelationshipIds(r, c, op, l, skip, limit)
           [] c.kind \in ListKind -> findListRelationshipIds(r, c, op, l, skip, limit)
           [] OTHER              -> <<>>

Relationships(r, c, ids) == [n \in DOMAIN ids |-> getRelationship(r, c, ids[n])]

findNullRelationships(r, c, skip, limit) == Relationships(r, c, findNullRelationshipIds(r, c, skip, limit))

findNotNullRelationships(r, c, skip, limit) ==
    Relationships(r, c, findNotNullRelationshipIds(r, c, skip, limit))

findIntegerRelationships(r, c, op, l, skip, limit) ==
    Relationships(r, c, findIntegerRelationshipIds(r, c, op, l, skip, limit))

findDoubleRelationships(r, c, op, l, skip, limit) ==
    Relationships(r, c, findDoubleRelationshipIds(r, c, op, l, skip, limit))

findStringRelationships(r, c, op, l, skip, limit) ==
    Relationships(r, c, findStringRelationshipIds(r, c, op, l, skip, limit))

findBooleanRelationships(r, c, op, l, skip, limit) ==
    Relationships(r, c, findBooleanRelationshipIds(r, c, op, l, skip, limit))

findListRelationships(r, c, op, l, skip, limit) ==
    Relationships(r, c, findListRelationshipIds(r, c, op, l, skip, limit))

findRelationships(r, c, op, l, skip, limit) ==
    IF op = "IS_NULL" THEN findNullRelationships(r, c, skip, limit)
    ELSE IF op = "NOT_IS_NULL" THEN findNotNullRelationships(r, c, skip, limit)
    ELSE CASE c.kind = "boolean" -> findBooleanRelationships(r, c, op, l, skip, limit)
           [] c.kind = "integer" -> findIntegerRelationships(r, c, op, l, skip, limit)
           [] c.kind = "double"  -> findDoubleRelationships(r, c, op, l, skip, limit)
           [] c.kind = "string"  -> findStringRelationships(r, c, op, l, skip, limit)
           [] c.kind \in ListKind -> findListRelationships(r, c, op, l, skip, limit)
           [] OTHER              -> <<>>

-----------------------------------------------------------------------------
(* filter *)

\* filterCountDoubles takes doubles only; the filters that return ids take integers too.
filterRelationshipCount(r, c, list, op, l) ==
    IF op \notin Operation THEN countNulls(c, list, op)
    ELSE IF c.kind \in ValueKind /\ l.kind = c.kind THEN countAccepted(r, c, list, op, l)
    ELSE 0

filterNotNullRelationshipIds(r, c, list, limit, sort) ==
    LET held == Keep(list, {i \in ToSet(list) : ~isDeleted(c, i)})
        rank(i) == Rank(getRelationshipProperty(r, c, i))
    IN  IF sort = "NONE" THEN {ToSet(Page(held, 0, limit))}
        ELSE Foremost(ToSet(held), LAMBDA i, j : Before(sort, rank(i), rank(j)), limit)

filterBooleanRelationshipIds(c, list, op, l, limit, sort) == filterBooleanIds(c, list, op, l, limit, sort)

filterIntegerRelationshipIds(c, list, op, l, limit, sort) == filterIntegerIds(c, list, op, l, limit, sort)

filterDoubleRelationshipIds(c, list, op, l, limit, sort) == filterDoubleIds(c, list, op, l, limit, sort)

filterStringRelationshipIds(c, list, op, l, limit, sort) == filterStringIds(c, list, op, l, limit, sort)

filterListRelationshipIds(c, list, op, l, limit) == filterListIds(c, list, op, l, limit)

filterRelationshipsByKind(c, list, op, l, limit, sort) ==
    CASE c.kind = "boolean" -> filterBooleanRelationshipIds(c, list, op, l, limit, sort)
      [] c.kind = "integer" -> filterIntegerRelationshipIds(c, list, op, l, limit, sort)
      [] c.kind = "double"  -> filterDoubleRelationshipIds(c, list, op, l, limit, sort)
      [] c.kind = "string"  -> filterStringRelationshipIds(c, list, op, l, limit, sort)
      [] c.kind \in ListKind -> filterListRelationshipIds(c, list, op, l, limit)
      [] OTHER              -> {{}}

filterRelationshipIds(r, c, list, op, l, limit, sort) ==
    LET live == removeDeletedIds(r, list)
    IN  IF op = "IS_NULL" THEN {filterNullIds(c, live, limit)}
        ELSE IF op = "NOT_IS_NULL" THEN filterNotNullRelationshipIds(r, c, live, limit, sort)
        ELSE filterRelationshipsByKind(c, removeDeletedProperties(c, live), op, l, limit, sort)

RelationshipSets(r, c, sets) == {{getRelationship(r, c, i) : i \in S} : S \in sets}

filterNullRelationships(r, c, list, limit) == RelationshipSets(r, c, {filterNullIds(c, list, limit)})

filterNotNullRelationships(r, c, list, limit, sort) ==
    RelationshipSets(r, c, filterNotNullRelationshipIds(r, c, list, limit, sort))

filterIntegerRelationships(r, c, list, op, l, limit, sort) ==
    RelationshipSets(r, c, filterIntegerRelationshipIds(c, list, op, l, limit, sort))

filterDoubleRelationships(r, c, list, op, l, limit, sort) ==
    RelationshipSets(r, c, filterDoubleRelationshipIds(c, list, op, l, limit, sort))

filterStringRelationships(r, c, list, op, l, limit, sort) ==
    RelationshipSets(r, c, filterStringRelationshipIds(c, list, op, l, limit, sort))

filterBooleanRelationships(r, c, list, op, l, limit, sort) ==
    RelationshipSets(r, c, filterBooleanRelationshipIds(c, list, op, l, limit, sort))

filterListRelationships(r, c, list, op, l, limit) ==
    RelationshipSets(r, c, filterListRelationshipIds(c, list, op, l, limit))

\* As filterNodes: those whose property was deleted stay in the list.
filterRelationships(r, c, list, op, l, limit, sort) ==
    LET live == removeDeletedIds(r, list)
    IN  IF op = "IS_NULL" THEN filterNullRelationships(r, c, live, limit)
        ELSE IF op = "NOT_IS_NULL" THEN filterNotNullRelationships(r, c, live, limit, sort)
        ELSE CASE c.kind = "boolean" -> filterBooleanRelationships(r, c, live, op, l, limit, sort)
               [] c.kind \in ListKind -> filterListRelationships(r, c, live, op, l, limit)
               [] c.kind = "integer" -> filterIntegerRelationships(r, c, live, op, l, limit, sort)
               [] c.kind = "double"  -> filterDoubleRelationships(r, c, live, op, l, limit, sort)
               [] c.kind = "string"  -> filterStringRelationships(r, c, live, op, l, limit, sort)
               [] OTHER              -> {{}}

filterNullRelationshipProperties(c, list, limit) == PropertySets(c, {filterNullIds(c, list, limit)})

filterNotNullRelationshipProperties(r, c, list, limit, sort) ==
    PropertySets(c, filterNotNullRelationshipIds(r, c, list, limit, sort))

filterIntegerRelationshipProperties(c, list, op, l, limit, sort) ==
    PropertySets(c, filterIntegerRelationshipIds(c, list, op, l, limit, sort))

filterDoubleRelationshipProperties(c, list, op, l, limit, sort) ==
    PropertySets(c, filterDoubleRelationshipIds(c, list, op, l, limit, sort))

filterStringRelationshipProperties(c, list, op, l, limit, sort) ==
    PropertySets(c, filterStringRelationshipIds(c, list, op, l, limit, sort))

filterBooleanRelationshipProperties(c, list, op, l, limit, sort) ==
    PropertySets(c, filterBooleanRelationshipIds(c, list, op, l, limit, sort))

filterListRelationshipProperties(c, list, op, l, limit) ==
    PropertySets(c, filterListRelationshipIds(c, list, op, l, limit))

filterRelationshipProperties(r, c, list, op, l, limit, sort) ==
    LET live == removeDeletedIds(r, list)
    IN  IF op = "IS_NULL" THEN filterNullRelationshipProperties(c, live, limit)
        ELSE IF op = "NOT_IS_NULL" THEN filterNotNullRelationshipProperties(r, c, live, limit, sort)
        ELSE CASE c.kind = "boolean" -> filterBooleanRelationshipProperties(c, live, op, l, limit, sort)
               [] c.kind \in ListKind -> filterListRelationshipProperties(c, live, op, l, limit)
               [] c.kind = "integer" -> filterIntegerRelationshipProperties(c, live, op, l, limit, sort)
               [] c.kind = "double"  -> filterDoubleRelationshipProperties(c, live, op, l, limit, sort)
               [] c.kind = "string"  -> filterStringRelationshipProperties(c, live, op, l, limit, sort)
               [] OTHER              -> {<<>>}

=============================================================================
