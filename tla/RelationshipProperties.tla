----------------------- MODULE RelationshipProperties ------------------------
(***************************************************************************)
(* One property of the relationships of one type on one shard: what reads, *)
(* counts, finds and filters answer over the whole life of the slots below *)
(* it. src/src/graph/shard/Relationship.cpp, RelationshipTypes.cpp,        *)
(* relationship/Find.cpp and relationship/Filter.cpp. The counterpart of   *)
(* NodeProperties, over columns that count and free their slots in another *)
(* way.                                                                    *)
(***************************************************************************)
EXTENDS RelationshipReads

VARIABLES rels,       \* the columns of the relationship type
          column,     \* the column of the property
          written,    \* history: the value a client expects of each slot, NoValue for none
          late        \* history: slots as old as the type of the property, untouched since

vars == <<rels, column, written, late>>

Init ==
    /\ rels = EmptyRelationshipType
    /\ column = NoColumn
    /\ written = [i \in RelSlot |-> NoValue]
    /\ late = {}

Write(i, l) ==
    /\ written' = [written EXCEPT ![i] = IF Untouched(column, l) THEN @ ELSE JsonLeaves(column, l)]
    /\ late' = IF Untouched(column, l) THEN late ELSE late \ {i}

-----------------------------------------------------------------------------

\* RelationshipAddSameShard and RelationshipAddToOutgoing, and the empty variants (l = NoValue).
\* addId clears the properties of the slot before the new relationship's are set.
RelationshipAddWithProperties(from, to, l) ==
    LET i == NextRel(rels)
        c == deleteProperty(column, i)
    IN
    /\ HasRelRoom(rels)
    /\ rels' = RelationshipAdd(rels, from, to)
    /\ column' = setRelationshipPropertiesFromJSON(c, i, l)
    /\ written' = [written EXCEPT ![i] = JsonLeaves(column, l)]
    /\ late' = late \ {i}

\* RelationshipRemoveGetIncoming, and NodeRemove for the relationships it frees.
RemoveRelationship(i) ==
    /\ ValidRelationshipId(rels, i)
    /\ rels' = RelationshipFree(rels, {i})
    /\ column' = deleteProperty(column, i)
    /\ written' = [written EXCEPT ![i] = NoValue]
    /\ late' = late \ {i}

RelationshipSetProperty(i, l) ==
    /\ ValidRelationshipId(rels, i)
    /\ TypedFits(column, l)
    /\ column' = setRelationshipProperty(column, i, l)
    /\ written' = [written EXCEPT ![i] = l.value]
    /\ late' = late \ {i}
    /\ UNCHANGED rels

\* RelationshipSetPropertyFromJson and RelationshipSetPropertiesFromJson.
RelationshipSetPropertyFromJson(i, l) ==
    /\ ValidRelationshipId(rels, i)
    /\ column.kind \in ValueKind
    /\ column' = setRelationshipValue(column, i, l)
    /\ Write(i, l)
    /\ UNCHANGED rels

\* RelationshipDeleteProperty and RelationshipDeleteProperties.
RelationshipDeleteProperty(i) ==
    /\ ValidRelationshipId(rels, i)
    /\ column' = deleteProperty(column, i)
    /\ written' = [written EXCEPT ![i] = NoValue]
    /\ late' = IF column.kind = "none" THEN late ELSE late \ {i}
    /\ UNCHANGED rels

RelationshipResetPropertiesFromJson(i, l) ==
    /\ ValidRelationshipId(rels, i)
    /\ column.kind # "none"
    /\ column' = setRelationshipPropertiesFromJSON(deleteProperty(column, i), i, l)
    /\ written' = [written EXCEPT ![i] = JsonLeaves(column, l)]
    /\ late' = late \ {i}
    /\ UNCHANGED rels

RelationshipPropertyTypeInsert(kind) ==
    /\ column' = setPropertyType(column, kind)
    /\ late' = IF column.kind = "none" THEN RelSlotsOf(rels) ELSE late
    /\ UNCHANGED <<rels, written>>

RelationshipPropertyTypeDelete ==
    /\ column.kind # "none"
    /\ column' = removePropertyType(column)
    /\ written' = [i \in RelSlot |-> NoValue]
    /\ late' = {}
    /\ UNCHANGED rels

Next ==
    \/ \E from, to \in NodeRef, l \in Literal \cup {NoValue} : RelationshipAddWithProperties(from, to, l)
    \/ \E i \in RelSlot : RemoveRelationship(i) \/ RelationshipDeleteProperty(i)
    \/ \E i \in RelSlot, l \in Literal : RelationshipSetProperty(i, l) \/ RelationshipSetPropertyFromJson(i, l)
    \/ \E i \in RelSlot, l \in Literal \cup {NoValue} : RelationshipResetPropertiesFromJson(i, l)
    \/ \E kind \in ValueKind \cup {"unknown"} : RelationshipPropertyTypeInsert(kind)
    \/ RelationshipPropertyTypeDelete

Spec == Init /\ [][Next]_vars

-----------------------------------------------------------------------------
(* Properties: those of NodeProperties *)

Matches(op, l) ==
    {i \in LiveRels(rels) : written[i] # NoValue /\ Holds(column.kind, op, written[i], l.value)}

Asked == Value \cup {Max(Value) + 2}

ComparedAlike(kind, op) ==
    CASE kind = "string"       -> op \in Comparison
      [] kind = "boolean_list" -> op \in {"EQ", "NEQ"}
      [] OTHER                 -> kind \notin ListKind

Settled == late = {} /\ column.kind \in ValueKind

IsLastWrite(i, read) ==
    read = written[i] \/ (i \in late /\ i \notin column.gone /\ read = Default)

\* Reading a relationship gives for its property what was last written to that relationship, or 0
\* when the relationship is older than the property's type; so does reading the property by itself,
\* except that a list of integers is never there.
ReadsWhatWasWritten ==
    \A i \in LiveRels(rels) :
        /\ IsLastWrite(i, RelationshipGet([rels |-> rels, column |-> column], i).value)
        /\ IF column.kind = "integer_list" THEN getRelationshipProperty(rels, column, i) = NoValue
           ELSE IsLastWrite(i, getRelationshipProperty(rels, column, i))

\* Two shards in the same state, as in NodeProperties.
Shards == [s \in 0 .. 1 |-> [rels |-> rels, column |-> column]]

\* A batch of reads over two shards gives every relationship that exists, and no other, as reading
\* it alone does; of their properties it gives all of a shard's or none, and leaves none out when the
\* last relationship a shard is asked for has it.
BatchReadsAgree ==
    column.kind # "none" =>
        \A slots \in SUBSET RelSlotsOf(rels) :
            LET group == [s \in 0 .. 1 |-> IF s = 0 THEN slots ELSE RelSlotsOf(rels) \ slots]
                ids   == UNION {{s} \X group[s] : s \in 0 .. 1}
                live  == {i \in RelSlot : ValidRelationshipId(rels, i)}
                read  == [id \in ids |-> IF id[2] \in live THEN getProperties(column, id[2]) ELSE NoValue]
                whole == {s \in 0 .. 1 : group[s] # {} /\ group[s] \subseteq live}
                full  == {s \in whole : read[<<s, Max(group[s])>>] # NoValue}
                answered == {id \in ids : id[1] \in whole}
                found    == RelationshipsGetPeered(Shards, ids)
                values   == RelationshipsGetPropertyPeered(Shards, ids)
            IN  /\ \A id \in ids : IF id[2] \in live
                                   THEN found[id] = getRelationship(rels, column, id[2])
                                   ELSE found[id] = Nothing
                /\ RelationshipsGetTypePeered(Shards, ids) = [id \in ids |-> id[2] \in live]
                /\ DOMAIN RelationshipsGetTypeIdPeered(Shards, ids) = answered
                /\ DOMAIN RelationshipsGetPropertiesPeered(Shards, ids) = answered
                /\ \A id \in answered : id[1] \in full =>
                      RelationshipsGetPropertiesPeered(Shards, ids)[id] = read[id]
                /\ \A id \in DOMAIN values : id \in answered /\ values[id] = read[id]

\* Reading the properties of relationships in the order of their links should stay within the
\* vector. It does not when the last link's relationship has a value and an earlier one has a slot
\* that the vector has not grown to.
LinkReadsInBounds ==
    \A i, j \in RelSlotsOf(rels) : ~ReadsBeyond(column, <<i, j>>)

\* A search over the column returns exactly the relationships whose last written value compares
\* that way, with the ends they have; unlike those of nodes, relationships with a value are all
\* found as not null.
FindExact ==
    Settled =>
        /\ \A op \in Operation, v \in Asked, skip \in 0 .. 1, limit \in 1 .. 2 :
              findRelationshipIds(rels, column, op, [kind |-> column.kind, value |-> v], skip, limit)
                  = Page(Ascending(Matches(op, [value |-> v])), skip, limit)
        /\ ToSet(findRelationshipIds(rels, column, "IS_NULL", NoValue, 0, MaxRels))
              = {i \in LiveRels(rels) : written[i] = NoValue}
        /\ ToSet(findRelationshipIds(rels, column, "NOT_IS_NULL", NoValue, 0, MaxRels))
              = {i \in LiveRels(rels) : written[i] # NoValue}
        /\ \A op \in Operation, v \in Asked :
              \A e \in ToSet(findRelationships(rels, column, op, [kind |-> column.kind, value |-> v], 0, MaxRels)) :
                  e.ends # NoEnds /\ e.value = written[e.id]

\* Counting agrees with what there is to find; only the count of those that hold a value takes the
\* freed slots for relationships that do (see CountNotNullExact).
CountExact ==
    Settled =>
        /\ \A op \in Operation, v \in Asked :
              findRelationshipCount(rels, column, op, [kind |-> column.kind, value |-> v])
                  = Cardinality(Matches(op, [value |-> v]))
        /\ LET nulls == {i \in LiveRels(rels) : written[i] = NoValue} IN
              /\ findRelationshipCount(rels, column, "IS_NULL", NoValue) = Cardinality(nulls)
              /\ findRelationshipCount(rels, column, "NOT_IS_NULL", NoValue)
                     = Cardinality(RelSlotsOf(rels) \ nulls)

\* The relationships that hold a value should be counted without the freed slots: findCount starts
\* from the size of the vectors, where that of nodes starts from the size of the map of keys.
CountNotNullExact ==
    Settled =>
        findRelationshipCount(rels, column, "NOT_IS_NULL", NoValue)
            = Cardinality({i \in LiveRels(rels) : written[i] # NoValue})

\* As in NodeProperties.
ForemostOf(S, kept, sort) ==
    /\ S \subseteq kept
    /\ Cardinality(S) = Min({1, Cardinality(kept)})
    /\ \A i \in S, j \in kept : Before(sort, written[i], written[j]) \/ written[i] = written[j]

\* Filtering a list of slots keeps the relationships whose last written value compares that way, and
\* none when it is a list other than of booleans; those that return relationships agree unless the list
\* names one whose property was deleted.
FilterExact ==
    Settled =>
        \A slots \in SUBSET RelSlotsOf(rels) : LET list == Ascending(slots) IN
            \A op \in Operation, v \in Asked :
                LET l     == [kind |-> column.kind, value |-> v]
                    kept  == Matches(op, l) \cap slots
                    alike == ComparedAlike(column.kind, op)
                IN
                /\ filterRelationshipCount(rels, column, list, op, l) = Cardinality(kept)
                /\ \A sort \in {"NONE", "ASC", "DESC"} :
                      LET ids   == filterRelationshipIds(rels, column, list, op, l, 1, sort)
                          found == filterRelationships(rels, column, list, op, l, 1, sort)
                      IN
                      /\ column.kind \in ListKind \ {"boolean_list"} => ids = {{}}
                      /\ alike /\ sort = "NONE" => ids = {IF kept = {} THEN {} ELSE {Min(kept)}}
                      /\ alike /\ sort # "NONE" /\ column.kind \notin ListKind =>
                            \A S \in ids : ForemostOf(S, kept, sort)
                      /\ slots \cap column.gone \subseteq rels.deletedIds =>
                            /\ {{e.id : e \in S} : S \in found} = ids
                            /\ \A f \in filterRelationshipProperties(rels, column, list, op, l, 1, sort) :
                                  \A i \in DOMAIN f : f[i] = written[i]

=============================================================================
