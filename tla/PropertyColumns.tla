--------------------------- MODULE PropertyColumns ---------------------------
(***************************************************************************)
(* One property of one node type on one shard: the part of class           *)
(* Properties (src/src/graph/Properties.cpp) that belongs to one property  *)
(* name, and what NodeTypes::setNodeProperty and setProperty write into it.*)
(*                                                                         *)
(*   kind   the entry of types: "none" when the name is unknown, "untyped" *)
(*          when it was inserted with a type nobody knows                  *)
(*   vec    the vector of values, vec[i+1] is the value of slot i; it only *)
(*          grows, and grows with default values                           *)
(*   gone   deleted[name]: a bitmap of the slots whose value was deleted   *)
(*                                                                         *)
(* Values are even integers, 0 being the default the vectors grow with: 0, *)
(* false, the empty text, the empty list. Among lists an even v # 0 stands *)
(* for the list of one item, and v + 1 for the list of that item twice, so *)
(* that the order of the codes is the lexicographic order of the lists. A  *)
(* literal is a value with the kind it is written in. Dates are kept as    *)
(* doubles, and lists of dates as lists of doubles.                        *)
(***************************************************************************)
EXTENDS NodeTypes, SequencesExt

CONSTANTS Value,      \* the values a property can hold: 0 and some more
          NoValue     \* std::monostate: no value

ASSUME PropertyColumnsAssumption ==
    /\ Value \subseteq Int
    /\ IsFiniteSet(Value)
    /\ 0 \in Value
    /\ NoValue \notin Value \cup {v + 1 : v \in Value}

Default == 0

ListKind == {"boolean_list", "integer_list", "double_list", "string_list"}

ValueKind == {"boolean", "integer", "double", "string"} \cup ListKind

Literal == [kind : ValueKind, value : Value]

ASSUME NoValueAssumption == NoValue \notin Literal

Column ==
    [kind : ValueKind \cup {"none", "untyped"},
     vec  : UNION {[1 .. n -> Value \cup {v + 1 : v \in Value}] : n \in 0 .. MaxSlots},
     gone : SUBSET Slot]

NoColumn == [kind |-> "none", vec |-> <<>>, gone |-> {}]

-----------------------------------------------------------------------------
(* The property's type *)

\* setPropertyType, then setPropertyTypeId with what it returned: an existing property keeps its
\* type; an unknown type name gives type id 0, which setPropertyTypeId stores like any other.
setPropertyType(c, kind) ==
    IF c.kind # "none" THEN c
    ELSE [kind |-> IF kind \in ValueKind THEN kind ELSE "untyped", vec |-> <<>>, gone |-> {}]

removePropertyType(c) == NoColumn

-----------------------------------------------------------------------------
(* Writing a value *)

Padded_OneTooFar(vec, n) == [j \in 1 .. n + 1 |-> IF j <= Len(vec) THEN vec[j] ELSE Default]

Padded(vec, n) == [j \in 1 .. n |-> IF j <= Len(vec) THEN vec[j] ELSE Default]

\* setIntegerProperty and its siblings: the vector grows up to the slot, the value is stored and
\* the slot leaves deleted.
setValue(c, i, v) ==
    [c EXCEPT !.vec  = [Padded(c.vec, Max({Len(c.vec), i + 1})) EXCEPT ![i + 1] = v],
              !.gone = @ \ {i}]

deleteProperty_NotMarked(c, i) ==
    IF c.kind = "none" \/ i >= Len(c.vec) THEN c ELSE [c EXCEPT !.gone = @ \cup {i}]

\* deleteProperty and deleteProperties: the value stays in the vector, the slot enters deleted.
deleteProperty(c, i) == IF c.kind = "none" THEN c ELSE [c EXCEPT !.gone = @ \cup {i}]

\* setNodeProperty takes a typed value: get<T> throws unless the kind is the column's.
TypedFits(c, l) == l.kind = c.kind

setNodeProperty(c, i, l) == IF TypedFits(c, l) THEN setValue(c, i, l.value) ELSE c

\* setProperty takes a JSON value: a double column takes integers too, a list column any array.
JsonFits(c, l) ==
    \/ l.kind = c.kind
    \/ c.kind = "double" /\ l.kind = "integer"
    \/ c.kind \in ListKind /\ l.kind \in ListKind

\* The case of double_type runs into the one of string_type: a string is then refused by
\* setStringProperty and what the double column holds stays.
FallsThrough(c, l) == c.kind = "double" /\ l.kind = "string"

\* For an array of numbers the case of double_list_type converts the array itself, not its items,
\* to a number, which simdjson answers with an exception.
Throws(c, l) == c.kind = "double_list" /\ l.kind \in {"integer_list", "double_list"} /\ l.value # Default

Twice(v) == IF v = Default THEN v ELSE v + 1

\* What is stored of a value that fits. Items of another kind are left out of a list; a number
\* that is not negative passes is_int64 and is_uint64, and each appends it; the case of
\* string_list_type asks whether the array is a string, so that no item is ever appended.
fromJson(c, l) ==
    IF c.kind \notin ListKind THEN l.value
    ELSE IF l.kind # c.kind \/ c.kind = "string_list" THEN Default
    ELSE IF c.kind = "integer_list" THEN Twice(l.value)
    ELSE l.value

\* A value that does not fit deletes the property; setProperty answers FALSE.
setProperty(c, i, l) ==
    IF Throws(c, l) \/ FallsThrough(c, l) THEN c
    ELSE IF JsonFits(c, l) THEN setValue(c, i, fromJson(c, l))
    ELSE deleteProperty(c, i)

\* setPropertiesFromJSON skips names that have no type; l = NoValue when the object does not
\* name this property.
setPropertiesFromJSON(c, i, l) ==
    IF l = NoValue \/ c.kind \notin ValueKind THEN c ELSE setProperty(c, i, l)

\* Whether the JSON leaves the property as it was, and otherwise what it leaves there.
Untouched(c, l) == FallsThrough(c, l) \/ Throws(c, l)

JsonLeaves(c, l) ==
    IF l # NoValue /\ c.kind \in ValueKind /\ JsonFits(c, l) /\ ~Untouched(c, l)
    THEN fromJson(c, l) ELSE NoValue

-----------------------------------------------------------------------------
(* Reading values *)

Covers(c, i) == i < Len(c.vec)

\* Properties::getProperties: what a node or a relationship is read with.
getProperties(c, i) ==
    IF c.kind \in ValueKind /\ i \notin c.gone /\ Covers(c, i) THEN c.vec[i + 1] ELSE NoValue

\* The case of integer_list_type asks for the size of integers, where the name has no values: read by
\* itself, a list of integers is never there.
getProperty(c, i) ==
    IF c.kind \in ValueKind \ {"integer_list"} /\ i \notin c.gone /\ Covers(c, i)
    THEN c.vec[i + 1] ELSE NoValue

isDeleted(c, i) == c.kind = "none" \/ i \in c.gone

getNodeProperty(t, c, i) == IF ValidNodeId(t, i) THEN getProperty(c, i) ELSE NoValue

getPropertyOfMany_KeepsDeleted(c, ids) ==
    [i \in ToSet(ids) |->
        IF c.kind \in ValueKind /\ Covers(c, ids[Len(ids)]) THEN c.vec[i + 1] ELSE NoValue]

\* The readers of many slots look only at the last id of the list to see whether the vector is
\* long enough: when it is not, none of the ids gets a value. Lists are ascending here.
getPropertyOfMany(c, ids) ==
    [i \in ToSet(ids) |->
        IF c.kind \in ValueKind /\ Covers(c, ids[Len(ids)]) /\ i \notin c.gone
        THEN c.vec[i + 1] ELSE NoValue]

getPropertiesOfMany(c, ids) == getPropertyOfMany(c, ids)

=============================================================================
