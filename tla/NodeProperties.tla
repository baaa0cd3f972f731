--------------------------- MODULE NodeProperties ----------------------------
(***************************************************************************)
(* One property of the nodes of one type on one shard, from its insertion  *)
(* to its removal and over the whole life of the slots below it: what      *)
(* reads, counts, finds and filters answer, whatever was added, written,   *)
(* deleted, refused and removed before. src/src/graph/shard/Node.cpp with  *)
(* NodeTypes.cpp, Properties.cpp, node/Find.cpp and node/Filter.cpp.       *)
(*                                                                         *)
(* Indexes, which the same handlers keep, are in PropertyIndexes.          *)
(***************************************************************************)
EXTENDS BatchReads

VARIABLES nodes,      \* the column group of the node type
          column,     \* the column of the property
          written,    \* history: the value a client expects of each slot, NoValue for none
          late        \* history: slots as old as the type of the property, untouched since

vars == <<nodes, column, written, late>>

TypeOK ==
    /\ nodes \in NodeType
    /\ column \in Column
    /\ written \in [Slot -> Value \cup {NoValue}]
    /\ late \subseteq Slot

Init ==
    /\ nodes = EmptyNodeType
    /\ column = NoColumn
    /\ written = [i \in Slot |-> NoValue]
    /\ late = {}

Write(i, l) ==
    /\ written' = [written EXCEPT ![i] = IF Untouched(column, l) THEN @ ELSE JsonLeaves(column, l)]
    /\ late' = IF Untouched(column, l) THEN late ELSE late \ {i}

-----------------------------------------------------------------------------
(* NodeAdd, NodeAddMany and NodeRemove *)

\* addId clears the properties of the slot before the new node's are set.
addId_Properties(c, i) == deleteProperty(c, i)

\* l = NoValue: the JSON of the new node does not name the property.
NodeAddWithProperties(k, l) ==
    LET i == NextSlot(nodes) IN
    /\ nodes.keyToNodeId[k] = NoSlot
    /\ HasRoom(nodes)
    /\ nodes' = NodeAdd(nodes, k)
    /\ column' = setPropertiesFromJSON(addId_Properties(column, i), i, l)
    /\ written' = [written EXCEPT ![i] = JsonLeaves(column, l)]
    /\ late' = late \ {i}

\* The relationships that leave with the node are the concern of GraphShards.
RemoveNode(i) ==
    /\ ValidNodeId(nodes, i)
    /\ nodes' = NodeRemove(nodes, i)
    /\ column' = deleteProperty(column, i)
    /\ written' = [written EXCEPT ![i] = NoValue]
    /\ late' = late \ {i}

-----------------------------------------------------------------------------
(* Writing the property of a node *)

NodeSetProperty(i, l) ==
    /\ ValidNodeId(nodes, i)
    /\ TypedFits(column, l)
    /\ column' = setNodeProperty(column, i, l)
    /\ written' = [written EXCEPT ![i] = l.value]
    /\ late' = late \ {i}
    /\ UNCHANGED nodes

\* NodeSetPropertyFromJson and NodeSetPropertiesFromJson.
NodeSetPropertyFromJson(i, l) ==
    /\ ValidNodeId(nodes, i)
    /\ column.kind \in ValueKind
    /\ column' = setProperty(column, i, l)
    /\ Write(i, l)
    /\ UNCHANGED nodes

\* NodeDeleteProperty and NodeDeleteProperties.
NodeDeleteProperty(i) ==
    /\ ValidNodeId(nodes, i)
    /\ column' = deleteProperty(column, i)
    /\ written' = [written EXCEPT ![i] = NoValue]
    /\ late' = IF column.kind = "none" THEN late ELSE late \ {i}
    /\ UNCHANGED nodes

NodeResetPropertiesFromJson(i, l) ==
    /\ ValidNodeId(nodes, i)
    /\ column.kind # "none"
    /\ column' = setPropertiesFromJSON(deleteProperty(column, i), i, l)
    /\ written' = [written EXCEPT ![i] = JsonLeaves(column, l)]
    /\ late' = late \ {i}
    /\ UNCHANGED nodes

-----------------------------------------------------------------------------
(* The property's type *)

NodePropertyTypeInsert(kind) ==
    /\ column' = setPropertyType(column, kind)
    /\ late' = IF column.kind = "none" THEN SlotsOf(nodes) ELSE late
    /\ UNCHANGED <<nodes, written>>

NodePropertyTypeDelete ==
    /\ column.kind # "none"
    /\ column' = removePropertyType(column)
    /\ written' = [i \in Slot |-> NoValue]
    /\ late' = {}
    /\ UNCHANGED nodes

Next ==
    \/ \E k \in Key, l \in Literal \cup {NoValue} : NodeAddWithProperties(k, l)
    \/ \E i \in Slot : RemoveNode(i) \/ NodeDeleteProperty(i)
    \/ \E i \in Slot, l \in Literal : NodeSetProperty(i, l) \/ NodeSetPropertyFromJson(i, l)
    \/ \E i \in Slot, l \in Literal \cup {NoValue} : NodeResetPropertiesFromJson(i, l)
    \/ \E kind \in ValueKind \cup {"unknown"} : NodePropertyTypeInsert(kind)
    \/ NodePropertyTypeDelete

Spec == Init /\ [][Next]_vars

-----------------------------------------------------------------------------
(* Properties *)

Visible == {i \in Slot : ValidNodeId(nodes, i)}

Matches(op, l) ==
    {i \in LiveSlots(nodes) : written[i] # NoValue /\ Holds(column.kind, op, written[i], l.value)}

\* What searches ask for: a value that is stored, and one above them all.
Asked == Value \cup {Max(Value) + 2}

\* The filters compare texts and lists of booleans in another way than the counts and the finds do,
\* and other lists not at all.
ComparedAlike(kind, op) ==
    CASE kind = "string"       -> op \in Comparison
      [] kind = "boolean_list" -> op \in {"EQ", "NEQ"}
      [] OTHER                 -> kind \notin ListKind

\* What is read is what was last written, or else the slot is late and reads as 0.
IsLastWrite(i, read) ==
    read = written[i] \/ (i \in late /\ i \notin column.gone /\ read = Default)

\* Reading one node gives for its property what was last written to that node, across reuse of its
\* slot, refused JSON values and changes of the property's type, and so does reading the property by
\* itself. The code makes two exceptions: a node older than the property's type reads as 0 once a
\* later node's value has grown the vector, and a list of integers read by itself is never there.
ReadsWhatWasWritten ==
    \A i \in LiveSlots(nodes) :
        /\ IsLastWrite(i, getProperties(column, i))
        /\ IF column.kind = "integer_list" THEN getProperty(column, i) = NoValue
           ELSE IsLastWrite(i, getProperty(column, i))

\* Two shards in the same state stand for the shards of the property when ids of both are asked for.
Shards == [s \in 0 .. 1 |-> [nodes |-> nodes, column |-> column]]

\* A batch of reads over two shards, some of the nodes freed meanwhile, says of a node what reading
\* it alone says, or nothing of its property; it leaves no property out when the last node a shard is
\* asked for has it. A node that is gone takes with it what is read of its own shard and nothing of the
\* other. Keys and the properties at the ends of links come node by node, these without the lists of
\* integers, which the batch does give. The neighbours of nodes are the nodes their links name, as
\* long as all of them exist (see StaleNeighborsLeftOut).
BatchReadsAgree ==
    column.kind # "none" =>
        \A slots \in SUBSET SlotsOf(nodes) :
            LET group == [s \in 0 .. 1 |-> IF s = 0 THEN slots ELSE SlotsOf(nodes) \ slots]
                ids   == UNION {{s} \X group[s] : s \in 0 .. 1}
                read  == [id \in ids |-> IF id[2] \in Visible THEN getProperties(column, id[2]) ELSE NoValue]
                whole == {s \in 0 .. 1 : group[s] # {} /\ group[s] \subseteq Visible}
                full  == {s \in whole : read[<<s, Max(group[s])>>] # NoValue}
                answered == {id \in ids : id[1] \in whole}
                found    == NodesGetPeered(Shards, ids)
                values   == NodesGetPropertyPeered(Shards, ids)
                ends     == [n \in 1 .. Cardinality(slots) |-> <<0, Ascending(slots)[n]>>]
            IN  /\ DOMAIN found = answered
                /\ NodesGetPropertiesPeered(Shards, ids) = [id \in answered |-> found[id].value]
                /\ DOMAIN values \subseteq answered
                /\ \A id \in answered :
                      /\ found[id].id = id[2] /\ nodes.keyToNodeId[found[id].key] = id[2]
                      /\ found[id].value \in {read[id], NoValue}
                      /\ found[id].value = IF id \in DOMAIN values THEN values[id] ELSE NoValue
                      /\ id[1] \in full => found[id].value = read[id]
                /\ \A id \in ids : LET key == NodesGetKeyPeered(Shards, ids)[id] IN
                      IF id[2] \in Visible THEN nodes.keyToNodeId[key] = id[2] ELSE key = NoKey
                /\ NodesGetTypePeered(Shards, ids) = [id \in ids |-> id[2] \in Visible]
                /\ NodesGetPropertyOfLinksPeered(Shards, ids)
                      = IF column.kind = "integer_list" THEN [id \in ids |-> NoValue] ELSE read
                /\ 0 \in whole =>
                      NodeIdsGetNeighborsPeered(Shards, [id \in ids |-> ends])
                          = [id \in ids |-> [n \in DOMAIN ends |-> found[ends[n]]]]

\* The neighbours that were removed after the links were read should be left out of the answer. They
\* are not: another node is given in their place, or, when no shard answers, the vector is read
\* beyond its end.
StaleNeighborsLeftOut ==
    column.kind # "none" =>
        \A i, j \in SlotsOf(nodes) :
            LET answer == NodeIdsGetNeighborsPeered(Shards, <<<< <<0, i>>, <<1, j>> >>>>)[1]
            IN  \A n \in DOMAIN answer :
                    answer[n] # Nothing /\ answer[n].id = (IF n = 1 THEN i ELSE j)

\* A search over the column returns, page by page and in order, exactly the nodes whose last
\* written value compares that way; every node is either found as null or holds a value, and
\* those found as not null are the ones with a value that ValidNodeId accepts. This holds when
\* the property's type is older than the nodes.
FindExact ==
    late = {} /\ column.kind \in ValueKind =>
        /\ \A op \in Operation, v \in Asked, skip \in 0 .. 1, limit \in 1 .. 2 :
              findIds(nodes, column, op, [kind |-> column.kind, value |-> v], skip, limit)
                  = Page(Ascending(Matches(op, [value |-> v])), skip, limit)
        /\ ToSet(findNullIds(nodes, column, 0, MaxSlots))
              = {i \in LiveSlots(nodes) : written[i] = NoValue}
        /\ ToSet(findNotNullIds(nodes, column, 0, MaxSlots))
              = {i \in Visible : written[i] # NoValue}
        /\ \A op \in Operation, v \in Asked :
              \A n \in ToSet(findNodes(nodes, column, op, [kind |-> column.kind, value |-> v], 0, MaxSlots)) :
                  n.key \in Key /\ nodes.keyToNodeId[n.key] = n.id /\ n.value = written[n.id]

\* Counting agrees with what there is to find, for nulls too: the deleted nodes that findCount
\* takes off are always among the deleted properties it counted.
CountExact ==
    late = {} /\ column.kind \in ValueKind =>
        /\ \A op \in Operation, v \in Asked :
              findCount(nodes, column, op, [kind |-> column.kind, value |-> v])
                  = Cardinality(Matches(op, [value |-> v]))
        /\ LET nulls == {i \in LiveSlots(nodes) : written[i] = NoValue} IN
              /\ findCount(nodes, column, "IS_NULL", NoValue) = Cardinality(nulls)
              /\ findCount(nodes, column, "NOT_IS_NULL", NoValue)
                     = Cardinality(LiveSlots(nodes) \ nulls)

\* S is one of those to keep, if there are any, and none of them comes before it.
ForemostOf(S, kept, sort) ==
    /\ S \subseteq kept
    /\ Cardinality(S) = Min({1, Cardinality(kept)})
    /\ \A i \in S, j \in kept : Before(sort, written[i], written[j]) \/ written[i] = written[j]

\* Filtering a list of slots, freed ones among them, keeps the nodes whose last written value
\* compares that way, up to the limit; with a sort the ones kept are the foremost by value. The
\* filters that return nodes or their properties agree with those that return ids, unless the list
\* names nodes whose property was deleted, which they do not leave out. Counting what a filter
\* keeps is exact for texts and lists as well; what it keeps of texts and lists of booleans is where
\* both comparisons agree (see FiltersCompareAsCounts), and of other lists it keeps nothing.
FilterExact ==
    late = {} /\ column.kind \in ValueKind =>
        \A slots \in SUBSET SlotsOf(nodes) :
            LET list == Ascending(slots)
                held == {i \in slots \cap LiveSlots(nodes) : written[i] # NoValue}
            IN
            /\ \A sort \in {"NONE", "ASC"} :
                  filterIds(nodes, column, list, "NOT_IS_NULL", NoValue, MaxSlots, sort) = {held}
            /\ filterIds(nodes, column, list, "IS_NULL", NoValue, MaxSlots, "NONE")
                   = {(slots \cap LiveSlots(nodes)) \ held}
            /\ \A op \in Operation, v \in Asked :
                  LET l     == [kind |-> column.kind, value |-> v]
                      kept  == Matches(op, l) \cap slots
                      alike == ComparedAlike(column.kind, op)
                      found(limit, sort) == filterNodes(nodes, column, list, op, l, limit, sort)
                  IN
                  /\ filterCount(nodes, column, list, op, l) = Cardinality(kept)
                  /\ alike =>
                        \A S \in found(MaxSlots, "NONE") :
                            /\ kept \subseteq {n.id : n \in S}
                            /\ \A n \in S : n.id \notin kept => written[n.id] = NoValue
                  /\ \A sort \in {"NONE", "ASC", "DESC"} :
                        LET ids == filterIds(nodes, column, list, op, l, 1, sort) IN
                        /\ column.kind \in ListKind \ {"boolean_list"} => ids = {{}}
                        /\ alike /\ sort = "NONE" => ids = {IF kept = {} THEN {} ELSE {Min(kept)}}
                        /\ alike /\ sort # "NONE" /\ column.kind \notin ListKind =>
                              \A S \in ids : ForemostOf(S, kept, sort)
                        /\ slots \cap column.gone \subseteq nodes.deletedIds =>
                              /\ {{n.id : n \in S} : S \in found(1, sort)} = ids
                              /\ \A f \in filterNodeProperties(nodes, column, list, op, l, 1, sort) :
                                    \A i \in DOMAIN f : f[i] = written[i]

\* A filter should keep as many ids as the count of the same filter says: it does not for texts that
\* start with a text and for lists of booleans that are longer than a list, where Evaluate stands in for
\* EvaluateString and EvaluateVector, nor for other lists, of which it keeps none.
FiltersCompareAsCounts ==
    late = {} /\ column.kind \in ValueKind =>
        \A slots \in SUBSET SlotsOf(nodes), op \in Operation, v \in Asked :
            LET list == Ascending(slots)
                l    == [kind |-> column.kind, value |-> v]
            IN  \A S \in filterIds(nodes, column, list, op, l, MaxSlots, "NONE") :
                    Cardinality(S) = filterCount(nodes, column, list, op, l)

\* Only nodes that hold a value should come back from a filter by value, as nodes too.
FilterNodesExact ==
    late = {} /\ column.kind \in ValueKind =>
        \A slots \in SUBSET SlotsOf(nodes), v \in Value :
            \A S \in filterNodes(nodes, column, Ascending(slots), "EQ",
                                 [kind |-> column.kind, value |-> v], MaxSlots, "NONE") :
                {n.id : n \in S} = Matches("EQ", [value |-> v]) \cap slots

=============================================================================
