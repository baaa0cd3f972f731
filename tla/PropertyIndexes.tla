--------------------------- MODULE PropertyIndexes ---------------------------
(***************************************************************************)
(* The index of one node property, spread over the shards by the hash of   *)
(* the value, and the handlers that keep it: src/src/graph/shard/Index.cpp,*)
(* PropertyIndex.h, and every handler of shard/Node.cpp that writes the    *)
(* property. A value's entries live on one shard, Home[value], while the   *)
(* node lives on the shard of its key; each handler that changes a value   *)
(* changes its own columns at once and sends the removal of the old entry  *)
(* and the insertion of the new one to the homes of the values, without    *)
(* waiting for either (node_index_add_helper, node_index_remove_helper).   *)
(*                                                                         *)
(* Creating an index runs over all shards twice, first to create the empty *)
(* parts, then to fill them; writes go on meanwhile. Messages from one     *)
(* shard to another are handled in the order they were sent: Seastar keeps *)
(* one queue for each pair of shards.                                      *)
(*                                                                         *)
(* An entry is a value with the shard and slot of the node: the external   *)
(* id. The index of one property never meets that of another.              *)
(***************************************************************************)
EXTENDS PropertyFinds

CONSTANTS Shard,      \* the shards, 0 .. n - 1
          KeyHome,    \* CalculateShardId(type, key): the shard of a node
          Home,       \* CalculateShardId(type, property, value): the shard of a value's entries
          Caller,     \* the shards on which indexes are created and deleted
          NoIndex,    \* the part of a shard that has no index for the property
          MaxWrites,  \* bound of the model: handlers that write
          MaxTasks    \* bound of the model: index creations and deletions

ASSUME PropertyIndexesAssumption ==
    /\ KeyHome \in [Key -> Shard]
    /\ Home \in [Value -> Shard]
    /\ 0 \in Shard
    /\ Caller \subseteq Shard
    /\ \A s \in Shard : Cardinality({k \in Key : KeyHome[k] = s}) <= MaxSlots
    /\ MaxWrites \in Nat /\ MaxTasks \in Nat

VARIABLES nodes,      \* nodes[s]: the column group of the node type on shard s
          column,     \* column[s]: the column of the property on shard s
          index,      \* index[s]: NoIndex, or how often each entry is in the part of shard s
          channel,    \* channel[s][d]: messages sent from s to d and not handled yet
          task,       \* the index creation or deletion under way, seen from the shard it runs on
          writes,     \* writes so far
          tasks,      \* creations and deletions so far
          filled,     \* history: shards whose nodes have been put into the present index
          missed,     \* history: nodes ValidNodeId refused when their shard was put into the index
          early,      \* history: nodes written after their shard got an index, before it was filled
          misled,     \* history: nodes whose JSON was refused, with the index not told of the change
          leftover    \* history: nodes with messages for the former index on their way when it went

vars == <<nodes, column, index, channel, task, writes, tasks, filled, missed, early, misled,
          leftover>>

Entry == Value \X Shard \X Slot

\* One part of the index: how often each entry is in it.
PropertyIndex == [Entry -> Nat]

EmptyIndex == [e \in Entry |-> 0]

ASSUME NoIndexAssumption == NoIndex \notin PropertyIndex

Idle == [phase |-> "idle"]

Message ==
    [op : {"insert", "remove"}, entry : Entry, fill : BOOLEAN]
        \cup [op : {"create", "fill", "delete"}]

TypeOK ==
    /\ nodes \in [Shard -> NodeType]
    /\ column \in [Shard -> Column]
    /\ \A s \in Shard : index[s] = NoIndex \/ index[s] \in PropertyIndex
    /\ \A s, d \in Shard : \A n \in DOMAIN channel[s][d] : channel[s][d][n] \in Message
    /\ task.phase \in {"idle", "create", "fill", "delete"}
    /\ task.phase # "idle" => task.waiting \subseteq Shard /\ task.at \in Shard
    /\ writes \in 0 .. MaxWrites
    /\ tasks \in 0 .. MaxTasks
    /\ filled \subseteq Shard
    /\ missed \subseteq Shard \X Slot
    /\ early \subseteq Shard \X Slot
    /\ misled \subseteq Shard \X Slot
    /\ leftover \subseteq Shard \X Slot

\* The node type after every key of the shard has been added, one after the other.
AllAdded(s) ==
    LET keys == SetToSeq({k \in Key : KeyHome[k] = s})
    IN  [keyToNodeId |-> [k \in Key |-> IF KeyHome[k] # s THEN NoSlot
                                        ELSE (CHOOSE n \in DOMAIN keys : keys[n] = k) - 1],
         keys |-> keys, deletedIds |-> {}]

\* Every shard knows the property, the same type everywhere; its nodes have been added without a
\* value.
Init ==
    /\ nodes = [s \in Shard |-> AllAdded(s)]
    /\ \E kind \in {"integer", "string"} :
          column = [s \in Shard |-> [setPropertyType(NoColumn, kind) EXCEPT !.gone = SlotsOf(AllAdded(s))]]
    /\ index = [s \in Shard |-> NoIndex]
    /\ channel = [s \in Shard |-> [d \in Shard |-> <<>>]]
    /\ task = Idle
    /\ writes = 0
    /\ tasks = 0
    /\ filled = {}
    /\ missed = {}
    /\ early = {}
    /\ misled = {}
    /\ leftover = {}

KindOf == column[0].kind

ValueOf(s, i) == getNodeProperty(nodes[s], column[s], i)

-----------------------------------------------------------------------------
(* One part of the index: PropertyIndex *)

\* n is how often the pair is there, kind the type of the property. Numbers are kept in a multimap, which takes the same pair
\* twice; strings and booleans are not entered twice.
Inserted(kind, n) == IF kind = "string" THEN 1 ELSE n + 1

\* One matching pair leaves.
Removed(n) == IF n = 0 THEN 0 ELSE n - 1

\* How often entry e is there once message m is handled.
Counted(kind, n, m, e) ==
    IF m.op \notin {"insert", "remove"} \/ m.entry # e THEN n
    ELSE IF m.op = "insert" THEN Inserted(kind, n) ELSE Removed(n)

\* NodeIndexInsert and NodeIndexRemove do nothing on a shard without the index.
Applied(x, m) == IF x = NoIndex THEN x ELSE [e \in Entry |-> Counted(KindOf, x[e], m, e)]

-----------------------------------------------------------------------------
(* Sending: net stands for the parts of the index and the messages on their way *)

Net == [index |-> index, channel |-> channel]

Send(net, s, d, m) ==
    IF s = d /\ m.op \in {"insert", "remove"}
    THEN [net EXCEPT !.index[d] = Applied(@, m)]
    ELSE [net EXCEPT !.channel[s][d] = Append(@, m)]

\* node_index_add_helper and node_index_remove_helper: only for a value.
Tell(net, op, s, i, v) ==
    IF v = NoValue THEN net
    ELSE Send(net, s, Home[v], [op |-> op, entry |-> <<v, s, i>>, fill |-> FALSE])

Reindexed_KeepsOld(s, i, old, new) ==
    IF index[s] = NoIndex \/ old = new THEN Net ELSE Tell(Net, "insert", s, i, new)

\* What the handlers do to the index after a change from old to new.
Reindexed(s, i, old, new) ==
    IF index[s] = NoIndex \/ old = new THEN Net
    ELSE Tell(Tell(Net, "remove", s, i, old), "insert", s, i, new)

NetBecomes(net) == index' = net.index /\ channel' = net.channel

\* What every writing handler shares: it counts, and it makes its node known to the history. The
\* index hears of the node only when the value changes or is told anew.
Writes(s, i, told) ==
    /\ writes < MaxWrites
    /\ writes' = writes + 1
    /\ missed' = IF told THEN missed \ {<<s, i>>} ELSE missed
    /\ early' = IF index[s] # NoIndex /\ s \notin filled THEN early \cup {<<s, i>>} ELSE early
    /\ UNCHANGED <<task, tasks, filled, leftover>>

\* A handler that answers FALSE to JSON has changed the columns and tells the index nothing.
TellsNothing(s, i) ==
    /\ misled' = IF index[s] = NoIndex THEN misled ELSE misled \cup {<<s, i>>}
    /\ UNCHANGED <<index, channel>>

Tells(net) == NetBecomes(net) /\ UNCHANGED misled

-----------------------------------------------------------------------------
(* The handlers of shard/Node.cpp *)

\* Objects of JSON: the value for the property or NoValue when it is not named, and whether names
\* without a type are in it too, which is enough for setPropertiesFromJSON to answer FALSE.
Json == [value : Value \cup {NoValue}, others : BOOLEAN]

NodeAddToShard(s, k, v) ==
    LET i == NextSlot(nodes[s])
        c == deleteProperty(column[s], i)
    IN  /\ KeyHome[k] = s
        /\ nodes[s].keyToNodeId[k] = NoSlot
        /\ HasRoom(nodes[s])
        /\ nodes' = [nodes EXCEPT ![s] = NodeAdd(@, k)]
        /\ column' = [column EXCEPT ![s] = IF v = NoValue THEN c ELSE setValue(c, i, v)]
        /\ Tells(Reindexed(s, i, NoValue, getNodeProperty(NodeAdd(nodes[s], k), column'[s], i)))
        /\ Writes(s, i, TRUE)

RemoveNode(s, i) ==
    /\ ValidNodeId(nodes[s], i)
    /\ Tells(Reindexed(s, i, ValueOf(s, i), NoValue))
    /\ nodes' = [nodes EXCEPT ![s] = NodeRemove(@, i)]
    /\ column' = [column EXCEPT ![s] = deleteProperty(@, i)]
    /\ Writes(s, i, TRUE)

NodeSetProperty(s, i, v) ==
    /\ ValidNodeId(nodes[s], i)
    /\ column' = [column EXCEPT ![s] = setValue(@, i, v)]
    /\ Tells(Reindexed(s, i, ValueOf(s, i), v))
    /\ Writes(s, i, ValueOf(s, i) # v)
    /\ UNCHANGED nodes

\* NodeSetPropertyFromJson with a value that does not fit: the property is deleted, the answer is
\* FALSE and the index is left as it is.
NodeSetPropertyRefused(s, i) ==
    /\ ValidNodeId(nodes[s], i)
    /\ column' = [column EXCEPT ![s] = deleteProperty(@, i)]
    /\ TellsNothing(s, i)
    /\ Writes(s, i, TRUE)
    /\ UNCHANGED nodes

\* NodeSetPropertiesFromJson: with an unknown name in the object the known ones are set, but the
\* answer is FALSE and the index is left as it is.
NodeSetPropertiesFromJson(s, i, json) ==
    /\ ValidNodeId(nodes[s], i)
    /\ json.value # NoValue
    /\ column' = [column EXCEPT ![s] = setValue(@, i, json.value)]
    /\ IF json.others THEN TellsNothing(s, i) ELSE Tells(Reindexed(s, i, ValueOf(s, i), json.value))
    /\ Writes(s, i, ValueOf(s, i) # json.value)
    /\ UNCHANGED nodes

\* NodeDeleteProperty and NodeDeleteProperties.
NodeDeleteProperty(s, i) ==
    /\ ValidNodeId(nodes[s], i)
    /\ column' = [column EXCEPT ![s] = deleteProperty(@, i)]
    /\ Tells(Reindexed(s, i, ValueOf(s, i), NoValue))
    /\ Writes(s, i, TRUE)
    /\ UNCHANGED nodes

\* NodeResetPropertiesFromJson: the old entry goes even when the new value is the same.
NodeResetPropertiesFromJson(s, i, json) ==
    LET c      == deleteProperty(column[s], i)
        taken  == IF index[s] = NoIndex THEN Net ELSE Tell(Net, "remove", s, i, ValueOf(s, i))
        placed == IF index[s] = NoIndex THEN taken ELSE Tell(taken, "insert", s, i, json.value)
    IN  /\ ValidNodeId(nodes[s], i)
        /\ column' = [column EXCEPT ![s] = IF json.value = NoValue THEN c ELSE setValue(c, i, json.value)]
        /\ IF json.others
           THEN /\ NetBecomes(taken)
                /\ misled' = IF index[s] = NoIndex THEN misled ELSE misled \cup {<<s, i>>}
           ELSE Tells(placed)
        /\ Writes(s, i, TRUE)
        /\ UNCHANGED nodes

-----------------------------------------------------------------------------
(* Creating and deleting the index: NodeIndexCreatePeered, NodeIndexDeletePeered *)

\* container().map from shard c: a message to each other shard; on c itself the function runs at once.
Asked(c, op) ==
    [d \in Shard |->
        IF d # c THEN channel[d]
        ELSE [e \in Shard |-> IF e = c THEN channel[c][c] ELSE Append(channel[c][e], [op |-> op])]]

Created(x, d) == IF x[d] = NoIndex THEN [x EXCEPT ![d] = EmptyIndex] ELSE x

NodeIndexCreatePeered(c) ==
    /\ task = Idle
    /\ tasks < MaxTasks
    /\ tasks' = tasks + 1
    /\ index' = Created(index, c)
    /\ task' = [phase |-> "create", at |-> c, waiting |-> Shard \ {c}, ok |-> index[c] = NoIndex]
    /\ channel' = Asked(c, "create")
    /\ UNCHANGED <<nodes, column, writes, filled, missed, early, misled, leftover>>

\* The slots of shard d with an insertion or a removal on its way to another shard.
Travelling(d) ==
    {i \in Slot : \E h \in Shard : \E n \in DOMAIN channel[d][h] :
        channel[d][h][n].op \in {"insert", "remove"} /\ channel[d][h][n].entry[3] = i}

\* NodeIndexDelete: the history of the shard's fill ends with its part of the index. Nothing calls
\* back what the shard has sent to the other parts: it is handled by whatever index they have then.
Deleted(d) ==
    /\ index' = [index EXCEPT ![d] = NoIndex]
    /\ filled' = filled \ {d}
    /\ missed' = {x \in missed : x[1] # d}
    /\ early' = {x \in early : x[1] # d}
    /\ misled' = {x \in misled : x[1] # d}
    /\ leftover' = {x \in leftover : x[1] # d} \cup ({d} \X Travelling(d))

NodeIndexDeletePeered(c) ==
    /\ task = Idle
    /\ tasks < MaxTasks
    /\ tasks' = tasks + 1
    /\ Deleted(c)
    /\ task' = [phase |-> "delete", at |-> c, waiting |-> Shard \ {c}, ok |-> TRUE]
    /\ channel' = Asked(c, "delete")
    /\ UNCHANGED <<nodes, column, writes>>

FillSlots_FirstOnly(d) == {i \in {0} : ValidNodeId(nodes[d], i)}

\* The nodes the fill visits: all positions of keys[type] that ValidNodeId accepts.
FillSlots(d) == {i \in SlotsOf(nodes[d]) : ValidNodeId(nodes[d], i)}

\* The slots the fill of shard d has an entry for on shard h.
DueOn(d, h) == {i \in FillSlots(d) : ValueOf(d, i) # NoValue /\ Home[ValueOf(d, i)] = h}

Entered(d, i) == [op |-> "insert", entry |-> <<ValueOf(d, i), d, i>>, fill |-> TRUE]

\* What shard d sends to shard h, in the order of the slots.
FillMessages(d, h) ==
    LET slots == Ascending(DueOn(d, h)) IN [n \in DOMAIN slots |-> Entered(d, slots[n])]

\* An entry for every value shard d holds: its own part takes its entries at once.
Fill(net, d) ==
    [index   |-> [net.index EXCEPT ![d] =
                     [e \in Entry |-> IF e[2] = d /\ e[3] \in DueOn(d, d) /\ e[1] = ValueOf(d, e[3])
                                      THEN Inserted(KindOf, @[e]) ELSE @[e]]],
     channel |-> [net.channel EXCEPT ![d] =
                     [h \in Shard |-> IF h = d THEN @[h] ELSE @[h] \o FillMessages(d, h)]]]

\* History: ValidNodeId refuses some slots that hold a node, and the fill passes over those.
Filled(d) ==
    /\ filled' = filled \cup {d}
    /\ missed' = missed \cup
                  {<<d, i>> : i \in {j \in LiveSlots(nodes[d]) : ~ValidNodeId(nodes[d], j)}}

\* All shards have created their part: the second map starts. If one had it already, FALSE is the
\* answer and nothing is undone.
NodeIndexFillPeered ==
    /\ task.phase = "create"
    /\ task.waiting = {}
    /\ IF task.ok
       THEN /\ task' = [task EXCEPT !.phase = "fill", !.waiting = Shard \ {task.at}]
            /\ NetBecomes(Fill([index |-> index, channel |-> Asked(task.at, "fill")], task.at))
            /\ Filled(task.at)
       ELSE /\ task' = Idle
            /\ UNCHANGED <<index, channel, filled, missed>>
    /\ UNCHANGED <<nodes, column, writes, tasks, early, misled, leftover>>

Filling == \E s, d \in Shard : \E n \in DOMAIN channel[s][d] :
    channel[s][d][n].op = "insert" /\ channel[s][d][n].fill

NodeIndexAnswer ==
    /\ task.phase \in {"fill", "delete"}
    /\ task.waiting = {}
    /\ ~Filling
    /\ task' = Idle
    /\ UNCHANGED <<nodes, column, index, channel, writes, tasks, filled, missed, early, misled,
                   leftover>>

-----------------------------------------------------------------------------
(* Handling the first message from s to d *)

Rest(s, d) == [channel EXCEPT ![s][d] = Tail(@)]

NodeIndexCreate(s, d) ==
    /\ index' = Created(index, d)
    /\ task' = [task EXCEPT !.waiting = @ \ {d}, !.ok = @ /\ index[d] = NoIndex]
    /\ channel' = Rest(s, d)
    /\ UNCHANGED <<filled, missed, early, misled, leftover>>

NodeIndexDelete(s, d) ==
    /\ Deleted(d)
    /\ task' = [task EXCEPT !.waiting = @ \ {d}]
    /\ channel' = Rest(s, d)

NodeIndexFill(s, d) ==
    /\ NetBecomes(Fill([index |-> index, channel |-> Rest(s, d)], d))
    /\ Filled(d)
    /\ task' = [task EXCEPT !.waiting = @ \ {d}]
    /\ UNCHANGED <<early, misled, leftover>>

Deliver(s, d) ==
    /\ channel[s][d] # <<>>
    /\ LET m == Head(channel[s][d]) IN
          \/ m.op \in {"insert", "remove"}
                /\ index' = [index EXCEPT ![d] = Applied(@, m)]
                /\ channel' = Rest(s, d)
                /\ UNCHANGED <<task, filled, missed, early, misled, leftover>>
          \/ m.op = "create" /\ NodeIndexCreate(s, d)
          \/ m.op = "delete" /\ NodeIndexDelete(s, d)
          \/ m.op = "fill" /\ NodeIndexFill(s, d)
    /\ UNCHANGED <<nodes, column, writes, tasks>>

Write ==
    \E s \in Shard :
        \/ \E k \in Key, v \in Value \cup {NoValue} : NodeAddToShard(s, k, v)
        \/ \E i \in Slot : RemoveNode(s, i) \/ NodeDeleteProperty(s, i) \/ NodeSetPropertyRefused(s, i)
        \/ \E i \in Slot, v \in Value : NodeSetProperty(s, i, v)
        \/ \E i \in Slot, json \in Json :
              NodeSetPropertiesFromJson(s, i, json) \/ NodeResetPropertiesFromJson(s, i, json)

Next ==
    \/ Write
    \/ \E c \in Caller : NodeIndexCreatePeered(c) \/ NodeIndexDeletePeered(c)
    \/ NodeIndexFillPeered
    \/ NodeIndexAnswer
    \/ \E s, d \in Shard : Deliver(s, d)

Spec == Init /\ [][Next]_vars

-----------------------------------------------------------------------------
(* Searching: shard/Find.cpp and peered/Find.cpp *)

\* PropertyIndex::lookup_range: how often entry e is in what the part of shard s returns.
lookup_range(s, op, v, e) == IF Evaluate(op, e[1], v) THEN index[s][e] ELSE 0

\* FindNodeCountPeered, and what FindNodeIdsPeered pages through, as the number of times entry e
\* is in it: for EQ the home of the value is asked, otherwise every shard looks into its part.
Asking_Here(op, v) == {0}

Asking(op, v) == IF op = "EQ" THEN {Home[v]} ELSE Shard

FindNodeIdsPeered(op, v, e) ==
    Cardinality(UNION {{s} \X (1 .. lookup_range(s, op, v, e)) : s \in Asking(op, v)})

-----------------------------------------------------------------------------
(* Properties *)

\* How often entry e is there once the messages are handled, when it is there x times now.
After(kind, x, messages, e) ==
    LET count[n \in 0 .. Len(messages)] ==
            IF n = 0 THEN x ELSE Counted(kind, count[n - 1], messages[n], e)
    IN  count[Len(messages)]

\* The count of an entry once everything its node's shard has sent is handled.
Owed(s, i, v) == After(KindOf, index[Home[v]][<<v, s, i>>], channel[s][Home[v]], <<v, s, i>>)

Indexed(s) == s \in filled /\ \A d \in Shard : index[d] # NoIndex

\* Once a shard's nodes have been put into the index, every value of theirs has its entry on the
\* home shard or a message on its way there that leaves it there, however writes and the fill
\* interleaved; left out are only a node that ValidNodeId refused during the fill, until its value
\* changes, and one whose JSON was refused.
NothingMissing ==
    \A s \in Shard : Indexed(s) =>
        \A i \in LiveSlots(nodes[s]), v \in Value :
            getProperty(column[s], i) = v /\ <<s, i>> \notin missed \cup misled => Owed(s, i, v) > 0

\* No entry outlives its value: when all messages of a node's shard are handled, an entry stands
\* for a value the node has, and only once. Numbers are the exception: one written while the index
\* was being created is entered twice, and its removal takes away one. So are nodes with messages
\* on their way when the index was deleted: they may be handled by the next index.
NothingStale ==
    \A s \in Shard : Indexed(s) =>
        \A i \in Slot, v \in Value :
            <<s, i>> \notin misled \cup leftover /\ (KindOf = "string" \/ <<s, i>> \notin early) =>
                Owed(s, i, v) <= (IF i \in LiveSlots(nodes[s]) /\ getProperty(column[s], i) = v
                                  THEN 1 ELSE 0)

AtRest == task = Idle /\ (\A s \in Shard : Indexed(s)) /\ \A s, d \in Shard : channel[s][d] = <<>>

\* When nothing is on its way, a search through the index finds on all shards what a scan of the
\* columns finds, each node once.
SearchesAgree ==
    AtRest /\ missed \cup misled \cup leftover = {} /\ (KindOf = "string" \/ early = {}) =>
        \A op \in Comparison, v \in Value, e \in Entry :
            FindNodeIdsPeered(op, v, e) =
                IF /\ e[3] \in MatchingSlots(nodes[e[2]], column[e[2]], op, [value |-> v])
                   /\ getProperty(column[e[2]], e[3]) = e[1]
                THEN 1 ELSE 0

=============================================================================
