---------------------------- MODULE TypeRegistry ----------------------------
(***************************************************************************)
(* The type names and type ids every shard keeps a copy of, for node types *)
(* (HoldsLock = TRUE) or relationship types (HoldsLock = FALSE):            *)
(* NodeTypeInsertPeered, RelationshipTypeInsertPeered and the two           *)
(* Delete...TypePeered of src/src/graph/peered/Types.cpp, with addTypeId,   *)
(* insertOrGetTypeId and deleteTypeId of NodeTypes and RelationshipTypes.   *)
(*                                                                         *)
(* The shard that runs the request draws the id from its own table and      *)
(* broadcasts it with invoke_on_all. Ids number the positions of vectors,   *)
(* so they work only if every shard gives a type the same position.         *)
(*                                                                         *)
(* Between two shards messages arrive in the order they were sent; nothing  *)
(* orders the messages of different senders.                                *)
(***************************************************************************)
EXTENDS Integers, Sequences, FiniteSets

CONSTANTS Shard,
          Name,         \* type names
          NoName,       \* the cleared name of a deleted type
          Client,       \* requests in progress at any time
          Inserters,    \* the shards that run ...TypeInsertPeered: shard 0 for the REST
                        \* handlers and for the automatic inserts, any for GQL and Lua
          Deletes,      \* "never", "any", or "emptied": only types whose nodes are all removed,
                        \* while nothing else is asked, as deleteTypeId's comment wants it
          Storing,      \* are nodes (or relationships) of the types stored?
          HoldsLock,    \* is the lock held until the broadcast is done?
          MaxTypes      \* bound of the model: a shard's table grows to this length

ASSUME TypeRegistryAssumption ==
    /\ NoName \notin Name
    /\ Inserters \subseteq Shard
    /\ Deletes \in {"never", "emptied", "any"}
    /\ {Storing, HoldsLock} \subseteq BOOLEAN
    /\ MaxTypes \in Nat

TypeId == 1 .. MaxTypes

NoType == 0

VARIABLES typeToId,     \* typeToId[s]: type_to_id of shard s, NoType = no entry
          idToType,     \* idToType[s]: id_to_type of shard s from id 1 on, NoName = cleared
          counted,      \* counted[s]: the type ids whose getCount is not 0 on shard s
          channel,      \* channel[s][t]: the requests shard s has sent to shard t, in order
          locked,       \* locked[s]: is shard s's type lock held?
          call          \* call[c]: the request of client c

vars == <<typeToId, idToType, counted, channel, locked, call>>

Call ==
    [kind    : {"none", "insert", "known", "delete", "store"},
     name    : Name \cup {NoName},
     id      : TypeId \cup {NoType},
     at      : Shard,
     waiting : SUBSET Shard]        \* the shards that have not run the handler yet

None(s) == [kind |-> "none", name |-> NoName, id |-> NoType, at |-> s, waiting |-> {}]

IsIdle(c) == call[c].kind = "none"

\* May client c ask for something? A deletion of the "emptied" kind is left alone.
Asks(c) ==
    /\ IsIdle(c)
    /\ Deletes = "emptied" => \A d \in Client : call[d].kind # "delete"

TypeOK ==
    /\ typeToId \in [Shard -> [Name -> TypeId \cup {NoType}]]
    /\ idToType \in [Shard -> Seq(Name \cup {NoName})]
    /\ counted \in [Shard -> SUBSET TypeId]
    /\ channel \in [Shard -> [Shard -> Seq(Client)]]
    /\ locked \in [Shard -> BOOLEAN]
    /\ call \in [Client -> Call]

Init ==
    /\ typeToId = [s \in Shard |-> [n \in Name |-> NoType]]
    /\ idToType = [s \in Shard |-> <<>>]
    /\ counted = [s \in Shard |-> {}]
    /\ channel = [s \in Shard |-> [t \in Shard |-> <<>>]]
    /\ locked = [s \in Shard |-> FALSE]
    /\ call \in {[c \in Client |-> None(s)] : s \in Shard}

-----------------------------------------------------------------------------
(* One shard's table *)

\* ValidTypeId: below the size of id_to_type, deleted or not.
ValidTypeId(s, id) == id >= 1 /\ id <= Len(idToType[s])

\* addTypeId: a known name or a known id is left alone; otherwise the name goes to the end
\* of the vector, whatever the id says.
addTypeId(s, name, id) ==
    IF typeToId[s][name] # NoType \/ ValidTypeId(s, id)
    THEN UNCHANGED <<typeToId, idToType>>
    ELSE /\ typeToId' = [typeToId EXCEPT ![s][name] = id]
         /\ idToType' = [idToType EXCEPT ![s] = Append(@, name)]

NewTypeId_LastGiven(s) == IF idToType[s] = <<>> THEN 1 ELSE Len(idToType[s])

\* insertOrGetTypeId, for a name that is not there: the id is the size of the vector.
NewTypeId(s) == Len(idToType[s]) + 1

\* deleteTypeId: every shard decides by its own count; the position stays, cleared.
Deletable(s, id) == ValidTypeId(s, id) /\ id \notin counted[s]

deleteTypeId_KeepsName(s, name) ==
    LET id == typeToId[s][name]
    IN  IF Deletable(s, id)
        THEN /\ idToType' = [idToType EXCEPT ![s][id] = NoName]
             /\ UNCHANGED typeToId
        ELSE UNCHANGED <<typeToId, idToType>>

deleteTypeId_ErasesPosition(s, name) ==
    LET id == typeToId[s][name]
    IN  IF Deletable(s, id)
        THEN /\ typeToId' = [typeToId EXCEPT ![s][name] = NoType]
             /\ idToType' = [idToType EXCEPT ![s] = SubSeq(@, 1, id - 1) \o SubSeq(@, id + 1, Len(@))]
        ELSE UNCHANGED <<typeToId, idToType>>

deleteTypeId(s, name) ==
    LET id == typeToId[s][name]
    IN  IF Deletable(s, id)
        THEN /\ typeToId' = [typeToId EXCEPT ![s][name] = NoType]
             /\ idToType' = [idToType EXCEPT ![s][id] = NoName]
        ELSE UNCHANGED <<typeToId, idToType>>

-----------------------------------------------------------------------------
(* Requests *)

Broadcast_Newest(c, s) == channel' = [channel EXCEPT ![s] = [t \in Shard |-> IF t = s THEN @[t] ELSE <<c>> \o @[t]]]

\* invoke_on_all: the sender's own shard runs the handler at once, the others in their turn.
Broadcast(c, s) == channel' = [channel EXCEPT ![s] = [t \in Shard |-> IF t = s THEN @[t] ELSE Append(@[t], c)]]

\* NodeTypeInsertPeered, RelationshipTypeInsertPeered, for a name that is not there. A lock that
\* is taken makes lock().get() wait inside a Seastar thread and abort the process outside of one;
\* an aborted process is a behaviour that goes no further.
TypeInsertPeered(c, s, name) ==
    /\ Asks(c) /\ s \in Inserters
    /\ typeToId[s][name] = NoType
    /\ ~locked[s]
    /\ Len(idToType[s]) < MaxTypes
    /\ locked' = [locked EXCEPT ![s] = HoldsLock]
    /\ typeToId' = [typeToId EXCEPT ![s][name] = NewTypeId(s)]
    /\ idToType' = [idToType EXCEPT ![s] = Append(@, name)]
    /\ Broadcast(c, s)
    /\ call' = [call EXCEPT ![c] = [kind |-> "insert", name |-> name, id |-> NewTypeId(s),
                                    at |-> s, waiting |-> Shard \ {s}]]
    /\ UNCHANGED counted

\* ... and for a name this shard has: its id is the answer, at once, whether or not the broadcast
\* that brings it to the other shards is done.
TypeFoundPeered(c, s, name) ==
    /\ Asks(c) /\ s \in Inserters
    /\ typeToId[s][name] # NoType
    /\ call' = [call EXCEPT ![c] = [kind |-> "known", name |-> name, id |-> typeToId[s][name],
                                    at |-> s, waiting |-> {}]]
    /\ UNCHANGED <<typeToId, idToType, counted, channel, locked>>

\* DeleteNodeTypePeered, DeleteRelationshipTypePeered: run on whichever shard was asked, under
\* that shard's lock.
DeleteTypePeered(c, s, name) ==
    /\ IsIdle(c)
    /\ typeToId[s][name] # NoType
    /\ \/ Deletes = "any"
       \/ /\ Deletes = "emptied"
          /\ \A d \in Client : IsIdle(d)
          /\ \A t \in Shard : typeToId[s][name] \notin counted[t]
    /\ ~locked[s]
    /\ locked' = [locked EXCEPT ![s] = TRUE]
    /\ deleteTypeId(s, name)
    /\ Broadcast(c, s)
    /\ call' = [call EXCEPT ![c] = [kind |-> "delete", name |-> name, id |-> typeToId[s][name],
                                    at |-> s, waiting |-> Shard \ {s}]]
    /\ UNCHANGED counted

\* NodeAddEmptyPeered, NodeAddPeered and the like when the asked shard s knows the type: the
\* id goes to the shard t of the node, without asking it.
StorePeered(c, s, t, name) ==
    /\ Storing
    /\ Asks(c)
    /\ s # t
    /\ typeToId[s][name] # NoType
    /\ channel' = [channel EXCEPT ![s][t] = Append(@, c)]
    /\ call' = [call EXCEPT ![c] = [kind |-> "store", name |-> name, id |-> typeToId[s][name],
                                    at |-> s, waiting |-> {t}]]
    /\ UNCHANGED <<typeToId, idToType, counted, locked>>

\* ... and when the asked shard is the node's own.
StoreHere(s, name) ==
    /\ Storing
    /\ \E c \in Client : Asks(c)
    /\ ValidTypeId(s, typeToId[s][name])
    /\ counted' = [counted EXCEPT ![s] = @ \cup {typeToId[s][name]}]
    /\ UNCHANGED <<typeToId, idToType, channel, locked, call>>

\* The last of them is removed again.
Empty(s, id) ==
    /\ id \in counted[s]
    /\ counted' = [counted EXCEPT ![s] = @ \ {id}]
    /\ UNCHANGED <<typeToId, idToType, channel, locked, call>>

\* Shard t runs the next handler shard s has sent it. Storing under an id that is not valid
\* there indexes the vectors past their end: the process dies, or nothing the model shows
\* happens.
Deliver(s, t) ==
    /\ channel[s][t] # <<>>
    /\ LET c == Head(channel[s][t])
       IN  /\ \/ /\ call[c].kind = "insert"
                 /\ addTypeId(t, call[c].name, call[c].id)
                 /\ UNCHANGED counted
              \/ /\ call[c].kind = "delete"
                 /\ deleteTypeId(t, call[c].name)
                 /\ UNCHANGED counted
              \/ /\ call[c].kind = "store"
                 /\ counted' = IF ValidTypeId(t, call[c].id)
                               THEN [counted EXCEPT ![t] = @ \cup {call[c].id}]
                               ELSE counted
                 /\ UNCHANGED <<typeToId, idToType>>
           /\ call' = [call EXCEPT ![c].waiting = @ \ {t}]
    /\ channel' = [channel EXCEPT ![s][t] = Tail(@)]
    /\ UNCHANGED locked

\* All shards have answered: the lock is released and the client gets its answer.
Answer(c) ==
    /\ ~IsIdle(c)
    /\ call[c].waiting = {}
    /\ locked' = IF call[c].kind = "delete" \/ (call[c].kind = "insert" /\ HoldsLock)
                 THEN [locked EXCEPT ![call[c].at] = FALSE]
                 ELSE locked
    /\ call' = [call EXCEPT ![c] = None(call[c].at)]
    /\ UNCHANGED <<typeToId, idToType, counted, channel>>

Next ==
    \/ \E c \in Client, s \in Shard, name \in Name :
          \/ TypeInsertPeered(c, s, name)
          \/ TypeFoundPeered(c, s, name)
          \/ DeleteTypePeered(c, s, name)
          \/ \E t \in Shard : StorePeered(c, s, t, name)
    \/ \E s \in Shard, name \in Name : StoreHere(s, name)
    \/ \E s \in Shard, id \in TypeId : Empty(s, id)
    \/ \E s, t \in Shard : Deliver(s, t)
    \/ \E c \in Client : Answer(c)

Spec == Init /\ [][Next]_vars

\* Every shard's reactor polls its message queues.
FairSpec == Spec /\ \A s, t \in Shard : WF_vars(Deliver(s, t))

-----------------------------------------------------------------------------
(* Properties *)

\* On each shard names and positions are inverse: the id a name gives is the position that
\* bears the name. The vectors of keys, properties and links are indexed by it.
NamesMatchPositions ==
    \A s \in Shard :
        /\ \A n \in Name : typeToId[s][n] # NoType =>
              /\ typeToId[s][n] <= Len(idToType[s])
              /\ idToType[s][typeToId[s][n]] = n
        /\ \A i \in 1 .. Len(idToType[s]) : idToType[s][i] # NoName =>
              typeToId[s][idToType[s][i]] = i

\* The id is the same on every shard that knows the type: the ids of nodes and
\* relationships carry it from shard to shard.
TypeIdsAreGlobal ==
    \A s, t \in Shard, n, m \in Name :
        typeToId[s][n] # NoType =>
            /\ typeToId[t][n] \in {NoType, typeToId[s][n]}
            /\ n # m => typeToId[s][n] # typeToId[t][m]

\* The broadcast that brings the type to shard t is among what shard s has sent there.
OnItsWay(s, t, name, id) ==
    \E p \in 1 .. Len(channel[s][t]) :
        LET d == channel[s][t][p]
        IN  call[d].kind = "insert" /\ call[d].name = name /\ call[d].id = id

\* When the insert that drew the id is answered, every shard knows the type by that id. When a
\* later insert of the name is answered from the table (peered/Types.cpp:66, 104), a shard may
\* not know it yet, but then the broadcast is on its way there and ahead of whatever the shard
\* that answered sends afterwards.
AnsweredMeansKnown ==
    \A c \in Client : call[c].kind \in {"insert", "known"} /\ call[c].waiting = {} =>
        \A t \in Shard :
            \/ typeToId[t][call[c].name] = call[c].id
            \/ call[c].kind = "known" /\ OnItsWay(call[c].at, t, call[c].name, call[c].id)

\* A type known to one shard only for now comes to be known to all, or to none.
EventuallyAgreed ==
    \A n \in Name :
        (\E s \in Shard : typeToId[s][n] # NoType) ~>
            (\A s, t \in Shard : typeToId[s][n] = typeToId[t][n])

\* When a deletion is answered, no shard knows the type (peered/Types.cpp:89: "the type was
\* found and must therefore be deleted on all shards").
DeletedOnAllShards ==
    \A c \in Client : call[c].kind = "delete" /\ call[c].waiting = {} =>
        \A s \in Shard : typeToId[s][call[c].name] = NoType

-----------------------------------------------------------------------------
(* Statements of the code's own comments that the code does not keep *)

\* peered/Node.cpp:24: "the node type exists, so continue on": the shard the id is sent to
\* has to know it when it gets there.
StoredTypeIsKnown ==
    \A s, t \in Shard : channel[s][t] # <<>> =>
        LET c == Head(channel[s][t])
        IN  call[c].kind = "store" => ValidTypeId(t, call[c].id)

=============================================================================
