-------------------------- MODULE TypeRegistry_proofs --------------------------
(***************************************************************************)
(* What TypeRegistry keeps for every number of shards, names and clients    *)
(* when one shard inserts and types are deleted only when no shard has any  *)
(* of their nodes (TypeRegistry.cfg), with broadcasts, stores and removals  *)
(* of nodes overlapping in any way, under either kind of lock.              *)
(***************************************************************************)
EXTENDS TypeRegistry, TLAPS

\* What the REST handlers and the comment at deleteTypeId ask of clients. Several inserters, or
\* deletions of types in use, break all four properties, as TLC shows.
OneInserter == (\E z \in Shard : Inserters \subseteq {z}) /\ Deletes # "any"

Zero == CHOOSE z \in Shard : Inserters \subseteq {z}

Inserting(c) == call[c].kind = "insert"

Deleting(c) == call[c].kind = "delete"

Messages(s, t) == 1 .. Len(channel[s][t])

\* What is on its way from s to t are requests made at s that t has not handled, each once, and
\* those that insert in the order of their ids.
ChannelOK(s, t) ==
    /\ \A p \in Messages(s, t) :
          call[channel[s][t][p]].at = s /\ t \in call[channel[s][t][p]].waiting
    /\ \A p, q \in Messages(s, t) : p < q =>
          /\ channel[s][t][p] # channel[s][t][q]
          /\ Inserting(channel[s][t][p]) /\ Inserting(channel[s][t][q]) =>
                call[channel[s][t][p]].id < call[channel[s][t][q]].id

ChannelsOK == \A s, t \in Shard : ChannelOK(s, t)

\* A request is on its way to every shard it waits for.
WaitingOK ==
    \A c \in Client :
        /\ IsIdle(c) => call[c].waiting = {}
        /\ \A t \in call[c].waiting :
              /\ t # call[c].at
              /\ \E p \in Messages(call[c].at, t) : channel[call[c].at][t][p] = c

\* A type in the middle of its deletion: nothing else is asked, no shard has any of its nodes, and
\* its position is cleared on the shards that have answered and bears the name on the others.
DeletionOK ==
    \A d \in Client : Deleting(d) =>
        /\ Deletes = "emptied"
        /\ call[d].name \in Name
        /\ \A c \in Client \ {d} : IsIdle(c)
        /\ \A t \in Shard :
              /\ call[d].id \in 1 .. Len(idToType[t])
              /\ call[d].id \notin counted[t]
              /\ idToType[t][call[d].id] = IF t \in call[d].waiting THEN call[d].name ELSE NoName
              /\ \A i \in 1 .. Len(idToType[t]) : idToType[t][i] = call[d].name => i = call[d].id
        /\ \A s, t \in Shard :
              /\ Len(idToType[s]) = Len(idToType[t])
              /\ \A i \in 1 .. Len(idToType[s]) \ {call[d].id} : idToType[s][i] = idToType[t][i]

\* Otherwise every shard has a first part of what the inserting shard has.
PrefixOK ==
    (\A d \in Client : ~Deleting(d)) =>
        \A t \in Shard :
            /\ Len(idToType[t]) <= Len(idToType[Zero])
            /\ \A i \in 1 .. Len(idToType[t]) : idToType[t][i] = idToType[Zero][i]

\* An insertion is under way for each type a shard still lacks, and its id is the position of
\* the name.
InsertionOK ==
    /\ \A c \in Client : Inserting(c) =>
          /\ call[c].at = Zero
          /\ call[c].name \in Name
          /\ call[c].id \in 1 .. Len(idToType[Zero])
          /\ idToType[Zero][call[c].id] = call[c].name
          /\ \A t \in Shard : t \in call[c].waiting <=> call[c].id > Len(idToType[t])
    /\ \A t \in Shard : \A i \in 1 .. Len(idToType[Zero]) : i > Len(idToType[t]) =>
          \E c \in Client : Inserting(c) /\ call[c].id = i

\* An insertion answered from the table holds an id and its name; only the inserting shard answers.
FoundOK ==
    \A c \in Client : call[c].kind = "known" =>
        /\ call[c].at = Zero
        /\ call[c].name \in Name
        /\ call[c].id \in 1 .. Len(idToType[Zero])
        /\ idToType[Zero][call[c].id] = call[c].name

BoundOK == \A s \in Shard : Len(idToType[s]) <= MaxTypes

IInv ==
    /\ TypeOK
    /\ BoundOK
    /\ NamesMatchPositions
    /\ ChannelsOK
    /\ WaitingOK
    /\ DeletionOK
    /\ PrefixOK
    /\ InsertionOK
    /\ FoundOK

-----------------------------------------------------------------------------
(* Sequences and the inserting shard *)

LEMMA ZeroIs == ASSUME OneInserter PROVE Zero \in Shard /\ Inserters \subseteq {Zero}
BY DEF OneInserter, Zero

LEMMA AppendAt ==
    ASSUME NEW S, NEW q \in Seq(S), NEW e \in S
    PROVE  /\ Append(q, e) \in Seq(S)
           /\ Len(Append(q, e)) = Len(q) + 1
           /\ \A p \in 1 .. Len(q) : Append(q, e)[p] = q[p]
           /\ Append(q, e)[Len(q) + 1] = e
OBVIOUS

LEMMA TailAt ==
    ASSUME NEW S, NEW q \in Seq(S), q # <<>>
    PROVE  /\ Tail(q) \in Seq(S)
           /\ Len(q) \in Nat \ {0}
           /\ Len(Tail(q)) = Len(q) - 1
           /\ \A p \in 1 .. Len(q) - 1 : Tail(q)[p] = q[p + 1]
           /\ Head(q) = q[1]
           /\ Head(q) \in S
OBVIOUS

-----------------------------------------------------------------------------
(* Requests and the channels *)

\* A request that goes to the end of the channels of the shards it waits for.
LEMMA AskKeepsChannels ==
    ASSUME TypeOK, ChannelsOK, WaitingOK,
           NEW c \in Client, IsIdle(c),
           NEW s \in Shard, NEW r \in Call, r.kind # "none", r.at = s, r.waiting \subseteq Shard \ {s},
           r.kind = "insert" => \A d \in Client : Inserting(d) => call[d].id < r.id,
           call' = [call EXCEPT ![c] = r],
           channel' = [channel EXCEPT ![s] =
                          [t \in Shard |-> IF t \in r.waiting THEN Append(channel[s][t], c) ELSE channel[s][t]]]
    PROVE  /\ channel' \in [Shard -> [Shard -> Seq(Client)]]
           /\ call' \in [Client -> Call]
           /\ ChannelsOK'
           /\ WaitingOK'
<1>1. /\ channel \in [Shard -> [Shard -> Seq(Client)]]
      /\ call \in [Client -> Call]
  BY DEF TypeOK
<1>2. call' \in [Client -> Call] /\ call'[c] = r /\ \A d \in Client \ {c} : call'[d] = call[d]
  BY <1>1
<1>3. \A t \in r.waiting : Append(channel[s][t], c) \in Seq(Client)
  BY <1>1, AppendAt
<1>4. channel' \in [Shard -> [Shard -> Seq(Client)]]
  BY <1>1, <1>3
<1>5. \A a, t \in Shard : ~(a = s /\ t \in r.waiting) => channel'[a][t] = channel[a][t]
  BY <1>1
<1>6. ASSUME NEW t \in r.waiting
      PROVE  /\ Len(channel[s][t]) \in Nat
             /\ Len(channel'[s][t]) = Len(channel[s][t]) + 1
             /\ \A p \in 1 .. Len(channel[s][t]) : channel'[s][t][p] = channel[s][t][p]
             /\ channel'[s][t][Len(channel[s][t]) + 1] = c
  <2>1. channel'[s][t] = Append(channel[s][t], c) /\ channel[s][t] \in Seq(Client)
    BY <1>1
  <2> QED  BY <2>1, AppendAt
<1>7. \A a, t \in Shard : \A p \in Messages(a, t) :
          channel[a][t][p] \in Client /\ channel[a][t][p] # c
  <2> SUFFICES ASSUME NEW a \in Shard, NEW t \in Shard, NEW p \in Messages(a, t)
               PROVE  channel[a][t][p] \in Client /\ channel[a][t][p] # c
    OBVIOUS
  <2>1. channel[a][t][p] \in Client
    BY <1>1 DEF Messages
  <2>2. t \in call[channel[a][t][p]].waiting
    BY DEF ChannelsOK, ChannelOK
  <2>3. call[c].waiting = {}
    BY DEF WaitingOK
  <2> QED  BY <2>1, <2>2, <2>3
<1>8. ASSUME NEW t \in r.waiting PROVE ChannelOK(s, t)'
  <2> DEFINE n == Len(channel[s][t])
             old == channel[s][t]
             new == channel'[s][t]
  <2>1. n \in Nat /\ (\A p \in 1 .. n : new[p] = old[p]) /\ new[n + 1] = c /\ Len(new) = n + 1
    BY <1>6
  <2>2. /\ \A p \in 1 .. n : old[p] \in Client \ {c}
        /\ \A p \in 1 .. n : call[old[p]].at = s /\ t \in call[old[p]].waiting
        /\ \A p, q \in 1 .. n : p < q =>
              /\ old[p] # old[q]
              /\ Inserting(old[p]) /\ Inserting(old[q]) => call[old[p]].id < call[old[q]].id
    <3>1. ChannelOK(s, t)
      BY DEF ChannelsOK
    <3> QED  BY <1>7, <3>1 DEF ChannelOK, Messages
  <2> HIDE DEF n, old, new
  <2>3. \A p \in 1 .. n + 1 : p \in 1 .. n \/ p = n + 1
    BY <2>1
  <2>4. \A p \in 1 .. n + 1 : call'[new[p]].at = s /\ t \in call'[new[p]].waiting
    BY <1>2, <2>1, <2>2, <2>3
  <2>5. ASSUME NEW p \in 1 .. n + 1, NEW q \in 1 .. n + 1, p < q
        PROVE  /\ new[p] # new[q]
               /\ call'[new[p]].kind = "insert" /\ call'[new[q]].kind = "insert" =>
                     call'[new[p]].id < call'[new[q]].id
    <3>1. p \in 1 .. n
      BY <2>1, <2>5
    <3>2. CASE q = n + 1
      BY <1>2, <2>1, <2>2, <3>1, <3>2 DEF Inserting
    <3>3. CASE q \in 1 .. n
      BY <1>2, <2>1, <2>2, <2>5, <3>1, <3>3 DEF Inserting
    <3> QED  BY <2>3, <3>2, <3>3
  <2> QED  BY <2>1, <2>4, <2>5, Zenon DEF ChannelOK, Messages, Inserting, new
<1>10. ASSUME NEW a \in Shard, NEW t \in Shard, ~(a = s /\ t \in r.waiting) PROVE ChannelOK(a, t)'
  <2>1. channel'[a][t] = channel[a][t]
    BY <1>5, <1>10
  <2>2. ChannelOK(a, t)
    BY DEF ChannelsOK
  <2>3. \A p \in Messages(a, t) : call'[channel[a][t][p]] = call[channel[a][t][p]]
    BY <1>2, <1>7
  <2>4. /\ \A p \in 1 .. Len(channel[a][t]) :
              call'[channel[a][t][p]].at = a /\ t \in call'[channel[a][t][p]].waiting
        /\ \A p, q \in 1 .. Len(channel[a][t]) : p < q =>
              /\ channel[a][t][p] # channel[a][t][q]
              /\ call'[channel[a][t][p]].kind = "insert" /\ call'[channel[a][t][q]].kind = "insert" =>
                    call'[channel[a][t][p]].id < call'[channel[a][t][q]].id
    BY <2>2, <2>3 DEF ChannelOK, Messages, Inserting
  <2> DEFINE after == channel'[a][t]
  <2>5. after = channel[a][t]
    BY <2>1
  <2> HIDE DEF after
  <2>6. /\ \A p \in 1 .. Len(after) : call'[after[p]].at = a /\ t \in call'[after[p]].waiting
        /\ \A p, q \in 1 .. Len(after) : p < q =>
              /\ after[p] # after[q]
              /\ call'[after[p]].kind = "insert" /\ call'[after[q]].kind = "insert" =>
                    call'[after[p]].id < call'[after[q]].id
    BY <2>4, <2>5
  <2> QED  BY <2>6, Zenon DEF ChannelOK, Messages, Inserting, after
<1>9. WaitingOK'
  <2> SUFFICES ASSUME NEW d \in Client
               PROVE  /\ IsIdle(d)' => call'[d].waiting = {}
                      /\ \A t \in call'[d].waiting :
                            /\ t # call'[d].at
                            /\ \E p \in 1 .. Len(channel'[call'[d].at][t]) : channel'[call'[d].at][t][p] = d
    BY DEF WaitingOK, Messages
  <2>1. CASE d = c
    <3>1. call'[d] = r
      BY <1>2, <2>1
    <3>2. ASSUME NEW t \in r.waiting PROVE \E p \in 1 .. Len(channel'[s][t]) : channel'[s][t][p] = d
      <4> DEFINE n == Len(channel[s][t])
      <4>1. n \in Nat /\ Len(channel'[s][t]) = n + 1 /\ channel'[s][t][n + 1] = d
        BY <1>6, <2>1
      <4> HIDE DEF n
      <4>2. n + 1 \in 1 .. Len(channel'[s][t])
        BY <4>1
      <4> QED  BY <4>1, <4>2 DEF Messages
    <3> QED  BY <3>1, <3>2 DEF IsIdle
  <2>2. CASE d # c
    <3>1. call'[d] = call[d]
      BY <1>2, <2>2
    <3>2. ASSUME NEW t \in call[d].waiting
          PROVE  /\ t # call[d].at
                 /\ \E p \in 1 .. Len(channel'[call[d].at][t]) : channel'[call[d].at][t][p] = d
      <4>1. t # call[d].at /\ \E p \in Messages(call[d].at, t) : channel[call[d].at][t][p] = d
        BY DEF WaitingOK
      <4>2. call[d].at \in Shard /\ t \in Shard
        BY <1>1 DEF Call
      <4>3. CASE ~(call[d].at = s /\ t \in r.waiting)
        BY <1>5, <4>1, <4>2, <4>3 DEF Messages
      <4>4. CASE call[d].at = s /\ t \in r.waiting
        <5>1. PICK p \in 1 .. Len(channel[s][t]) : channel[s][t][p] = d
          BY <4>1, <4>4 DEF Messages
        <5>2. p \in 1 .. Len(channel'[s][t]) /\ channel'[s][t][p] = d
          BY <1>6, <4>4, <5>1
        <5> QED  BY <4>1, <4>4, <5>2 DEF Messages
      <4> QED  BY <4>1, <4>3, <4>4
    <3> QED  BY <3>1, <3>2 DEF IsIdle, WaitingOK
  <2> QED  BY <2>1, <2>2
<1> QED  BY <1>2, <1>4, <1>8, <1>9, <1>10 DEF ChannelsOK

\* What the handler of request c on shard t leaves of the requests and the channels.
Handled(s, t, c) ==
    /\ call[c].at = s /\ t \in call[c].waiting /\ t # s
    /\ call' \in [Client -> Call]
    /\ \A d \in Client \ {c} : call'[d] = call[d]
    /\ call'[c].waiting = call[c].waiting \ {t}
    /\ call'[c].at = call[c].at /\ call'[c].kind = call[c].kind /\ call'[c].id = call[c].id
    /\ call'[c].name = call[c].name
    /\ channel' \in [Shard -> [Shard -> Seq(Client)]]
    /\ ChannelsOK'
    /\ WaitingOK'

\* A handler runs: its message leaves the channel and its shard the shards waited for.
LEMMA HandleKeepsChannels ==
    ASSUME TypeOK, ChannelsOK, WaitingOK,
           NEW s \in Shard, NEW t \in Shard, Deliver(s, t),
           NEW c \in Client, c = Head(channel[s][t])
    PROVE  Handled(s, t, c)
<1> DEFINE old == channel[s][t]
           new == channel'[s][t]
<1>0. /\ channel[s][t] # <<>>
      /\ channel' = [channel EXCEPT ![s][t] = Tail(@)]
      /\ call' = [call EXCEPT ![c].waiting = @ \ {t}]
  BY Zenon DEF Deliver
<1>1. /\ channel \in [Shard -> [Shard -> Seq(Client)]]
      /\ call \in [Client -> Call]
      /\ old \in Seq(Client)
  BY DEF TypeOK
<1>2. /\ new = Tail(old)
      /\ \A a, b \in Shard : ~(a = s /\ b = t) => channel'[a][b] = channel[a][b]
  BY <1>0, <1>1
<1>3. /\ new \in Seq(Client)
      /\ Len(old) \in Nat \ {0}
      /\ Len(new) = Len(old) - 1
      /\ \A p \in 1 .. Len(old) - 1 : new[p] = old[p + 1]
      /\ c = old[1] /\ c \in Client
  BY <1>0, <1>1, <1>2, TailAt
<1>4. channel' \in [Shard -> [Shard -> Seq(Client)]]
  BY <1>0, <1>1, <1>2, <1>3
<1>5. /\ \A p \in 1 .. Len(old) : old[p] \in Client /\ call[old[p]].at = s /\ t \in call[old[p]].waiting
      /\ \A p, q \in 1 .. Len(old) : p < q =>
            /\ old[p] # old[q]
            /\ Inserting(old[p]) /\ Inserting(old[q]) => call[old[p]].id < call[old[q]].id
  <2>1. ChannelOK(s, t)
    BY DEF ChannelsOK
  <2> QED  BY <1>1, <2>1 DEF ChannelOK, Messages
<1> HIDE DEF old, new
<1>6. call[c].at = s /\ t \in call[c].waiting
  BY <1>3, <1>5
<1>7. t # s
  BY <1>3, <1>6 DEF WaitingOK
<1>8. /\ call'[c] = [call[c] EXCEPT !.waiting = @ \ {t}]
      /\ \A d \in Client \ {c} : call'[d] = call[d]
      /\ call[c] \in Call
  BY <1>0, <1>1, <1>3
<1>9. /\ call'[c] \in Call
      /\ call'[c].waiting = call[c].waiting \ {t}
      /\ call'[c].at = call[c].at /\ call'[c].kind = call[c].kind /\ call'[c].id = call[c].id
      /\ call'[c].name = call[c].name
  BY <1>8 DEF Call
<1>10. call' \in [Client -> Call]
  BY <1>0, <1>1, <1>3, <1>8, <1>9, Zenon
<1>11. ChannelOK(s, t)'
  <2>1. \A p \in 1 .. Len(new) : p + 1 \in 1 .. Len(old) /\ p + 1 > 1 /\ new[p] = old[p + 1]
    BY <1>3
  <2>2. \A p \in 1 .. Len(new) : new[p] \in Client \ {c}
    BY <1>3, <1>5, <2>1
  <2>3. \A p \in 1 .. Len(new) : call'[new[p]].at = s /\ t \in call'[new[p]].waiting
    BY <1>5, <1>8, <2>1, <2>2
  <2>4. ASSUME NEW p \in 1 .. Len(new), NEW q \in 1 .. Len(new), p < q
        PROVE  /\ new[p] # new[q]
               /\ call'[new[p]].kind = "insert" /\ call'[new[q]].kind = "insert" =>
                     call'[new[p]].id < call'[new[q]].id
    <3>1. p + 1 < q + 1
      BY <1>3, <2>4
    <3> QED  BY <1>5, <1>8, <2>1, <2>2, <3>1 DEF Inserting
  <2> QED  BY <2>3, <2>4 DEF ChannelOK, Messages, Inserting, new
<1>12. ASSUME NEW a \in Shard, NEW b \in Shard, ~(a = s /\ b = t) PROVE ChannelOK(a, b)'
  <2>1. channel'[a][b] = channel[a][b]
    BY <1>2, <1>12
  <2>2. ChannelOK(a, b) /\ \A p \in Messages(a, b) : channel[a][b][p] \in Client
    <3>1. ChannelOK(a, b)
      BY <1>1, Zenon DEF ChannelsOK
    <3>2. channel[a][b] \in Seq(Client)
      BY <1>1, Zenon
    <3> QED  BY <3>1, <3>2 DEF Messages
  <2>3. ASSUME NEW p \in Messages(a, b)
        PROVE  /\ call'[channel[a][b][p]].at = a /\ b \in call'[channel[a][b][p]].waiting
               /\ call'[channel[a][b][p]].kind = call[channel[a][b][p]].kind
               /\ call'[channel[a][b][p]].id = call[channel[a][b][p]].id
    <3>1. /\ channel[a][b][p] \in Client
          /\ call[channel[a][b][p]].at = a /\ b \in call[channel[a][b][p]].waiting
      BY <2>2 DEF ChannelOK
    <3>2. CASE channel[a][b][p] = c
      <4>1. b # t
        BY <1>6, <1>12, <3>1, <3>2
      <4> QED  BY <1>9, <3>1, <3>2, <4>1
    <3>3. CASE channel[a][b][p] # c
      BY <1>8, <3>1, <3>3
    <3> QED  BY <3>2, <3>3
  <2>4. \A p \in Messages(a, b) :
            /\ call'[channel'[a][b][p]].at = a /\ b \in call'[channel'[a][b][p]].waiting
            /\ call'[channel'[a][b][p]].kind = call[channel[a][b][p]].kind
            /\ call'[channel'[a][b][p]].id = call[channel[a][b][p]].id
    BY <2>1, <2>3
  <2>5. \A p, q \in Messages(a, b) : p < q =>
          /\ channel[a][b][p] # channel[a][b][q]
          /\ call[channel[a][b][p]].kind = "insert" /\ call[channel[a][b][q]].kind = "insert" =>
                call[channel[a][b][p]].id < call[channel[a][b][q]].id
    BY <2>2 DEF ChannelOK, Inserting
  <2>6. ASSUME NEW p \in Messages(a, b), NEW q \in Messages(a, b), p < q
        PROVE  /\ channel'[a][b][p] # channel'[a][b][q]
               /\ call'[channel'[a][b][p]].kind = "insert" /\ call'[channel'[a][b][q]].kind = "insert" =>
                     call'[channel'[a][b][p]].id < call'[channel'[a][b][q]].id
    <3>1. channel'[a][b][p] = channel[a][b][p] /\ channel'[a][b][q] = channel[a][b][q]
      BY <2>1
    <3>2. /\ channel[a][b][p] # channel[a][b][q]
          /\ call[channel[a][b][p]].kind = "insert" /\ call[channel[a][b][q]].kind = "insert" =>
                call[channel[a][b][p]].id < call[channel[a][b][q]].id
      BY <2>5, <2>6
    <3>3. /\ call'[channel'[a][b][p]].kind = call[channel[a][b][p]].kind
          /\ call'[channel'[a][b][q]].kind = call[channel[a][b][q]].kind
          /\ call'[channel'[a][b][p]].id = call[channel[a][b][p]].id
          /\ call'[channel'[a][b][q]].id = call[channel[a][b][q]].id
      BY <2>4
    <3> QED  BY <3>1, <3>2, <3>3
  <2> QED  BY <2>1, <2>4, <2>6 DEF ChannelOK, Messages, Inserting
<1>13. WaitingOK'
  <2> SUFFICES ASSUME NEW d \in Client
               PROVE  /\ call'[d].kind = "none" => call'[d].waiting = {}
                      /\ \A b \in call'[d].waiting :
                            /\ b # call'[d].at
                            /\ \E p \in 1 .. Len(channel'[call'[d].at][b]) :
                                  channel'[call'[d].at][b][p] = d
    BY DEF WaitingOK, Messages, IsIdle
  <2>1. /\ call'[d].waiting \subseteq call[d].waiting
        /\ d = c => t \notin call'[d].waiting
        /\ call'[d].at = call[d].at /\ call'[d].kind = call[d].kind
    BY <1>8, <1>9
  <2>2. call[d].kind = "none" => call[d].waiting = {}
    BY DEF WaitingOK, IsIdle
  <2>3. ASSUME NEW b \in call'[d].waiting
        PROVE  /\ b # call[d].at
               /\ \E p \in 1 .. Len(channel'[call[d].at][b]) : channel'[call[d].at][b][p] = d
    <3>1. b # call[d].at /\ \E p \in 1 .. Len(channel[call[d].at][b]) : channel[call[d].at][b][p] = d
      BY <2>1 DEF WaitingOK, Messages
    <3>2. call[d].at \in Shard /\ b \in Shard
      BY <1>1, <2>1 DEF Call
    <3>3. CASE ~(call[d].at = s /\ b = t)
      BY <1>2, <3>1, <3>2, <3>3
    <3>4. CASE call[d].at = s /\ b = t
      <4>1. d # c
        BY <2>1, <3>4
      <4>2. PICK p \in 1 .. Len(old) : old[p] = d
        BY <3>1, <3>4 DEF old
      <4>3. p - 1 \in 1 .. Len(new) /\ new[p - 1] = d
        BY <1>3, <4>1, <4>2
      <4> QED  BY <3>1, <3>4, <4>3 DEF new
    <3> QED  BY <3>3, <3>4
  <2>4. \A b \in call'[d].waiting :
            /\ b # call'[d].at
            /\ \E p \in 1 .. Len(channel'[call'[d].at][b]) : channel'[call'[d].at][b][p] = d
    <3> TAKE b \in call'[d].waiting
    <3>1. PICK p \in 1 .. Len(channel'[call[d].at][b]) : channel'[call[d].at][b][p] = d
      BY <2>3
    <3>2. channel'[call'[d].at][b] = channel'[call[d].at][b]
      BY <2>1
    <3>3. p \in 1 .. Len(channel'[call'[d].at][b]) /\ channel'[call'[d].at][b][p] = d
      BY <3>1, <3>2
    <3>4. b # call'[d].at
      BY <2>1, <2>3
    <3> QED  BY <3>3, <3>4
  <2> QED  BY <2>1, <2>2, <2>4
<1> QED  BY <1>3, <1>4, <1>6, <1>7, <1>8, <1>9, <1>10, <1>11, <1>12, <1>13, Zenon DEF ChannelsOK, Handled

\* A request that waits for nobody is answered.
LEMMA AnswerKeepsChannels ==
    ASSUME TypeOK, ChannelsOK, WaitingOK,
           NEW c \in Client, call[c].waiting = {},
           call' = [call EXCEPT ![c] = None(call[c].at)], channel' = channel
    PROVE  /\ call' \in [Client -> Call]
           /\ call'[c] = None(call[c].at)
           /\ \A d \in Client \ {c} : call'[d] = call[d]
           /\ ChannelsOK'
           /\ WaitingOK'
<1>1. /\ channel \in [Shard -> [Shard -> Seq(Client)]]
      /\ call \in [Client -> Call]
  BY DEF TypeOK
<1>2. None(call[c].at) \in Call /\ None(call[c].at).waiting = {} /\ None(call[c].at).kind = "none"
  BY <1>1 DEF None, Call
<1>3. call'[c] = None(call[c].at) /\ \A d \in Client \ {c} : call'[d] = call[d]
  BY <1>1
<1>4. call' \in [Client -> Call]
  BY <1>1, <1>2
<1>5. ASSUME NEW a \in Shard, NEW b \in Shard PROVE ChannelOK(a, b)'
  <2>1. ChannelOK(a, b) /\ \A p \in Messages(a, b) : channel[a][b][p] \in Client
    BY <1>1 DEF ChannelsOK, Messages
  <2>2. \A p \in Messages(a, b) : channel[a][b][p] \in Client \ {c}
    BY <2>1 DEF ChannelOK
  <2> QED  BY <1>3, <2>1, <2>2 DEF ChannelOK, Messages, Inserting
<1>6. WaitingOK'
  <2> SUFFICES ASSUME NEW d \in Client
               PROVE  /\ call'[d].kind = "none" => call'[d].waiting = {}
                      /\ \A b \in call'[d].waiting :
                            /\ b # call'[d].at
                            /\ \E p \in 1 .. Len(channel'[call'[d].at][b]) :
                                  channel'[call'[d].at][b][p] = d
    BY DEF WaitingOK, Messages, IsIdle
  <2>1. CASE d = c
    BY <1>2, <1>3, <2>1
  <2>2. CASE d # c
    BY <1>3, <2>2 DEF WaitingOK, Messages, IsIdle
  <2> QED  BY <2>1, <2>2
<1> QED  BY <1>3, <1>4, <1>5, <1>6 DEF ChannelsOK

-----------------------------------------------------------------------------
(* One shard's table *)

\* NamesMatchPositions of the table f of ids and the vector q of names.
Matched(f, q) ==
    /\ \A n \in Name : f[n] # NoType => f[n] <= Len(q) /\ q[f[n]] = n
    /\ \A i \in 1 .. Len(q) : q[i] # NoName => f[q[i]] = i

Ids == [Name -> TypeId \cup {NoType}]

Names == Seq(Name \cup {NoName})

LEMMA MatchedIs == NamesMatchPositions <=> \A s \in Shard : Matched(typeToId[s], idToType[s])
BY DEF NamesMatchPositions, Matched

LEMMA NameAppended ==
    ASSUME NEW f \in Ids, NEW q \in Names, Matched(f, q),
           NEW n \in Name, f[n] = NoType, Len(q) < MaxTypes
    PROVE  /\ [f EXCEPT ![n] = Len(q) + 1] \in Ids
           /\ Append(q, n) \in Names
           /\ Matched([f EXCEPT ![n] = Len(q) + 1], Append(q, n))
<1> DEFINE g == [f EXCEPT ![n] = Len(q) + 1]
           r == Append(q, n)
<1>1. MaxTypes \in Nat /\ NoName \notin Name
  BY TypeRegistryAssumption
<1>2. /\ r \in Names /\ Len(q) \in Nat /\ Len(r) = Len(q) + 1
      /\ \A p \in 1 .. Len(q) : r[p] = q[p]
      /\ r[Len(q) + 1] = n
  BY AppendAt DEF Names
<1>3. Len(q) + 1 \in TypeId
  BY <1>1, <1>2 DEF TypeId
<1>4. g \in Ids /\ g[n] = Len(q) + 1 /\ \A m \in Name \ {n} : g[m] = f[m]
  BY <1>3 DEF Ids
<1>5. \A m \in Name : f[m] # NoType => f[m] \in 1 .. Len(q)
  BY <1>1, <1>2 DEF Matched, Ids, TypeId, NoType
<1>6. \A i \in 1 .. Len(q) : q[i] \in Name \cup {NoName}
  BY <1>2 DEF Names
<1> HIDE DEF g, r
<1>7. ASSUME NEW m \in Name, g[m] # NoType PROVE g[m] <= Len(r) /\ r[g[m]] = m
  <2>1. CASE m = n
    BY <1>2, <1>4, <2>1
  <2>2. CASE m # n
    <3>1. f[m] \in 1 .. Len(q) /\ g[m] = f[m] /\ q[f[m]] = m
      BY <1>4, <1>5, <1>7, <2>2 DEF Matched
    <3> QED  BY <1>2, <3>1
  <2> QED  BY <2>1, <2>2
<1>8. ASSUME NEW i \in 1 .. Len(r), r[i] # NoName PROVE g[r[i]] = i
  <2>1. CASE i = Len(q) + 1
    BY <1>2, <1>4, <2>1
  <2>2. CASE i \in 1 .. Len(q)
    <3>1. r[i] = q[i] /\ f[q[i]] = i /\ q[i] \in Name
      BY <1>2, <1>6, <1>8, <2>2 DEF Matched
    <3>2. q[i] # n
      BY <2>2, <3>1 DEF NoType
    <3> QED  BY <1>4, <3>1, <3>2
  <2> QED  BY <1>2, <2>1, <2>2
<1> QED  BY <1>2, <1>4, <1>7, <1>8 DEF Matched, g, r

LEMMA NameCleared ==
    ASSUME NEW f \in Ids, NEW q \in Names, Matched(f, q), NEW n \in Name, NEW id, f[n] = id, id # NoType,
           NEW g, g = [f EXCEPT ![n] = NoType],
           NEW r, r = [q EXCEPT ![id] = NoName]
    PROVE  /\ id \in 1 .. Len(q)
           /\ g \in Ids
           /\ r \in Names
           /\ Len(r) = Len(q)
           /\ \A i \in 1 .. Len(q) : r[i] = IF i = id THEN NoName ELSE q[i]
           /\ Matched(g, r)
<1>1. MaxTypes \in Nat /\ NoName \notin Name
  BY TypeRegistryAssumption
<1>2. Len(q) \in Nat
  BY DEF Names
<1>3. \A m \in Name : f[m] # NoType => f[m] \in 1 .. Len(q) /\ q[f[m]] = m
  BY <1>1, <1>2 DEF Matched, Ids, TypeId, NoType
<1>4. \A i \in 1 .. Len(q) : q[i] \in Name \cup {NoName}
  BY <1>2 DEF Names
<1>5. /\ r \in Names /\ Len(r) = Len(q)
      /\ \A i \in 1 .. Len(q) : r[i] = IF i = id THEN NoName ELSE q[i]
  BY <1>3 DEF Names
<1>6. g \in Ids /\ g[n] = NoType /\ \A m \in Name \ {n} : g[m] = f[m]
  BY DEF Ids
<1>7. ASSUME NEW m \in Name, g[m] # NoType PROVE g[m] <= Len(r) /\ r[g[m]] = m
  <2>1. m # n /\ g[m] = f[m]
    BY <1>6, <1>7
  <2>2. f[m] \in 1 .. Len(q) /\ q[f[m]] = m /\ q[f[n]] = n
    BY <1>3, <1>7, <2>1
  <2>3. f[m] # f[n]
    BY <2>1, <2>2
  <2> QED  BY <1>5, <2>1, <2>2, <2>3
<1>8. ASSUME NEW i \in 1 .. Len(r), r[i] # NoName PROVE g[r[i]] = i
  <2>1. i \in 1 .. Len(q) /\ i # f[n] /\ r[i] = q[i]
    BY <1>5, <1>8
  <2>2. f[q[i]] = i /\ q[i] \in Name
    BY <1>4, <1>8, <2>1 DEF Matched
  <2> QED  BY <1>6, <2>1, <2>2
<1> QED  BY <1>3, <1>5, <1>6, <1>7, <1>8 DEF Matched

LEMMA TableFacts ==
    ASSUME IInv, NEW s \in Shard
    PROVE  /\ typeToId[s] \in Ids
           /\ idToType[s] \in Names
           /\ Len(idToType[s]) \in Nat
           /\ Len(idToType[s]) <= MaxTypes
           /\ Matched(typeToId[s], idToType[s])
           /\ \A n \in Name : typeToId[s][n] # NoType =>
                 typeToId[s][n] \in 1 .. Len(idToType[s]) /\ idToType[s][typeToId[s][n]] = n
           /\ \A i \in 1 .. Len(idToType[s]) :
                 /\ idToType[s][i] \in Name \cup {NoName}
                 /\ idToType[s][i] # NoName => typeToId[s][idToType[s][i]] = i
<1>1. typeToId[s] \in Ids /\ idToType[s] \in Names
  BY DEF IInv, TypeOK, Ids, Names
<1>2. Len(idToType[s]) \in Nat /\ Len(idToType[s]) <= MaxTypes
  BY <1>1 DEF IInv, BoundOK, Names
<1>3. Matched(typeToId[s], idToType[s])
  BY MatchedIs DEF IInv
<1>4. \A n \in Name : typeToId[s][n] \in TypeId \cup {NoType}
  BY <1>1 DEF Ids
<1>5. \A n \in Name : typeToId[s][n] # NoType =>
          typeToId[s][n] \in 1 .. Len(idToType[s]) /\ idToType[s][typeToId[s][n]] = n
  BY <1>2, <1>3, <1>4, TypeRegistryAssumption DEF Matched, TypeId, NoType
<1>6. \A i \in 1 .. Len(idToType[s]) : idToType[s][i] \in Name \cup {NoName}
  BY <1>1 DEF Names
<1> QED  BY <1>1, <1>2, <1>3, <1>5, <1>6 DEF Matched

\* A client that may ask finds no deletion under way.
LEMMA AskingMeansNoDeletion ==
    ASSUME OneInserter, IInv, NEW c \in Client, Asks(c)
    PROVE  IsIdle(c) /\ \A d \in Client : ~Deleting(d)
BY DEF Asks, IInv, DeletionOK, Deleting

\* What an answer says stays true while the table of the inserting shard only grows.
LEMMA FoundStays ==
    ASSUME IInv,
           \A i \in 1 .. Len(idToType[Zero]) :
               i \in 1 .. Len(idToType'[Zero]) /\ idToType'[Zero][i] = idToType[Zero][i],
           \A c \in Client : call'[c].kind = "known" => call'[c] = call[c]
    PROVE  FoundOK'
<1> SUFFICES ASSUME NEW c \in Client, call'[c].kind = "known"
             PROVE  /\ call'[c].at = Zero
                    /\ call'[c].name \in Name
                    /\ call'[c].id \in 1 .. Len(idToType'[Zero])
                    /\ idToType'[Zero][call'[c].id] = call'[c].name
  BY DEF FoundOK, Zero
<1>1. call'[c] = call[c]
  OBVIOUS
<1>2. /\ call[c].at = Zero /\ call[c].name \in Name
      /\ call[c].id \in 1 .. Len(idToType[Zero]) /\ idToType[Zero][call[c].id] = call[c].name
  BY <1>1 DEF IInv, FoundOK
<1> QED  BY <1>1, <1>2

-----------------------------------------------------------------------------
(* Every step keeps the invariant *)

LEMMA InsertKeepsIInv ==
    ASSUME OneInserter, IInv,
           NEW c \in Client, NEW s \in Shard, NEW name \in Name, TypeInsertPeered(c, s, name)
    PROVE  IInv'
<1> DEFINE n == Len(idToType[Zero])
<1>1. s = Zero /\ Zero \in Shard
  BY ZeroIs DEF TypeInsertPeered
<1>2. IsIdle(c) /\ \A d \in Client : ~Deleting(d)
  BY AskingMeansNoDeletion DEF TypeInsertPeered
<1>3. n \in Nat /\ n < MaxTypes /\ MaxTypes \in Nat /\ n + 1 \in TypeId
  BY <1>1, TableFacts, TypeRegistryAssumption DEF TypeInsertPeered, TypeId
<1>4. /\ typeToId' = [typeToId EXCEPT ![Zero][name] = n + 1]
      /\ idToType' = [idToType EXCEPT ![Zero] = Append(@, name)]
      /\ counted' = counted
      /\ locked' = [locked EXCEPT ![Zero] = HoldsLock]
      /\ typeToId[Zero][name] = NoType
  BY <1>1 DEF TypeInsertPeered, NewTypeId
<1>5. /\ typeToId \in [Shard -> Ids]
      /\ idToType \in [Shard -> Names]
      /\ counted \in [Shard -> SUBSET TypeId]
      /\ locked \in [Shard -> BOOLEAN]
      /\ call \in [Client -> Call]
      /\ channel \in [Shard -> [Shard -> Seq(Client)]]
  BY DEF IInv, TypeOK, Ids, Names
<1>6. /\ typeToId'[Zero] = [typeToId[Zero] EXCEPT ![name] = n + 1]
      /\ idToType'[Zero] = Append(idToType[Zero], name)
      /\ \A t \in Shard \ {Zero} : typeToId'[t] = typeToId[t] /\ idToType'[t] = idToType[t]
  BY <1>1, <1>4, <1>5
<1>7. /\ typeToId'[Zero] \in Ids
      /\ idToType'[Zero] \in Names
      /\ Matched(typeToId'[Zero], idToType'[Zero])
  <2>1. typeToId[Zero] \in Ids /\ idToType[Zero] \in Names /\ Matched(typeToId[Zero], idToType[Zero])
    BY <1>1, TableFacts
  <2> QED  BY <1>1, <1>3, <1>4, <1>6, <2>1, NameAppended
<1>8. /\ Len(idToType'[Zero]) = n + 1
      /\ \A i \in 1 .. n : idToType'[Zero][i] = idToType[Zero][i]
      /\ idToType'[Zero][n + 1] = name
  BY <1>1, <1>5, <1>6, AppendAt DEF Names
<1>9. /\ typeToId' \in [Shard -> Ids]
      /\ idToType' \in [Shard -> Names]
      /\ locked' \in [Shard -> BOOLEAN]
  BY <1>1, <1>4, <1>5, <1>6, <1>7, TypeRegistryAssumption
<1>10. NamesMatchPositions'
  <2>1. \A t \in Shard : Matched(typeToId'[t], idToType'[t])
    BY <1>6, <1>7, TableFacts
  <2> QED  BY <2>1 DEF NamesMatchPositions, Matched
<1>11. BoundOK'
  BY <1>1, <1>3, <1>6, <1>8, TableFacts DEF BoundOK
<1> DEFINE r == [kind |-> "insert", name |-> name, id |-> n + 1, at |-> Zero, waiting |-> Shard \ {Zero}]
<1>12. call' = [call EXCEPT ![c] = r] /\ Broadcast(c, Zero)
  BY <1>1 DEF TypeInsertPeered, NewTypeId
<1>13. r \in Call
  BY <1>1, <1>3 DEF Call
<1>14. channel' = [channel EXCEPT ![Zero] =
                     [t \in Shard |-> IF t \in r.waiting THEN Append(channel[Zero][t], c) ELSE channel[Zero][t]]]
  BY <1>1, <1>5, <1>12 DEF Broadcast
<1>15. /\ r.kind # "none" /\ r.at = Zero /\ r.waiting \subseteq Shard \ {Zero} /\ r.kind = "insert"
       /\ r.id = n + 1 /\ r.name = name /\ r.waiting = Shard \ {Zero}
  OBVIOUS
<1> HIDE DEF r
<1>16. \A d \in Client : Inserting(d) => call[d].id < r.id
  BY <1>1, <1>3, <1>15 DEF IInv, InsertionOK
<1>17. /\ channel' \in [Shard -> [Shard -> Seq(Client)]]
       /\ call' \in [Client -> Call]
       /\ ChannelsOK' /\ WaitingOK'
  <2>1. TypeOK /\ ChannelsOK /\ WaitingOK
    BY DEF IInv
  <2> QED  BY <1>1, <1>2, <1>12, <1>13, <1>14, <1>15, <1>16, <2>1, AskKeepsChannels
<1>18. TypeOK'
  BY <1>4, <1>5, <1>9, <1>17 DEF TypeOK, Ids, Names
<1>19. call'[c] = r /\ \A d \in Client \ {c} : call'[d] = call[d]
  BY <1>5, <1>12
<1>20. \A d \in Client : call'[d].kind # "delete"
  BY <1>2, <1>15, <1>19 DEF Deleting
<1>21. DeletionOK'
  BY <1>20 DEF DeletionOK, Deleting
<1>22. \A t \in Shard : Len(idToType[t]) \in Nat /\ Len(idToType[t]) <= n /\
           \A i \in 1 .. Len(idToType[t]) : idToType[t][i] = idToType[Zero][i]
  BY <1>2, TableFacts DEF IInv, PrefixOK
<1>23. \A t \in Shard : t # Zero => Len(idToType'[t]) = Len(idToType[t])
  BY <1>6
<1> HIDE DEF n
<1>24. PrefixOK'
  <2> SUFFICES ASSUME NEW t \in Shard
               PROVE  /\ Len(idToType'[t]) <= Len(idToType'[Zero])
                      /\ \A i \in 1 .. Len(idToType'[t]) : idToType'[t][i] = idToType'[Zero][i]
    BY DEF PrefixOK, Zero
  <2>1. CASE t = Zero
    BY <1>3, <1>8, <2>1
  <2>2. CASE t # Zero
    <3>1. idToType'[t] = idToType[t]
      BY <1>6, <2>2
    <3>2. \A i \in 1 .. Len(idToType[t]) : i \in 1 .. n
      BY <1>3, <1>22
    <3> QED  BY <1>3, <1>8, <1>22, <3>1, <3>2
  <2> QED  BY <2>1, <2>2
<1>25. ASSUME NEW d \in Client, call'[d].kind = "insert"
       PROVE  /\ call'[d].at = Zero
              /\ call'[d].name \in Name
              /\ call'[d].id \in 1 .. Len(idToType'[Zero])
              /\ idToType'[Zero][call'[d].id] = call'[d].name
              /\ \A t \in Shard : t \in call'[d].waiting <=> call'[d].id > Len(idToType'[t])
  <2>1. CASE d = c
    BY <1>1, <1>3, <1>8, <1>15, <1>19, <1>22, <1>23, <2>1
  <2>2. CASE d # c
    <3>1. call'[d] = call[d] /\ Inserting(d)
      BY <1>19, <1>25, <2>2 DEF Inserting
    <3>2. /\ call[d].at = Zero /\ call[d].name \in Name
          /\ call[d].id \in 1 .. n /\ idToType[Zero][call[d].id] = call[d].name
          /\ \A t \in Shard : t \in call[d].waiting <=> call[d].id > Len(idToType[t])
      BY <3>1 DEF IInv, InsertionOK, n
    <3>3. \A t \in Shard : call[d].id > Len(idToType[t]) <=> call[d].id > Len(idToType'[t])
      BY <1>1, <1>3, <1>8, <1>23, <3>2 DEF n
    <3> QED  BY <1>3, <1>8, <3>1, <3>2, <3>3
  <2> QED  BY <2>1, <2>2
<1>26. ASSUME NEW t \in Shard, NEW i \in 1 .. Len(idToType'[Zero]), i > Len(idToType'[t])
       PROVE  \E d \in Client : call'[d].kind = "insert" /\ call'[d].id = i
  <2>1. t # Zero /\ i > Len(idToType[t])
    BY <1>3, <1>8, <1>23, <1>26
  <2>2. CASE i = n + 1
    BY <1>15, <1>19, <2>2
  <2>3. CASE i \in 1 .. n
    <3>1. PICK d \in Client : Inserting(d) /\ call[d].id = i
      BY <2>1, <2>3 DEF IInv, InsertionOK, n
    <3>2. d # c
      BY <1>2, <3>1 DEF Inserting, IsIdle
    <3> QED  BY <1>19, <3>1, <3>2 DEF Inserting
  <2> QED  BY <1>3, <1>8, <2>2, <2>3
<1>27. InsertionOK'
  BY <1>25, <1>26 DEF InsertionOK, Inserting, Zero
<1>28. FoundOK'
  <2>1. \A d \in Client : call'[d].kind = "known" => call'[d] = call[d]
    BY <1>15, <1>19
  <2>2. \A i \in 1 .. Len(idToType[Zero]) :
            i \in 1 .. Len(idToType'[Zero]) /\ idToType'[Zero][i] = idToType[Zero][i]
    BY <1>3, <1>8 DEF n
  <2> QED  BY <2>1, <2>2, FoundStays
<1> QED  BY <1>10, <1>11, <1>17, <1>18, <1>21, <1>24, <1>27, <1>28 DEF IInv

LEMMA DeleteKeepsIInv ==
    ASSUME OneInserter, IInv,
           NEW c \in Client, NEW s \in Shard, NEW name \in Name, DeleteTypePeered(c, s, name)
    PROVE  IInv'
<1> DEFINE id == typeToId[s][name]
<1>1. /\ Deletes = "emptied" /\ id # NoType
      /\ \A d \in Client : IsIdle(d)
      /\ \A t \in Shard : id \notin counted[t]
  BY DEF DeleteTypePeered, OneInserter
<1>2. /\ typeToId \in [Shard -> Ids]
      /\ idToType \in [Shard -> Names]
      /\ counted \in [Shard -> SUBSET TypeId]
      /\ locked \in [Shard -> BOOLEAN]
      /\ call \in [Client -> Call]
      /\ channel \in [Shard -> [Shard -> Seq(Client)]]
  BY DEF IInv, TypeOK, Ids, Names
<1>3. id \in 1 .. Len(idToType[s]) /\ idToType[s][id] = name /\ MaxTypes \in Nat /\ NoName # name
  BY <1>1, TableFacts, TypeRegistryAssumption
<1>4. id \in TypeId
  BY <1>1, <1>2, <1>3 DEF Ids
<1>5. Deletable(s, id)
  BY <1>1, <1>3, TableFacts DEF Deletable, ValidTypeId
<1>6. /\ typeToId' = [typeToId EXCEPT ![s][name] = NoType]
      /\ idToType' = [idToType EXCEPT ![s][id] = NoName]
      /\ counted' = counted
      /\ locked' = [locked EXCEPT ![s] = TRUE]
  BY <1>5 DEF DeleteTypePeered, deleteTypeId
<1>7. /\ typeToId'[s] = [typeToId[s] EXCEPT ![name] = NoType]
      /\ idToType'[s] = [idToType[s] EXCEPT ![id] = NoName]
      /\ \A t \in Shard \ {s} : typeToId'[t] = typeToId[t] /\ idToType'[t] = idToType[t]
  BY <1>2, <1>6
<1>8. /\ typeToId'[s] \in Ids
      /\ idToType'[s] \in Names
      /\ Len(idToType'[s]) = Len(idToType[s])
      /\ \A i \in 1 .. Len(idToType[s]) : idToType'[s][i] = IF i = id THEN NoName ELSE idToType[s][i]
      /\ Matched(typeToId'[s], idToType'[s])
  <2>1. typeToId[s] \in Ids /\ idToType[s] \in Names /\ Matched(typeToId[s], idToType[s])
    BY TableFacts
  <2> HIDE DEF id
  <2> QED  BY <1>1, <1>7, <2>1, NameCleared DEF id
<1>9. /\ typeToId' \in [Shard -> Ids]
      /\ idToType' \in [Shard -> Names]
      /\ locked' \in [Shard -> BOOLEAN]
  BY <1>2, <1>6, <1>7, <1>8
<1>10. NamesMatchPositions'
  <2>1. \A t \in Shard : Matched(typeToId'[t], idToType'[t])
    BY <1>7, <1>8, TableFacts
  <2> QED  BY <2>1 DEF NamesMatchPositions, Matched
<1>11. \A t \in Shard : Len(idToType'[t]) = Len(idToType[t]) /\ Len(idToType[t]) \in Nat
  BY <1>7, <1>8, TableFacts
<1>12. BoundOK'
  BY <1>11 DEF BoundOK, IInv
<1> DEFINE r == [kind |-> "delete", name |-> name, id |-> id, at |-> s, waiting |-> Shard \ {s}]
<1>13. call' = [call EXCEPT ![c] = r] /\ Broadcast(c, s)
  BY DEF DeleteTypePeered
<1>14. r \in Call
  BY <1>4 DEF Call
<1>15. channel' = [channel EXCEPT ![s] =
                     [t \in Shard |-> IF t \in r.waiting THEN Append(channel[s][t], c) ELSE channel[s][t]]]
  BY <1>2, <1>13 DEF Broadcast
<1>16. /\ r.kind = "delete" /\ r.at = s /\ r.waiting = Shard \ {s} /\ r.id = id /\ r.name = name
  OBVIOUS
<1> HIDE DEF r, id
<1>17. /\ channel' \in [Shard -> [Shard -> Seq(Client)]]
       /\ call' \in [Client -> Call]
       /\ ChannelsOK' /\ WaitingOK'
  <2>1. TypeOK /\ ChannelsOK /\ WaitingOK
    BY DEF IInv
  <2>2. r.kind # "none" /\ r.kind # "insert" /\ r.waiting \subseteq Shard \ {s} /\ IsIdle(c)
    BY <1>1, <1>16
  <2> QED  BY <1>13, <1>14, <1>15, <1>16, <2>1, <2>2, AskKeepsChannels
<1>18. TypeOK'
  BY <1>2, <1>6, <1>9, <1>17 DEF TypeOK, Ids, Names
<1>19. call'[c] = r /\ \A d \in Client \ {c} : call'[d] = call[d] /\ call[d].kind = "none"
  BY <1>1, <1>2, <1>13 DEF IsIdle
<1>20. \A t, u \in Shard : /\ Len(idToType[t]) = Len(idToType[u])
                           /\ \A i \in 1 .. Len(idToType[t]) : idToType[t][i] = idToType[u][i]
  <2>1. \A d \in Client : ~Deleting(d) /\ ~Inserting(d)
    BY <1>1 DEF IsIdle, Deleting, Inserting
  <2>2. Len(idToType[Zero]) \in Nat /\ \A t \in Shard : Len(idToType[t]) \in Nat
    BY <1>11, ZeroIs
  <2>3. \A t \in Shard : /\ Len(idToType[t]) <= Len(idToType[Zero])
                         /\ \A i \in 1 .. Len(idToType[t]) : idToType[t][i] = idToType[Zero][i]
    BY <2>1 DEF IInv, PrefixOK
  <2>4. \A t \in Shard : \A i \in 1 .. Len(idToType[Zero]) : ~(i > Len(idToType[t]))
    BY <2>1 DEF IInv, InsertionOK
  <2>5. \A t \in Shard : Len(idToType[t]) = Len(idToType[Zero])
    BY <2>2, <2>3, <2>4
  <2> QED  BY <2>3, <2>5
<1>21. ASSUME NEW t \in Shard
       PROVE  /\ id \in 1 .. Len(idToType[t])
              /\ idToType'[t][id] = IF t = s THEN NoName ELSE name
              /\ \A i \in 1 .. Len(idToType[t]) :
                    /\ idToType'[t][i] = name => i = id
                    /\ i # id => idToType'[t][i] = idToType[t][i]
  <2>1. id \in 1 .. Len(idToType[t]) /\ idToType[t][id] = name
    BY <1>3, <1>20 DEF id
  <2>2. \A i \in 1 .. Len(idToType[t]) : idToType[t][i] = name => i = id
    BY <1>3, <2>1, TableFacts
  <2>3. CASE t = s
    BY <1>3, <1>8, <2>1, <2>2, <2>3 DEF id
  <2>4. CASE t # s
    BY <1>7, <2>1, <2>2, <2>4
  <2> QED  BY <2>3, <2>4
<1>22. DeletionOK'
  <2> SUFFICES ASSUME NEW d \in Client, call'[d].kind = "delete"
               PROVE  /\ Deletes = "emptied"
                      /\ call'[d].name \in Name
                      /\ \A e \in Client \ {d} : call'[e].kind = "none"
                      /\ \A t \in Shard :
                            /\ call'[d].id \in 1 .. Len(idToType'[t])
                            /\ call'[d].id \notin counted'[t]
                            /\ idToType'[t][call'[d].id] =
                                  IF t \in call'[d].waiting THEN call'[d].name ELSE NoName
                            /\ \A i \in 1 .. Len(idToType'[t]) :
                                  idToType'[t][i] = call'[d].name => i = call'[d].id
                      /\ \A t, u \in Shard :
                            /\ Len(idToType'[t]) = Len(idToType'[u])
                            /\ \A i \in 1 .. Len(idToType'[t]) \ {call'[d].id} :
                                  idToType'[t][i] = idToType'[u][i]
    BY DEF DeletionOK, Deleting, IsIdle
  <2>1. d = c /\ call'[d].name = name /\ call'[d].id = id /\ call'[d].waiting = Shard \ {s}
    BY <1>16, <1>19
  <2>2. \A t \in Shard :
            /\ id \in 1 .. Len(idToType'[t])
            /\ id \notin counted'[t]
            /\ idToType'[t][id] = IF t \in Shard \ {s} THEN name ELSE NoName
            /\ \A i \in 1 .. Len(idToType'[t]) : idToType'[t][i] = name => i = id
    BY <1>1, <1>6, <1>11, <1>21 DEF id
  <2>3. \A t, u \in Shard : /\ Len(idToType'[t]) = Len(idToType'[u])
                            /\ \A i \in 1 .. Len(idToType'[t]) \ {id} : idToType'[t][i] = idToType'[u][i]
    BY <1>11, <1>20, <1>21
  <2> QED  BY <1>1, <1>19, <2>1, <2>2, <2>3
<1>23. PrefixOK'
  BY <1>16, <1>19 DEF PrefixOK, Deleting
<1>24. InsertionOK'
  <2>1. \A d \in Client : call'[d].kind # "insert"
    BY <1>16, <1>19
  <2>2. \A t \in Shard : \A i \in 1 .. Len(idToType'[Zero]) : ~(i > Len(idToType'[t]))
    BY <1>11, <1>20, ZeroIs
  <2> QED  BY <2>1, <2>2 DEF InsertionOK, Inserting, Zero
<1>25. FoundOK'
  <2>1. \A d \in Client : call'[d].kind # "known"
    BY <1>16, <1>19
  <2> QED  BY <2>1 DEF FoundOK
<1> QED  BY <1>10, <1>12, <1>17, <1>18, <1>22, <1>23, <1>24, <1>25 DEF IInv

\* While no table and no insertion or deletion changes, neither does what is said of them.
LEMMA TablesAlone ==
    ASSUME OneInserter, IInv, typeToId' = typeToId, idToType' = idToType,
           \A d \in Client : ~Deleting(d),
           \A d \in Client : call'[d].kind # "delete",
           \A d \in Client : call'[d].kind = "insert" \/ call[d].kind = "insert" => call'[d] = call[d],
           \A d \in Client : call'[d].kind = "known" => call'[d] = call[d]
    PROVE  NamesMatchPositions' /\ BoundOK' /\ DeletionOK' /\ PrefixOK' /\ InsertionOK' /\ FoundOK'
<1>1. NamesMatchPositions' /\ BoundOK'
  BY DEF IInv, NamesMatchPositions, BoundOK
<1>2. DeletionOK'
  BY DEF DeletionOK, Deleting
<1>3. PrefixOK'
  BY DEF IInv, PrefixOK, Deleting, Zero
<1>4. ASSUME NEW d \in Client, call'[d].kind = "insert"
      PROVE  /\ call'[d].at = Zero
             /\ call'[d].name \in Name
             /\ call'[d].id \in 1 .. Len(idToType[Zero])
             /\ idToType[Zero][call'[d].id] = call'[d].name
             /\ \A t \in Shard : t \in call'[d].waiting <=> call'[d].id > Len(idToType[t])
  <2>1. call'[d] = call[d] /\ Inserting(d)
    BY <1>4 DEF Inserting
  <2> QED  BY <2>1 DEF IInv, InsertionOK
<1>5. \A t \in Shard : \A i \in 1 .. Len(idToType[Zero]) : i > Len(idToType[t]) =>
          \E d \in Client : call'[d].kind = "insert" /\ call'[d].id = i
  BY DEF IInv, InsertionOK, Inserting
<1>6. InsertionOK'
  BY <1>4, <1>5 DEF InsertionOK, Inserting, Zero
<1>7. FoundOK'
  BY FoundStays
<1> QED  BY <1>1, <1>2, <1>3, <1>6, <1>7

LEMMA FoundKeepsIInv ==
    ASSUME OneInserter, IInv, NEW c \in Client, NEW s \in Shard, NEW name \in Name,
           TypeFoundPeered(c, s, name)
    PROVE  IInv'
<1>1. /\ typeToId' = typeToId /\ idToType' = idToType /\ counted' = counted /\ locked' = locked
      /\ channel' = channel
      /\ s = Zero /\ typeToId[s][name] # NoType
  BY ZeroIs DEF TypeFoundPeered
<1>2. IsIdle(c) /\ \A d \in Client : ~Deleting(d)
  BY AskingMeansNoDeletion DEF TypeFoundPeered
<1> DEFINE r == [kind |-> "known", name |-> name, id |-> typeToId[s][name], at |-> s, waiting |-> {}]
<1>3. TypeOK /\ ChannelsOK /\ WaitingOK
  BY DEF IInv
<1>4. r \in Call
  BY <1>3 DEF Call, TypeOK
<1>5. call' = [call EXCEPT ![c] = r]
  BY DEF TypeFoundPeered
<1>6. channel' = [channel EXCEPT ![s] =
                     [u \in Shard |-> IF u \in r.waiting THEN Append(channel[s][u], c) ELSE channel[s][u]]]
  BY <1>1, <1>3 DEF TypeOK
<1>7. /\ r.kind = "known" /\ r.at = s /\ r.waiting = {} /\ r.name = name
      /\ r.id = typeToId[s][name]
  OBVIOUS
<1> HIDE DEF r
<1>8. /\ call' \in [Client -> Call]
      /\ ChannelsOK' /\ WaitingOK'
  <2>1. r.kind # "none" /\ r.kind # "insert" /\ r.waiting \subseteq Shard \ {s}
    BY <1>7
  <2> QED  BY <1>2, <1>3, <1>4, <1>5, <1>6, <1>7, <2>1, AskKeepsChannels
<1>9. TypeOK'
  BY <1>1, <1>3, <1>8 DEF TypeOK
<1>10. call'[c] = r /\ \A d \in Client \ {c} : call'[d] = call[d]
  BY <1>3, <1>5 DEF TypeOK
<1>11. NamesMatchPositions' /\ BoundOK'
  BY <1>1 DEF IInv, NamesMatchPositions, BoundOK
<1>12. \A d \in Client : call'[d].kind # "delete"
  BY <1>2, <1>7, <1>10 DEF Deleting
<1>13. DeletionOK'
  BY <1>12 DEF DeletionOK, Deleting
<1>14. PrefixOK'
  BY <1>1, <1>2 DEF IInv, PrefixOK, Zero
<1>15. \A d \in Client : call'[d].kind = "insert" \/ call[d].kind = "insert" => call'[d] = call[d]
  BY <1>2, <1>7, <1>10 DEF IsIdle
<1>16. InsertionOK'
  <2>1. ASSUME NEW d \in Client, call'[d].kind = "insert"
        PROVE  /\ call'[d].at = Zero
               /\ call'[d].name \in Name
               /\ call'[d].id \in 1 .. Len(idToType[Zero])
               /\ idToType[Zero][call'[d].id] = call'[d].name
               /\ \A t \in Shard : t \in call'[d].waiting <=> call'[d].id > Len(idToType[t])
    <3>1. call'[d] = call[d] /\ Inserting(d)
      BY <1>15, <2>1 DEF Inserting
    <3> QED  BY <3>1 DEF IInv, InsertionOK
  <2>2. \A t \in Shard : \A i \in 1 .. Len(idToType[Zero]) : i > Len(idToType[t]) =>
            \E d \in Client : call'[d].kind = "insert" /\ call'[d].id = i
    BY <1>15 DEF IInv, InsertionOK, Inserting
  <2> QED  BY <1>1, <2>1, <2>2 DEF InsertionOK, Inserting, Zero
<1>17. r.id \in 1 .. Len(idToType[Zero]) /\ idToType[Zero][r.id] = name
  BY <1>1, <1>7, TableFacts
<1>18. FoundOK'
  <2> SUFFICES ASSUME NEW d \in Client, call'[d].kind = "known"
               PROVE  /\ call'[d].at = Zero
                      /\ call'[d].name \in Name
                      /\ call'[d].id \in 1 .. Len(idToType[Zero])
                      /\ idToType[Zero][call'[d].id] = call'[d].name
    BY <1>1 DEF FoundOK, Zero
  <2>1. CASE d = c
    BY <1>1, <1>7, <1>10, <1>17, <2>1
  <2>2. CASE d # c
    BY <1>10, <2>2 DEF IInv, FoundOK
  <2> QED  BY <2>1, <2>2
<1> QED  BY <1>8, <1>9, <1>11, <1>13, <1>14, <1>16, <1>18 DEF IInv

LEMMA StorePeeredKeepsIInv ==
    ASSUME OneInserter, IInv, NEW c \in Client, NEW s \in Shard, NEW t \in Shard, NEW name \in Name,
           StorePeered(c, s, t, name)
    PROVE  IInv'
<1>1. /\ typeToId' = typeToId /\ idToType' = idToType /\ counted' = counted /\ locked' = locked
      /\ s # t /\ typeToId[s][name] # NoType
  BY DEF StorePeered
<1>2. IsIdle(c) /\ \A d \in Client : ~Deleting(d)
  BY AskingMeansNoDeletion DEF StorePeered
<1> DEFINE r == [kind |-> "store", name |-> name, id |-> typeToId[s][name], at |-> s, waiting |-> {t}]
<1>3. TypeOK /\ ChannelsOK /\ WaitingOK
  BY DEF IInv
<1>4. r \in Call
  BY <1>3 DEF Call, TypeOK
<1>5. call' = [call EXCEPT ![c] = r]
  BY DEF StorePeered
<1>6. channel' = [channel EXCEPT ![s] =
                     [u \in Shard |-> IF u \in r.waiting THEN Append(channel[s][u], c) ELSE channel[s][u]]]
  <2>1. channel \in [Shard -> [Shard -> Seq(Client)]] /\ channel' = [channel EXCEPT ![s][t] = Append(@, c)]
    BY <1>3 DEF TypeOK, StorePeered
  <2> QED  BY <2>1
<1>7. r.kind = "store" /\ r.at = s /\ r.waiting = {t}
  OBVIOUS
<1> HIDE DEF r
<1>8. /\ channel' \in [Shard -> [Shard -> Seq(Client)]]
      /\ call' \in [Client -> Call]
      /\ ChannelsOK' /\ WaitingOK'
  <2>1. r.kind # "none" /\ r.kind # "insert" /\ r.waiting \subseteq Shard \ {s}
    BY <1>1, <1>7
  <2> QED  BY <1>2, <1>3, <1>4, <1>5, <1>6, <1>7, <2>1, AskKeepsChannels
<1>9. TypeOK'
  BY <1>1, <1>3, <1>8 DEF TypeOK
<1>10. call'[c] = r /\ \A d \in Client \ {c} : call'[d] = call[d]
  BY <1>3, <1>5 DEF TypeOK
<1>11. /\ \A d \in Client : call'[d].kind # "delete"
       /\ \A d \in Client : call'[d].kind = "insert" \/ call[d].kind = "insert" => call'[d] = call[d]
       /\ \A d \in Client : call'[d].kind = "known" => call'[d] = call[d]
  BY <1>2, <1>7, <1>10 DEF Deleting, IsIdle
<1> QED  BY <1>1, <1>2, <1>8, <1>9, <1>11, TablesAlone DEF IInv

LEMMA StoreHereKeepsIInv ==
    ASSUME OneInserter, IInv, NEW s \in Shard, NEW name \in Name, StoreHere(s, name)
    PROVE  IInv'
<1>1. /\ typeToId' = typeToId /\ idToType' = idToType /\ channel' = channel /\ locked' = locked
      /\ call' = call
      /\ ValidTypeId(s, typeToId[s][name])
      /\ counted' = [counted EXCEPT ![s] = @ \cup {typeToId[s][name]}]
  BY DEF StoreHere
<1>2. \A d \in Client : ~Deleting(d)
  BY AskingMeansNoDeletion DEF StoreHere
<1>3. typeToId[s][name] \in TypeId
  BY <1>1 DEF IInv, TypeOK, ValidTypeId, NoType
<1>4. TypeOK'
  BY <1>1, <1>3 DEF IInv, TypeOK
<1>5. ChannelsOK' /\ WaitingOK'
  BY <1>1 DEF IInv, ChannelsOK, ChannelOK, WaitingOK, Messages, Inserting, IsIdle
<1>6. \A d \in Client : call'[d].kind # "delete"
  BY <1>1, <1>2 DEF Deleting
<1> QED  BY <1>1, <1>2, <1>4, <1>5, <1>6, TablesAlone DEF IInv

LEMMA EmptyKeepsIInv ==
    ASSUME IInv, NEW s \in Shard, NEW id \in TypeId, Empty(s, id)
    PROVE  IInv'
<1>1. /\ typeToId' = typeToId /\ idToType' = idToType /\ channel' = channel /\ locked' = locked
      /\ call' = call
      /\ counted' = [counted EXCEPT ![s] = @ \ {id}]
  BY DEF Empty
<1>2. TypeOK'
  BY <1>1 DEF IInv, TypeOK
<1>3. NamesMatchPositions' /\ BoundOK' /\ ChannelsOK' /\ WaitingOK'
  BY <1>1 DEF IInv, NamesMatchPositions, BoundOK, ChannelsOK, ChannelOK, WaitingOK, Messages,
              Inserting, IsIdle
<1>6. PrefixOK' /\ InsertionOK'
  <2>1. PrefixOK'
    BY <1>1 DEF IInv, PrefixOK, Deleting, Zero
  <2>2. InsertionOK'
    BY <1>1 DEF IInv, InsertionOK, Inserting, Zero
  <2> QED  BY <2>1, <2>2
<1>4. \A t \in Shard : counted'[t] \subseteq counted[t]
  BY <1>1 DEF IInv, TypeOK
<1>5. DeletionOK'
  BY <1>1, <1>4 DEF IInv, DeletionOK, Deleting, IsIdle
<1>7. FoundOK'
  BY <1>1 DEF IInv, FoundOK, Zero
<1> QED  BY <1>2, <1>3, <1>5, <1>6, <1>7 DEF IInv

\* The id in the next insertion of a channel is the one its shard is to give next, and the name
\* is not known there: ids are given out by one shard and handled in the order they were given.
LEMMA NextInsertion ==
    ASSUME OneInserter, IInv, NEW s \in Shard, NEW t \in Shard, channel[s][t] # <<>>,
           NEW c \in Client, c = Head(channel[s][t]),
           Inserting(c), t \in call[c].waiting, call[c].at = s
    PROVE  /\ s = Zero
           /\ call[c].name \in Name
           /\ call[c].id = Len(idToType[t]) + 1
           /\ typeToId[t][call[c].name] = NoType
           /\ \A d \in Client : ~Deleting(d)
           /\ \A d \in Client \ {c} : Inserting(d) => call[d].id # call[c].id
<1> DEFINE id == call[c].id
<1>1. s = Zero /\ Zero \in Shard
  BY ZeroIs DEF IInv, InsertionOK
<1>2. /\ call[c].name \in Name
      /\ id \in 1 .. Len(idToType[Zero])
      /\ idToType[Zero][id] = call[c].name
      /\ id > Len(idToType[t])
  BY DEF IInv, InsertionOK
<1>3. \A d \in Client : ~Deleting(d)
  BY DEF IInv, DeletionOK, Deleting, Inserting, IsIdle
<1>4. /\ Len(idToType[t]) \in Nat /\ Len(idToType[Zero]) \in Nat
      /\ \A i \in 1 .. Len(idToType[t]) : idToType[t][i] = idToType[Zero][i]
  BY <1>1, <1>3, TableFacts DEF IInv, PrefixOK
<1>5. ASSUME NEW d \in Client \ {c}, Inserting(d), call[d].id > Len(idToType[t])
      PROVE  id < call[d].id
  <2>1. t \in call[d].waiting /\ call[d].at = s
    BY <1>1, <1>5 DEF IInv, InsertionOK
  <2>2. PICK p \in 1 .. Len(channel[s][t]) : channel[s][t][p] = d
    BY <2>1 DEF IInv, WaitingOK, Messages
  <2>3. channel[s][t] \in Seq(Client) /\ channel[s][t][1] = c
    BY TailAt DEF IInv, TypeOK
  <2>4. 1 \in 1 .. Len(channel[s][t]) /\ 1 < p
    BY <2>2, <2>3
  <2> QED  BY <1>5, <2>2, <2>3, <2>4 DEF IInv, ChannelsOK, ChannelOK, Messages
<1>6. id = Len(idToType[t]) + 1
  <2> SUFFICES ASSUME Len(idToType[t]) + 1 < id  PROVE FALSE
    BY <1>2, <1>4
  <2>1. Len(idToType[t]) + 1 \in 1 .. Len(idToType[Zero])
    BY <1>2, <1>4
  <2>2. PICK d \in Client : Inserting(d) /\ call[d].id = Len(idToType[t]) + 1
    BY <1>4, <2>1 DEF IInv, InsertionOK
  <2>3. d # c /\ call[d].id > Len(idToType[t])
    BY <1>4, <2>2
  <2>4. id < call[d].id
    BY <1>5, <2>2, <2>3
  <2> QED  BY <1>2, <1>4, <2>2, <2>4
<1>7. typeToId[t][call[c].name] = NoType
  <2> SUFFICES ASSUME typeToId[t][call[c].name] # NoType  PROVE FALSE
    OBVIOUS
  <2> DEFINE name == call[c].name
             j == typeToId[t][name]
  <2>1. name \in Name /\ name # NoName /\ idToType[Zero][id] = name
    BY <1>2, TypeRegistryAssumption
  <2>2. j \in 1 .. Len(idToType[t]) /\ idToType[t][j] = name
    BY <2>1, TableFacts, Zenon
  <2> HIDE DEF name, j, id
  <2>3. j \in 1 .. Len(idToType[Zero]) /\ j # id
    BY <1>2, <1>4, <2>2 DEF id
  <2>4. idToType[Zero][j] = name
    BY <1>4, <2>2
  <2>5. typeToId[Zero][name] = j
    BY <1>1, <2>1, <2>3, <2>4, TableFacts
  <2>6. typeToId[Zero][name] = id
    BY <1>1, <1>2, <2>1, TableFacts, Zenon DEF id
  <2> QED  BY <2>3, <2>5, <2>6
<1>8. ASSUME NEW d \in Client \ {c}, Inserting(d) PROVE call[d].id # id
  <2> SUFFICES ASSUME call[d].id = id  PROVE FALSE
    OBVIOUS
  <2>1. call[d].id > Len(idToType[t]) /\ id \in Nat
    BY <1>2
  <2>2. id < id
    BY <1>5, <1>8, <2>1, Zenon
  <2> HIDE DEF id
  <2> QED  BY <2>1, <2>2
<1> QED  BY <1>1, <1>2, <1>3, <1>6, <1>7, <1>8, Zenon

LEMMA DeliverInsertKeepsIInv ==
    ASSUME OneInserter, IInv, NEW s \in Shard, NEW t \in Shard, Deliver(s, t),
           NEW c \in Client, c = Head(channel[s][t]), Inserting(c)
    PROVE  IInv'
<1> DEFINE n == Len(idToType[t])
           name == call[c].name
<1>1. /\ channel[s][t] # <<>>
      /\ channel' = [channel EXCEPT ![s][t] = Tail(@)]
      /\ call' = [call EXCEPT ![c].waiting = @ \ {t}]
      /\ locked' = locked
      /\ counted' = counted
      /\ addTypeId(t, name, call[c].id)
  BY Zenon DEF Deliver, Inserting
<1>2. /\ call[c].at = s /\ t \in call[c].waiting /\ t # s
      /\ call' \in [Client -> Call]
      /\ \A d \in Client \ {c} : call'[d] = call[d]
      /\ call'[c].waiting = call[c].waiting \ {t}
      /\ call'[c].at = call[c].at /\ call'[c].kind = call[c].kind /\ call'[c].id = call[c].id
      /\ call'[c].name = call[c].name
      /\ channel' \in [Shard -> [Shard -> Seq(Client)]]
      /\ ChannelsOK'
      /\ WaitingOK'
  <2>1. TypeOK /\ ChannelsOK /\ WaitingOK
    BY DEF IInv
  <2>2. Handled(s, t, c)
    BY <2>1, HandleKeepsChannels
  <2> QED  BY <2>2, Zenon DEF Handled
<1>3. /\ s = Zero
      /\ name \in Name
      /\ call[c].id = n + 1
      /\ typeToId[t][name] = NoType
      /\ \A d \in Client : ~Deleting(d)
      /\ \A d \in Client \ {c} : Inserting(d) => call[d].id # n + 1
  <2>1. /\ s = Zero
        /\ call[c].name \in Name
        /\ call[c].id = Len(idToType[t]) + 1
        /\ typeToId[t][call[c].name] = NoType
        /\ \A d \in Client : ~Deleting(d)
        /\ \A d \in Client \ {c} : Inserting(d) => call[d].id # call[c].id
    <3>1. channel[s][t] # <<>> /\ call[c].at = s /\ t \in call[c].waiting
      BY <1>1, <1>2, Zenon
    <3> QED  BY <3>1, NextInsertion
  <2> QED  BY <2>1
<1>4. /\ typeToId \in [Shard -> Ids]
      /\ idToType \in [Shard -> Names]
      /\ call[c] \in Call
      /\ n \in Nat
  BY TableFacts DEF IInv, TypeOK, Ids, Names
<1>5. /\ typeToId' = [typeToId EXCEPT ![t][name] = n + 1]
      /\ idToType' = [idToType EXCEPT ![t] = Append(@, name)]
  <2>1. ~ValidTypeId(t, call[c].id)
    BY <1>3, <1>4 DEF ValidTypeId
  <2> QED  BY <1>1, <1>3, <2>1, Zenon DEF addTypeId
<1>6. /\ typeToId'[t] = [typeToId[t] EXCEPT ![name] = n + 1]
      /\ idToType'[t] = Append(idToType[t], name)
      /\ \A u \in Shard \ {t} : typeToId'[u] = typeToId[u] /\ idToType'[u] = idToType[u]
  BY <1>4, <1>5
<1>7. /\ n + 1 \in 1 .. Len(idToType[Zero])
      /\ idToType[Zero][n + 1] = name
      /\ \A u \in Shard : u \in call[c].waiting <=> n + 1 > Len(idToType[u])
  BY <1>3 DEF IInv, InsertionOK
<1>8. n < MaxTypes /\ Len(idToType[Zero]) \in Nat /\ t # Zero
  <2>1. Zero \in Shard /\ MaxTypes \in Nat
    BY ZeroIs, TypeRegistryAssumption
  <2>2. Len(idToType[Zero]) \in Nat /\ Len(idToType[Zero]) <= MaxTypes
    BY <2>1, TableFacts
  <2>3. t # Zero
    BY <1>2, <1>3, Zenon
  <2>4. n \in Nat /\ n + 1 \in 1 .. Len(idToType[Zero])
    BY <1>4, <1>7, Zenon
  <2> HIDE DEF n
  <2> QED  BY <2>1, <2>2, <2>3, <2>4
<1>9. /\ typeToId'[t] \in Ids
      /\ idToType'[t] \in Names
      /\ Matched(typeToId'[t], idToType'[t])
  <2>1. typeToId[t] \in Ids /\ idToType[t] \in Names /\ Matched(typeToId[t], idToType[t])
    BY TableFacts
  <2> QED  BY <1>3, <1>6, <1>8, <2>1, NameAppended
<1>10. /\ Len(idToType'[t]) = n + 1
       /\ \A i \in 1 .. n : idToType'[t][i] = idToType[t][i]
       /\ idToType'[t][n + 1] = name
  BY <1>3, <1>4, <1>6, AppendAt DEF Names
<1>11. /\ typeToId' \in [Shard -> Ids]
       /\ idToType' \in [Shard -> Names]
  BY <1>4, <1>5, <1>6, <1>9, Zenon
<1>12. TypeOK'
  BY <1>1, <1>2, <1>11, Zenon DEF IInv, TypeOK, Ids, Names
<1>13. NamesMatchPositions'
  <2>1. \A u \in Shard : Matched(typeToId'[u], idToType'[u])
    BY <1>6, <1>9, TableFacts, Zenon
  <2> QED  BY <2>1 DEF NamesMatchPositions, Matched
<1>14. BoundOK'
  <2>1. MaxTypes \in Nat
    BY TypeRegistryAssumption
  <2> SUFFICES ASSUME NEW u \in Shard PROVE Len(idToType'[u]) <= MaxTypes
    BY DEF BoundOK
  <2>2. CASE u = t
    <3>1. Len(idToType'[u]) = n + 1 /\ n < MaxTypes /\ n \in Nat
      BY <1>4, <1>8, <1>10, <2>2, Zenon
    <3> QED  BY <2>1, <3>1
  <2>3. CASE u # t
    <3>1. idToType'[u] = idToType[u]
      BY <1>6, <2>3
    <3> QED  BY <3>1, TableFacts
  <2> QED  BY <2>2, <2>3
<1>15. /\ call'[c].at = call[c].at /\ call'[c].kind = call[c].kind /\ call'[c].id = call[c].id
       /\ call'[c].name = name /\ call'[c].waiting = call[c].waiting \ {t}
  BY <1>2, <1>4, Zenon DEF Call
<1>16. \A d \in Client : call'[d].kind # "delete"
  <2>1. call'[c].kind # "delete" /\ \A d \in Client \ {c} : call'[d].kind # "delete"
    BY <1>2, <1>3, <1>15, Zenon DEF Deleting
  <2> QED  BY <2>1
<1>17. DeletionOK'
  BY <1>16 DEF DeletionOK, Deleting
<1> HIDE DEF n, name
<1>18. idToType'[Zero] = idToType[Zero]
  BY <1>6, <1>8, ZeroIs
<1>19. \A u \in Shard : Len(idToType[u]) \in Nat /\ Len(idToType[u]) <= Len(idToType[Zero]) /\
           \A i \in 1 .. Len(idToType[u]) : idToType[u][i] = idToType[Zero][i]
  BY <1>3, TableFacts DEF IInv, PrefixOK
<1>20. PrefixOK'
  <2> SUFFICES ASSUME NEW u \in Shard
               PROVE  /\ Len(idToType'[u]) <= Len(idToType'[Zero])
                      /\ \A i \in 1 .. Len(idToType'[u]) : idToType'[u][i] = idToType'[Zero][i]
    BY DEF PrefixOK, Zero
  <2>1. CASE u = t
    <3>1. \A i \in 1 .. n + 1 : i \in 1 .. n \/ i = n + 1
      BY <1>4
    <3>2. \A i \in 1 .. n : idToType[t][i] = idToType[Zero][i]
      BY <1>19 DEF n
    <3>3. \A i \in 1 .. n + 1 : idToType'[t][i] = idToType[Zero][i]
      BY <1>7, <1>10, <3>1, <3>2
    <3> QED  BY <1>7, <1>8, <1>10, <1>18, <2>1, <3>3
  <2>2. CASE u # t
    BY <1>6, <1>18, <1>19, <2>2
  <2> QED  BY <2>1, <2>2
<1>21. ASSUME NEW d \in Client, call'[d].kind = "insert"
       PROVE  /\ call'[d].at = Zero
              /\ call'[d].name \in Name
              /\ call'[d].id \in 1 .. Len(idToType'[Zero])
              /\ idToType'[Zero][call'[d].id] = call'[d].name
              /\ \A u \in Shard : u \in call'[d].waiting <=> call'[d].id > Len(idToType'[u])
  <2>1. CASE d = c
    <3>1. \A u \in Shard : u \in call'[c].waiting <=> n + 1 > Len(idToType'[u])
      <4> SUFFICES ASSUME NEW u \in Shard PROVE u \in call'[c].waiting <=> n + 1 > Len(idToType'[u])
        OBVIOUS
      <4>1. call'[c].waiting = call[c].waiting \ {t}
        BY <1>15
      <4>2. u \in call[c].waiting <=> n + 1 > Len(idToType[u])
        BY <1>7
      <4>3. CASE u = t
        <5>1. Len(idToType'[u]) = n + 1 /\ n \in Nat
          BY <1>4, <1>10, <4>3, Zenon
        <5> QED  BY <4>1, <4>3, <5>1
      <4>4. CASE u # t
        <5>1. idToType'[u] = idToType[u]
          BY <1>6, <4>4
        <5> QED  BY <4>1, <4>2, <4>4, <5>1
      <4> QED  BY <4>3, <4>4
    <3>2. /\ call'[c].at = Zero /\ call'[c].name \in Name /\ call'[c].id = n + 1
          /\ n + 1 \in 1 .. Len(idToType'[Zero]) /\ idToType'[Zero][n + 1] = call'[c].name
      BY <1>2, <1>3, <1>7, <1>15, <1>18, Zenon
    <3> QED  BY <2>1, <3>1, <3>2
  <2>2. CASE d # c
    <3>1. call'[d] = call[d] /\ Inserting(d)
      BY <1>2, <1>21, <2>2 DEF Inserting
    <3>2. /\ call[d].at = Zero /\ call[d].name \in Name
          /\ call[d].id \in 1 .. Len(idToType[Zero]) /\ idToType[Zero][call[d].id] = call[d].name
          /\ \A u \in Shard : u \in call[d].waiting <=> call[d].id > Len(idToType[u])
      BY <3>1 DEF IInv, InsertionOK
    <3>3. call[d].id # n + 1
      BY <1>3, <2>2, <3>1
    <3>4. \A u \in Shard : call[d].id > Len(idToType[u]) <=> call[d].id > Len(idToType'[u])
      <4> SUFFICES ASSUME NEW u \in Shard
                   PROVE  call[d].id > Len(idToType[u]) <=> call[d].id > Len(idToType'[u])
        OBVIOUS
      <4>1. CASE u = t
        BY <1>4, <1>10, <3>2, <3>3, <4>1 DEF n
      <4>2. CASE u # t
        BY <1>6, <4>2
      <4> QED  BY <4>1, <4>2
    <3> QED  BY <1>18, <3>1, <3>2, <3>4
  <2> QED  BY <2>1, <2>2
<1>22. ASSUME NEW u \in Shard, NEW i \in 1 .. Len(idToType'[Zero]), i > Len(idToType'[u])
       PROVE  \E d \in Client : call'[d].kind = "insert" /\ call'[d].id = i
  <2>1. i \in 1 .. Len(idToType[Zero]) /\ i > Len(idToType[u])
    <3>1. Len(idToType[u]) \in Nat
      BY <1>19
    <3>2. Len(idToType'[u]) = Len(idToType[u]) \/ Len(idToType'[u]) = Len(idToType[u]) + 1
      <4>1. CASE u = t
        BY <1>10, <4>1 DEF n
      <4>2. CASE u # t
        BY <1>6, <4>2
      <4> QED  BY <4>1, <4>2
    <3> QED  BY <1>18, <1>22, <3>1, <3>2
  <2>2. PICK d \in Client : Inserting(d) /\ call[d].id = i
    BY <2>1 DEF IInv, InsertionOK
  <2> QED  BY <1>2, <1>15, <2>2, Zenon DEF Inserting
<1>23. InsertionOK'
  BY <1>21, <1>22 DEF InsertionOK, Inserting, Zero
<1>24. FoundOK'
  <2>1. \A d \in Client : call'[d].kind = "known" => call'[d] = call[d]
    BY <1>2 DEF Inserting
  <2>2. idToType'[Zero] = idToType[Zero]
    BY <1>6, <1>8, ZeroIs
  <2> QED  BY <2>1, <2>2, FoundStays
<1> QED  BY <1>2, <1>12, <1>13, <1>14, <1>17, <1>20, <1>23, <1>24, Zenon DEF IInv

LEMMA DeliverDeleteKeepsIInv ==
    ASSUME OneInserter, IInv, NEW s \in Shard, NEW t \in Shard, Deliver(s, t),
           NEW c \in Client, c = Head(channel[s][t]), Deleting(c)
    PROVE  IInv'
<1> DEFINE name == call[c].name
           id == call[c].id
<1>1. /\ call' = [call EXCEPT ![c].waiting = @ \ {t}]
      /\ locked' = locked
      /\ counted' = counted
      /\ deleteTypeId(t, name)
  BY DEF Deliver, Deleting
<1>2. Handled(s, t, c)
  BY HandleKeepsChannels DEF IInv
<1>3. /\ Deletes = "emptied"
      /\ name \in Name
      /\ \A d \in Client \ {c} : IsIdle(d)
      /\ \A u \in Shard :
            /\ id \in 1 .. Len(idToType[u])
            /\ id \notin counted[u]
            /\ idToType[u][id] = IF u \in call[c].waiting THEN name ELSE NoName
            /\ \A i \in 1 .. Len(idToType[u]) : idToType[u][i] = name => i = id
      /\ \A u, v \in Shard :
            /\ Len(idToType[u]) = Len(idToType[v])
            /\ \A i \in 1 .. Len(idToType[u]) \ {id} : idToType[u][i] = idToType[v][i]
  BY DEF IInv, DeletionOK
<1>4. name # NoName /\ t \in call[c].waiting /\ idToType[t][id] = name
  BY <1>2, <1>3, TypeRegistryAssumption, Zenon DEF Handled
<1> HIDE DEF name, id
<1>5. typeToId[t][name] = id /\ id # NoType /\ id \in 1 .. Len(idToType[t])
  <2>1. id \in 1 .. Len(idToType[t])
    BY <1>3
  <2>2. typeToId[t][name] = id
    BY <1>4, <2>1, TableFacts
  <2> QED  BY <2>1, <2>2, TableFacts DEF NoType
<1>6. /\ typeToId' = [typeToId EXCEPT ![t][name] = NoType]
      /\ idToType' = [idToType EXCEPT ![t][id] = NoName]
  <2>1. Deletable(t, id)
    <3>1. id >= 1 /\ id <= Len(idToType[t]) /\ id \notin counted[t]
      BY <1>3, <1>5, TableFacts
    <3> QED  BY <3>1 DEF Deletable, ValidTypeId
  <2> QED  BY <1>1, <1>5, <2>1 DEF deleteTypeId
<1>7. /\ typeToId \in [Shard -> Ids]
      /\ idToType \in [Shard -> Names]
  BY DEF IInv, TypeOK, Ids, Names
<1>8. /\ typeToId'[t] = [typeToId[t] EXCEPT ![name] = NoType]
      /\ idToType'[t] = [idToType[t] EXCEPT ![id] = NoName]
      /\ \A u \in Shard \ {t} : typeToId'[u] = typeToId[u] /\ idToType'[u] = idToType[u]
  BY <1>6, <1>7
<1>9. /\ typeToId'[t] \in Ids
      /\ idToType'[t] \in Names
      /\ Len(idToType'[t]) = Len(idToType[t])
      /\ \A i \in 1 .. Len(idToType[t]) : idToType'[t][i] = IF i = id THEN NoName ELSE idToType[t][i]
      /\ Matched(typeToId'[t], idToType'[t])
  <2>1. typeToId[t] \in Ids /\ idToType[t] \in Names /\ Matched(typeToId[t], idToType[t])
    BY TableFacts
  <2>2. name \in Name
    BY <1>3, Zenon
  <2>3. ASSUME NEW g, g = [typeToId[t] EXCEPT ![name] = NoType],
               NEW r, r = [idToType[t] EXCEPT ![id] = NoName]
        PROVE  /\ g \in Ids
               /\ r \in Names
               /\ Len(r) = Len(idToType[t])
               /\ \A i \in 1 .. Len(idToType[t]) : r[i] = IF i = id THEN NoName ELSE idToType[t][i]
               /\ Matched(g, r)
    BY <1>5, <2>1, <2>2, <2>3, NameCleared
  <2> QED  BY <1>8, <2>3
<1>10. /\ typeToId' \in [Shard -> Ids]
       /\ idToType' \in [Shard -> Names]
  BY <1>6, <1>7, <1>8, <1>9
<1>11. TypeOK'
  BY <1>1, <1>2, <1>10, Zenon DEF IInv, TypeOK, Ids, Names, Handled
<1>12. NamesMatchPositions'
  <2>1. \A u \in Shard : Matched(typeToId'[u], idToType'[u])
    BY <1>8, <1>9, TableFacts
  <2> QED  BY <2>1 DEF NamesMatchPositions, Matched
<1>13. \A u \in Shard : Len(idToType'[u]) = Len(idToType[u]) /\ Len(idToType[u]) \in Nat
  BY <1>8, <1>9, TableFacts
<1>14. BoundOK'
  BY <1>13 DEF BoundOK, IInv
<1>15. /\ call'[c].kind = "delete" /\ call'[c].id = id /\ call'[c].name = name
       /\ call'[c].waiting = call[c].waiting \ {t}
       /\ \A d \in Client \ {c} : call'[d].kind = "none"
  <2>1. /\ call'[c].kind = call[c].kind /\ call'[c].id = call[c].id /\ call'[c].name = call[c].name
        /\ call'[c].waiting = call[c].waiting \ {t}
        /\ \A d \in Client \ {c} : call'[d] = call[d]
    BY <1>2, Zenon DEF Handled
  <2>2. call[c].kind = "delete" /\ \A d \in Client \ {c} : call[d].kind = "none"
    BY <1>3, Zenon DEF Deleting, IsIdle
  <2> QED  BY <2>1, <2>2, Zenon DEF id, name
<1>16. ASSUME NEW u \in Shard
       PROVE  /\ id \in 1 .. Len(idToType'[u])
              /\ id \notin counted'[u]
              /\ idToType'[u][id] = IF u \in call[c].waiting \ {t} THEN name ELSE NoName
              /\ \A i \in 1 .. Len(idToType'[u]) : idToType'[u][i] = name => i = id
  <2>1. CASE u = t
    BY <1>1, <1>3, <1>4, <1>9, <2>1
  <2>2. CASE u # t
    BY <1>1, <1>3, <1>8, <2>2
  <2> QED  BY <2>1, <2>2
<1>17. \A u, v \in Shard : /\ Len(idToType'[u]) = Len(idToType'[v])
                           /\ \A i \in 1 .. Len(idToType'[u]) \ {id} : idToType'[u][i] = idToType'[v][i]
  <2>1. \A u \in Shard : \A i \in 1 .. Len(idToType[u]) \ {id} : idToType'[u][i] = idToType[u][i]
    BY <1>8, <1>9
  <2> QED  BY <1>3, <1>13, <2>1
<1>18. DeletionOK'
  <2> SUFFICES ASSUME NEW d \in Client, call'[d].kind = "delete"
               PROVE  /\ Deletes = "emptied"
                      /\ call'[d].name \in Name
                      /\ \A e \in Client \ {d} : call'[e].kind = "none"
                      /\ \A u \in Shard :
                            /\ call'[d].id \in 1 .. Len(idToType'[u])
                            /\ call'[d].id \notin counted'[u]
                            /\ idToType'[u][call'[d].id] =
                                  IF u \in call'[d].waiting THEN call'[d].name ELSE NoName
                            /\ \A i \in 1 .. Len(idToType'[u]) :
                                  idToType'[u][i] = call'[d].name => i = call'[d].id
                      /\ \A u, v \in Shard :
                            /\ Len(idToType'[u]) = Len(idToType'[v])
                            /\ \A i \in 1 .. Len(idToType'[u]) \ {call'[d].id} :
                                  idToType'[u][i] = idToType'[v][i]
    BY DEF DeletionOK, Deleting, IsIdle
  <2>1. d = c
    BY <1>15
  <2> QED  BY <1>3, <1>15, <1>16, <1>17, <2>1
<1>19. PrefixOK'
  BY <1>15 DEF PrefixOK, Deleting
<1>20. InsertionOK'
  <2>1. \A d \in Client : call'[d].kind # "insert"
    BY <1>15
  <2>2. \A u \in Shard : \A i \in 1 .. Len(idToType'[Zero]) : ~(i > Len(idToType'[u]))
    BY <1>13, <1>17, ZeroIs
  <2> QED  BY <2>1, <2>2 DEF InsertionOK, Inserting, Zero
<1>21. FoundOK'
  <2>1. \A d \in Client : call'[d].kind # "known"
    BY <1>15
  <2> QED  BY <2>1 DEF FoundOK
<1> QED  BY <1>2, <1>11, <1>12, <1>14, <1>18, <1>19, <1>20, <1>21 DEF IInv, Handled

LEMMA DeliverStoreKeepsIInv ==
    ASSUME OneInserter, IInv, NEW s \in Shard, NEW t \in Shard, Deliver(s, t),
           NEW c \in Client, c = Head(channel[s][t]), call[c].kind = "store"
    PROVE  IInv'
<1>1. /\ typeToId' = typeToId /\ idToType' = idToType /\ locked' = locked
      /\ counted' = IF ValidTypeId(t, call[c].id)
                    THEN [counted EXCEPT ![t] = @ \cup {call[c].id}]
                    ELSE counted
  BY DEF Deliver
<1>2. Handled(s, t, c)
  BY HandleKeepsChannels DEF IInv
<1>3. \A d \in Client : ~Deleting(d)
  BY DEF IInv, DeletionOK, Deleting, IsIdle
<1>4. ValidTypeId(t, call[c].id) => call[c].id \in TypeId
  BY DEF IInv, TypeOK, Call, ValidTypeId, NoType
<1>5. counted' \in [Shard -> SUBSET TypeId]
  BY <1>1, <1>4 DEF IInv, TypeOK
<1>6. TypeOK'
  BY <1>1, <1>2, <1>5, Zenon DEF IInv, TypeOK, Handled
<1>7. /\ \A d \in Client : call'[d].kind # "delete"
      /\ \A d \in Client : call'[d].kind = "insert" \/ call[d].kind = "insert" => call'[d] = call[d]
      /\ \A d \in Client : call'[d].kind = "known" => call'[d] = call[d]
  <2>1. call'[c].kind = "store" /\ \A d \in Client \ {c} : call'[d] = call[d]
    BY <1>2 DEF Handled
  <2> QED  BY <1>3, <2>1 DEF Deleting
<1> QED  BY <1>1, <1>2, <1>3, <1>6, <1>7, TablesAlone DEF IInv, Handled

LEMMA DeliverKeepsIInv ==
    ASSUME OneInserter, IInv, NEW s \in Shard, NEW t \in Shard, Deliver(s, t)
    PROVE  IInv'
<1>1. channel[s][t] # <<>> /\ channel[s][t] \in Seq(Client)
  BY Zenon DEF Deliver, IInv, TypeOK
<1>2. PICK c \in Client : c = Head(channel[s][t])
  BY <1>1, TailAt
<1>3. Inserting(c) \/ Deleting(c) \/ call[c].kind = "store"
  BY <1>2, Zenon DEF Deliver, Inserting, Deleting
<1> QED  BY <1>2, <1>3, DeliverInsertKeepsIInv, DeliverDeleteKeepsIInv, DeliverStoreKeepsIInv

LEMMA AnswerKeepsIInv ==
    ASSUME OneInserter, IInv, NEW c \in Client, Answer(c)
    PROVE  IInv'
<1>1. /\ typeToId' = typeToId /\ idToType' = idToType /\ counted' = counted /\ channel' = channel
      /\ ~IsIdle(c) /\ call[c].waiting = {}
      /\ call' = [call EXCEPT ![c] = None(call[c].at)]
  BY DEF Answer
<1>2. /\ call' \in [Client -> Call]
      /\ call'[c] = None(call[c].at)
      /\ \A d \in Client \ {c} : call'[d] = call[d]
      /\ ChannelsOK'
      /\ WaitingOK'
  BY <1>1, AnswerKeepsChannels DEF IInv
<1>3. call'[c].kind = "none"
  BY <1>2 DEF None
<1>4. TypeOK'
  <2>1. locked' \in [Shard -> BOOLEAN]
    BY DEF Answer, IInv, TypeOK
  <2> QED  BY <1>1, <1>2, <2>1 DEF IInv, TypeOK
<1>5. NamesMatchPositions' /\ BoundOK'
  BY <1>1 DEF IInv, NamesMatchPositions, BoundOK
<1>6. \A d \in Client : call'[d].kind # "delete"
  <2>1. \A d \in Client \ {c} : ~Deleting(d)
    BY <1>1 DEF IInv, DeletionOK, IsIdle
  <2> QED  BY <1>2, <1>3, <2>1 DEF Deleting
<1>7. DeletionOK'
  BY <1>6 DEF DeletionOK, Deleting
<1>10. FoundOK'
  <2>1. \A d \in Client : call'[d].kind = "known" => call'[d] = call[d]
    BY <1>2, <1>3
  <2> QED  BY <1>1, <2>1, FoundStays
<1>8. CASE Deleting(c)
  <2>1. /\ \A d \in Client \ {c} : IsIdle(d)
        /\ \A t \in Shard : call[c].id \in 1 .. Len(idToType[t]) /\ idToType[t][call[c].id] = NoName
        /\ \A s, t \in Shard : /\ Len(idToType[s]) = Len(idToType[t])
                               /\ \A i \in 1 .. Len(idToType[s]) \ {call[c].id} : idToType[s][i] = idToType[t][i]
    BY <1>1, <1>8 DEF IInv, DeletionOK
  <2>2. \A s, t \in Shard : /\ Len(idToType[s]) = Len(idToType[t]) /\ Len(idToType[s]) \in Nat
                            /\ \A i \in 1 .. Len(idToType[s]) : idToType[s][i] = idToType[t][i]
    BY <2>1, TableFacts
  <2>3. PrefixOK'
    <3>1. \A t \in Shard : /\ Len(idToType[t]) <= Len(idToType[Zero])
                           /\ \A i \in 1 .. Len(idToType[t]) : idToType[t][i] = idToType[Zero][i]
      BY <2>2, ZeroIs
    <3> QED  BY <1>1, <3>1 DEF PrefixOK, Zero
  <2>4. InsertionOK'
    <3>1. \A d \in Client : call'[d].kind # "insert"
      BY <1>2, <1>3, <2>1 DEF IsIdle
    <3>2. \A t \in Shard : \A i \in 1 .. Len(idToType[Zero]) : ~(i > Len(idToType[t]))
      BY <2>2, ZeroIs
    <3> QED  BY <1>1, <3>1, <3>2 DEF InsertionOK, Inserting, Zero
  <2> QED  BY <1>2, <1>4, <1>5, <1>7, <1>10, <2>3, <2>4 DEF IInv
<1>9. CASE ~Deleting(c)
  <2>1. \A d \in Client : ~Deleting(d)
    BY <1>1, <1>9 DEF IInv, DeletionOK
  <2>2. PrefixOK'
    BY <1>1, <2>1 DEF IInv, PrefixOK, Deleting, Zero
  <2>3. ASSUME NEW d \in Client, call'[d].kind = "insert"
        PROVE  /\ call'[d].at = Zero
               /\ call'[d].name \in Name
               /\ call'[d].id \in 1 .. Len(idToType[Zero])
               /\ idToType[Zero][call'[d].id] = call'[d].name
               /\ \A t \in Shard : t \in call'[d].waiting <=> call'[d].id > Len(idToType[t])
    <3>1. call'[d] = call[d] /\ Inserting(d)
      BY <1>2, <1>3, <2>3 DEF Inserting
    <3> QED  BY <3>1 DEF IInv, InsertionOK
  <2>4. ASSUME NEW t \in Shard, NEW i \in 1 .. Len(idToType[Zero]), i > Len(idToType[t])
        PROVE  \E d \in Client : call'[d].kind = "insert" /\ call'[d].id = i
    <3>1. PICK d \in Client : Inserting(d) /\ call[d].id = i
      BY <2>4 DEF IInv, InsertionOK
    <3>2. t \in call[d].waiting
      BY <2>4, <3>1 DEF IInv, InsertionOK
    <3>3. d # c
      BY <1>1, <3>2
    <3> QED  BY <1>2, <3>1, <3>3 DEF Inserting
  <2>5. InsertionOK'
    BY <1>1, <2>3, <2>4 DEF InsertionOK, Inserting, Zero
  <2> QED  BY <1>2, <1>4, <1>5, <1>7, <1>10, <2>2, <2>5 DEF IInv
<1> QED  BY <1>8, <1>9

LEMMA StutterKeepsIInv ==
    ASSUME IInv, UNCHANGED vars
    PROVE  IInv'
<1>1. /\ typeToId' = typeToId /\ idToType' = idToType /\ counted' = counted /\ channel' = channel
      /\ locked' = locked /\ call' = call
  BY DEF vars
<1>2. TypeOK'
  BY <1>1 DEF IInv, TypeOK
<1>6. BoundOK' /\ NamesMatchPositions' /\ ChannelsOK' /\ WaitingOK'
  BY <1>1 DEF IInv, BoundOK, NamesMatchPositions, ChannelsOK, ChannelOK, WaitingOK, Messages,
              Inserting, IsIdle
<1>3. DeletionOK'
  BY <1>1 DEF IInv, DeletionOK, Deleting, IsIdle
<1>4. PrefixOK'
  BY <1>1 DEF IInv, PrefixOK, Deleting, Zero
<1>5. InsertionOK'
  BY <1>1 DEF IInv, InsertionOK, Inserting, Zero
<1>7. FoundOK'
  BY <1>1 DEF IInv, FoundOK, Zero
<1> QED  BY <1>2, <1>3, <1>4, <1>5, <1>6, <1>7 DEF IInv

-----------------------------------------------------------------------------
(* The specification *)

LEMMA InitIInv == ASSUME Init, OneInserter PROVE IInv
<1>1. PICK z \in Shard : call = [c \in Client |-> None(z)]
  BY DEF Init
<1>2. /\ \A c \in Client : call[c] = None(z) /\ call[c].kind = "none" /\ call[c].waiting = {}
      /\ None(z) \in Call
  BY <1>1 DEF None, Call
<1>3. /\ \A s \in Shard : /\ idToType[s] = <<>> /\ Len(idToType[s]) = 0
                          /\ \A n \in Name : typeToId[s][n] = NoType
      /\ \A s, t \in Shard : channel[s][t] = <<>> /\ Len(channel[s][t]) = 0
  BY DEF Init
<1>4. TypeOK
  BY <1>1, <1>2 DEF Init, TypeOK
<1>5. BoundOK /\ NamesMatchPositions
  BY <1>3, TypeRegistryAssumption DEF BoundOK, NamesMatchPositions
<1>6. ChannelsOK
  BY <1>3 DEF ChannelsOK, ChannelOK, Messages
<1>7. WaitingOK /\ DeletionOK
  BY <1>2 DEF WaitingOK, DeletionOK, Deleting
<1>8. PrefixOK
  BY <1>3, ZeroIs DEF PrefixOK
<1>9. InsertionOK
  BY <1>2, <1>3, ZeroIs DEF InsertionOK, Inserting
<1>10. FoundOK
  BY <1>2 DEF FoundOK
<1> QED  BY <1>4, <1>5, <1>6, <1>7, <1>8, <1>9, <1>10 DEF IInv

LEMMA NextKeepsIInv == ASSUME OneInserter, IInv, [Next]_vars PROVE IInv'
<1>1. ASSUME NEW c \in Client, NEW s \in Shard, NEW name \in Name, TypeInsertPeered(c, s, name)
      PROVE  IInv'
  BY <1>1, InsertKeepsIInv
<1>2. ASSUME NEW c \in Client, NEW s \in Shard, NEW name \in Name, DeleteTypePeered(c, s, name)
      PROVE  IInv'
  BY <1>2, DeleteKeepsIInv
<1>3. ASSUME NEW c \in Client, NEW s \in Shard, NEW t \in Shard, NEW name \in Name,
             StorePeered(c, s, t, name)
      PROVE  IInv'
  BY <1>3, StorePeeredKeepsIInv
<1>4. ASSUME NEW s \in Shard, NEW name \in Name, StoreHere(s, name) PROVE IInv'
  BY <1>4, StoreHereKeepsIInv
<1>5. ASSUME NEW s \in Shard, NEW id \in TypeId, Empty(s, id) PROVE IInv'
  BY <1>5, EmptyKeepsIInv
<1>6. ASSUME NEW s \in Shard, NEW t \in Shard, Deliver(s, t) PROVE IInv'
  BY <1>6, DeliverKeepsIInv
<1>7. ASSUME NEW c \in Client, Answer(c) PROVE IInv'
  BY <1>7, AnswerKeepsIInv
<1>8. ASSUME NEW c \in Client, NEW s \in Shard, NEW name \in Name, TypeFoundPeered(c, s, name)
      PROVE  IInv'
  BY <1>8, FoundKeepsIInv
<1>9. CASE UNCHANGED vars
  BY <1>9, StutterKeepsIInv
<1> QED  BY <1>1, <1>2, <1>3, <1>4, <1>5, <1>6, <1>7, <1>8, <1>9 DEF Next

LEMMA Invariance == ASSUME OneInserter PROVE Spec => []IInv
<1>1. Init => IInv
  BY InitIInv
<1>2. IInv /\ [Next]_vars => IInv'
  BY NextKeepsIInv
<1> QED  BY <1>1, <1>2, PTL DEF Spec

\* Whatever the shards, the names and the clients, tables, counts, channels and requests are
\* what they are declared to be when one shard inserts and deletions follow the rule.
THEOREM TypeCorrect == ASSUME OneInserter PROVE Spec => []TypeOK
<1>1. IInv => TypeOK
  BY DEF IInv
<1> QED  BY <1>1, Invariance, PTL

\* NodeTypes::addTypeId and deleteTypeId keep type_to_id and id_to_type inverse on every shard,
\* whatever broadcasts of insertTypeId and deletions are on their way: the handlers use
\* the position a name gets, never the id they are sent, and the two agree.
THEOREM NamesMatchPositionsHolds == ASSUME OneInserter PROVE Spec => []NamesMatchPositions
<1>1. IInv => NamesMatchPositions
  BY DEF IInv
<1> QED  BY <1>1, Invariance, PTL

LEMMA IInvGivesGlobalIds == ASSUME OneInserter, IInv PROVE TypeIdsAreGlobal
<1> SUFFICES ASSUME NEW s \in Shard, NEW t \in Shard, NEW n \in Name, NEW m \in Name,
                    typeToId[s][n] # NoType
             PROVE  /\ typeToId[t][n] # NoType => typeToId[t][n] = typeToId[s][n]
                    /\ typeToId[s][n] = typeToId[t][m] => n = m
  BY DEF TypeIdsAreGlobal
<1> DEFINE i == typeToId[s][n]
<1>1. n # NoName /\ m # NoName
  BY TypeRegistryAssumption
<1>2. i \in 1 .. Len(idToType[s]) /\ idToType[s][i] = n
  BY TableFacts
<1>3. typeToId[t][n] # NoType => /\ typeToId[t][n] \in 1 .. Len(idToType[t])
                                 /\ idToType[t][typeToId[t][n]] = n
  BY TableFacts
<1>4. typeToId[t][m] # NoType => /\ typeToId[t][m] \in 1 .. Len(idToType[t])
                                 /\ idToType[t][typeToId[t][m]] = m
  BY TableFacts
<1> HIDE DEF i
<1>5. CASE \A d \in Client : ~Deleting(d)
  <2>1. \A u \in Shard : /\ Len(idToType[u]) \in Nat /\ Len(idToType[u]) <= Len(idToType[Zero])
                         /\ \A k \in 1 .. Len(idToType[u]) : idToType[u][k] = idToType[Zero][k]
    BY <1>5, TableFacts DEF IInv, PrefixOK
  <2>2. \A u \in Shard : \A k \in 1 .. Len(idToType[u]) :
            k \in 1 .. Len(idToType[Zero]) /\ idToType[u][k] = idToType[Zero][k]
    BY <2>1, ZeroIs
  <2>3. \A k \in 1 .. Len(idToType[Zero]) :
            idToType[Zero][k] # NoName => typeToId[Zero][idToType[Zero][k]] = k
    BY ZeroIs, TableFacts
  <2>4. i \in 1 .. Len(idToType[Zero]) /\ idToType[Zero][i] = n /\ typeToId[Zero][n] = i
    BY <1>1, <1>2, <2>2, <2>3
  <2>5. typeToId[t][n] # NoType => typeToId[Zero][n] = typeToId[t][n]
    BY <1>1, <1>3, <2>2, <2>3
  <2>6. typeToId[t][m] # NoType => idToType[Zero][typeToId[t][m]] = m
    BY <1>4, <2>2
  <2> QED  BY <2>4, <2>5, <2>6 DEF i
<1>6. CASE \E d \in Client : Deleting(d)
  <2>1. PICK d \in Client : Deleting(d)
    BY <1>6
  <2> DEFINE id == call[d].id
             name == call[d].name
  <2>2. /\ name \in Name
        /\ \A u \in Shard :
              /\ id \in 1 .. Len(idToType[u])
              /\ idToType[u][id] \in {name, NoName}
              /\ \A k \in 1 .. Len(idToType[u]) : idToType[u][k] = name => k = id
        /\ \A u, v \in Shard :
              /\ Len(idToType[u]) = Len(idToType[v])
              /\ \A k \in 1 .. Len(idToType[u]) \ {id} : idToType[u][k] = idToType[v][k]
    BY <2>1 DEF IInv, DeletionOK
  <2> HIDE DEF id, name
  <2>3. CASE i = id
    <3>1. n = name
      BY <1>1, <1>2, <2>2, <2>3
    <3>2. typeToId[t][n] # NoType => typeToId[t][n] = id
      BY <1>3, <2>2, <3>1
    <3>3. typeToId[t][m] = id => m = name
      BY <1>1, <1>4, <1>2, <2>2, <2>3 DEF i
    <3> QED  BY <2>3, <3>1, <3>2, <3>3 DEF i
  <2>4. CASE i # id
    <3>1. i \in 1 .. Len(idToType[t]) /\ idToType[t][i] = n
      BY <1>2, <2>2, <2>4
    <3>2. typeToId[t][n] = i
      BY <1>1, <3>1, TableFacts
    <3>3. typeToId[t][m] = i => m = n
      BY <1>4, <3>1 DEF i
    <3> QED  BY <3>2, <3>3 DEF i
  <2> QED  BY <2>3, <2>4
<1> QED  BY <1>5, <1>6

\* Shards whose tables grow by the broadcasts of one shard give a type the same id, and no id to
\* two types, at every moment of an insertion or of a deletion.
THEOREM TypeIdsAreGlobalHolds == ASSUME OneInserter PROVE Spec => []TypeIdsAreGlobal
<1>1. IInv => TypeIdsAreGlobal
  BY IInvGivesGlobalIds
<1> QED  BY <1>1, Invariance, PTL

LEMMA IInvGivesAnswers == ASSUME OneInserter, IInv PROVE AnsweredMeansKnown
<1> SUFFICES ASSUME NEW c \in Client, call[c].kind \in {"insert", "known"}, call[c].waiting = {},
                    NEW t \in Shard
             PROVE  \/ typeToId[t][call[c].name] = call[c].id
                    \/ call[c].kind = "known" /\ OnItsWay(call[c].at, t, call[c].name, call[c].id)
  BY DEF AnsweredMeansKnown
<1>1. \A d \in Client : ~Deleting(d)
  BY DEF IInv, DeletionOK, Deleting, IsIdle
<1>2. /\ call[c].at = Zero
      /\ call[c].id \in 1 .. Len(idToType[Zero])
      /\ idToType[Zero][call[c].id] = call[c].name
      /\ call[c].kind = "insert" => ~(call[c].id > Len(idToType[t]))
  BY DEF IInv, InsertionOK, FoundOK, Inserting
<1>3. /\ Len(idToType[t]) \in Nat /\ Len(idToType[Zero]) \in Nat
      /\ \A i \in 1 .. Len(idToType[t]) : idToType[t][i] = idToType[Zero][i]
  BY <1>1, ZeroIs, TableFacts DEF IInv, PrefixOK
<1>4. call[c].name \in Name
  <2>1. CASE call[c].kind = "insert"
    BY <2>1 DEF IInv, InsertionOK, Inserting
  <2>2. CASE call[c].kind = "known"
    BY <2>2 DEF IInv, FoundOK
  <2> QED  BY <2>1, <2>2
<1>5. CASE ~(call[c].id > Len(idToType[t]))
  <2>1. call[c].id \in 1 .. Len(idToType[t]) /\ idToType[t][call[c].id] = call[c].name
    BY <1>2, <1>3, <1>5
  <2> QED  BY <1>4, <2>1, TableFacts, TypeRegistryAssumption
<1>6. CASE call[c].id > Len(idToType[t])
  <2>1. PICK d \in Client : Inserting(d) /\ call[d].id = call[c].id
    BY <1>2, <1>6 DEF IInv, InsertionOK
  <2>2. call[d].at = Zero /\ call[d].name = call[c].name /\ t \in call[d].waiting
    BY <1>2, <1>6, <2>1 DEF IInv, InsertionOK
  <2>3. PICK p \in Messages(Zero, t) : channel[Zero][t][p] = d
    BY <2>2 DEF IInv, WaitingOK
  <2>4. OnItsWay(Zero, t, call[c].name, call[c].id)
    BY <2>1, <2>2, <2>3 DEF OnItsWay, Messages, Inserting
  <2> QED  BY <1>2, <1>6, <2>4
<1> QED  BY <1>5, <1>6

\* When NodeTypeInsertPeered or RelationshipTypeInsertPeered answers with an id it has drawn and
\* broadcast, every shard's table has the name at that id; when it answers with an id it found,
\* every other shard has it too or is sent it before anything else that follows the answer.
THEOREM AnsweredMeansKnownHolds == ASSUME OneInserter PROVE Spec => []AnsweredMeansKnown
<1>1. IInv => AnsweredMeansKnown
  BY IInvGivesAnswers
<1> QED  BY <1>1, Invariance, PTL

LEMMA IInvGivesDeletions == ASSUME OneInserter, IInv PROVE DeletedOnAllShards
<1> SUFFICES ASSUME NEW c \in Client, Deleting(c), call[c].waiting = {}, NEW s \in Shard,
                    typeToId[s][call[c].name] # NoType
             PROVE  FALSE
  BY DEF DeletedOnAllShards, Deleting
<1>1. /\ call[c].name \in Name
      /\ idToType[s][call[c].id] = NoName
      /\ \A i \in 1 .. Len(idToType[s]) : idToType[s][i] = call[c].name => i = call[c].id
  BY DEF IInv, DeletionOK
<1>2. /\ typeToId[s][call[c].name] \in 1 .. Len(idToType[s])
      /\ idToType[s][typeToId[s][call[c].name]] = call[c].name
  BY <1>1, TableFacts
<1> QED  BY <1>1, <1>2, TypeRegistryAssumption

\* When DeleteNodeTypePeered or DeleteRelationshipTypePeered answers, every shard has forgotten
\* the name, though each decided by its own count.
THEOREM DeletedOnAllShardsHolds == ASSUME OneInserter PROVE Spec => []DeletedOnAllShards
<1>1. IInv => DeletedOnAllShards
  BY IInvGivesDeletions
<1> QED  BY <1>1, Invariance, PTL

=============================================================================
