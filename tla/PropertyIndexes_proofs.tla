------------------------ MODULE PropertyIndexes_proofs ------------------------
(***************************************************************************)
(* The index of a node property against the columns it is made from, for    *)
(* every number of shards, keys, slots, values, writes and index tasks.     *)
(*                                                                         *)
(* A part of the index is changed by messages, and a message is sent by the *)
(* shard that holds the value. What is true of an entry is therefore what   *)
(* will be true of it once its shard's queue is empty: Due counts an entry  *)
(* through the queue, and EntriesOK says what that count is. Before a shard *)
(* has an index and has filled it nothing is due for its slots, but for     *)
(* what was written since the creation and what an earlier index left       *)
(* behind; afterwards each value held is due once, and nothing else is.     *)
(* The creation or deletion goes from shard to shard with the same queues,  *)
(* and TaskOK says which shards have their part at each point of it.        *)
(*                                                                         *)
(* The order: counting through a queue; telling, handling and filling; the  *)
(* columns; the inductive invariant; that each action keeps it; what        *)
(* follows for the properties.                                             *)
(***************************************************************************)
EXTENDS PropertyIndexes, NodeTypes_lemmas

-----------------------------------------------------------------------------
(* Counting an entry through a queue of messages *)

IsWrite(m) == m.op \in {"insert", "remove"}

LEMMA CountedNat ==
    ASSUME NEW kind, NEW n \in Nat, NEW m, NEW e
    PROVE  Counted(kind, n, m, e) \in Nat
BY DEF Counted, Inserted, Removed

\* f is the running count of the first messages.
Counts(f, kind, x, messages, e) ==
    /\ f \in [0 .. Len(messages) -> Nat]
    /\ f[0] = x
    /\ \A n \in 1 .. Len(messages) : f[n] = Counted(kind, f[n - 1], messages[n], e)

\* The running count exists, however many messages there are: the shortest queue without one
\* would leave one for the queue before its last message.
LEMMA CountExists ==
    ASSUME NEW kind, NEW x \in Nat, NEW M, NEW messages \in Seq(M), NEW e
    PROVE  \E f : Counts(f, kind, x, messages, e)
<1> DEFINE Upto(f, n) == /\ f \in [0 .. n -> Nat]
                         /\ f[0] = x
                         /\ \A j \in 1 .. n : f[j] = Counted(kind, f[j - 1], messages[j], e)
           Without == {n \in Nat : ~ \E f : Upto(f, n)}
<1>1. Len(messages) \in Nat
  OBVIOUS
<1>2. Without = {}
  <2>1. SUFFICES ASSUME Without # {} PROVE FALSE
    OBVIOUS
  <2>2. PICK n \in Without : \A j \in Without : n <= j
    <3>1. Without \subseteq Nat
      OBVIOUS
    <3> HIDE DEF Without
    <3> QED  BY <2>1, <3>1, NatMin
  <2>3. n \in Nat /\ ~ \E f : Upto(f, n)
    OBVIOUS
  <2>4. CASE n = 0
    <3>1. Upto([j \in 0 .. 0 |-> x], 0)
      OBVIOUS
    <3> QED  BY <2>3, <2>4, <3>1
  <2>5. CASE n # 0
    <3>1. n - 1 \in Nat /\ n - 1 \notin Without
      <4>1. n - 1 \in Nat /\ ~ (n <= n - 1)
        BY <2>3, <2>5
      <4> HIDE DEF Without
      <4> QED  BY <2>2, <4>1
    <3>2. PICK f : Upto(f, n - 1)
      BY <3>1
    <3> DEFINE y == Counted(kind, f[n - 1], messages[n], e)
               g == [j \in 0 .. n |-> IF j = n THEN y ELSE f[j]]
    <3>3. f[n - 1] \in Nat
      BY <3>1, <3>2
    <3>4. y \in Nat
      BY <3>3, CountedNat
    <3> HIDE DEF y
    <3>5. g \in [0 .. n -> Nat] /\ g[0] = x
      BY <2>3, <2>5, <3>2, <3>4
    <3>6. ASSUME NEW j \in 1 .. n PROVE g[j] = Counted(kind, g[j - 1], messages[j], e)
      <4>1. CASE j = n
        <5>1. g[j] = y /\ g[j - 1] = f[n - 1]
          BY <2>3, <2>5, <4>1
        <5> QED  BY <4>1, <5>1 DEF y
      <4>2. CASE j # n
        <5>1. j \in 1 .. n - 1 /\ j \in 0 .. n /\ j - 1 \in 0 .. n /\ j - 1 # n
          BY <2>3, <4>2
        <5>2. g[j] = f[j] /\ g[j - 1] = f[j - 1]
          BY <4>2, <5>1
        <5> QED  BY <3>2, <5>1, <5>2
      <4> QED  BY <4>1, <4>2
    <3>7. Upto(g, n)
      BY <3>5, <3>6
    <3> QED  BY <2>3, <3>7
  <2> QED  BY <2>4, <2>5
<1>3. PICK f : Upto(f, Len(messages))
  BY <1>1, <1>2
<1> QED  BY <1>3 DEF Counts

\* After is where the running count ends.
LEMMA AfterIs ==
    ASSUME NEW kind, NEW x \in Nat, NEW M, NEW messages \in Seq(M), NEW e
    PROVE  \E f : Counts(f, kind, x, messages, e) /\ After(kind, x, messages, e) = f[Len(messages)]
<1> DEFINE Step(f) == [n \in 0 .. Len(messages) |->
                          IF n = 0 THEN x ELSE Counted(kind, f[n - 1], messages[n], e)]
           count == CHOOSE f : f = Step(f)
<1>1. Len(messages) \in Nat
  OBVIOUS
<1>2. PICK f : Counts(f, kind, x, messages, e)
  BY CountExists
<1>3. f = Step(f)
  BY <1>1, <1>2 DEF Counts
<1>4. count = Step(count)
  <2> HIDE DEF Step
  <2> QED  BY <1>3
<1> HIDE DEF count
<1>5. \A n \in 0 .. Len(messages) :
          count[n] = IF n = 0 THEN x ELSE Counted(kind, count[n - 1], messages[n], e)
  BY <1>4
<1>6. \A n \in 0 .. Len(messages) : count[n] \in Nat
  <2> DEFINE Off == {n \in 0 .. Len(messages) : count[n] \notin Nat}
  <2>1. SUFFICES ASSUME Off # {} PROVE FALSE
    OBVIOUS
  <2>2. Off \subseteq Nat
    OBVIOUS
  <2>3. PICK n \in Off : \A j \in Off : n <= j
    <3> HIDE DEF Off
    <3> QED  BY <2>1, <2>2, NatMin
  <2>4. n \in 0 .. Len(messages) /\ count[n] \notin Nat
    OBVIOUS
  <2>5. n # 0
    BY <1>5, <2>4
  <2>6. n - 1 \in 0 .. Len(messages) /\ n - 1 \notin Off
    BY <1>1, <2>3, <2>4, <2>5
  <2>7. count[n - 1] \in Nat
    BY <2>6
  <2> QED  BY <1>5, <2>4, <2>5, <2>7, CountedNat
<1>7. Counts(count, kind, x, messages, e)
  <2>1. count \in [0 .. Len(messages) -> Nat]
    BY <1>4, <1>6
  <2> QED  BY <1>1, <1>5, <2>1 DEF Counts
<1>8. After(kind, x, messages, e) = count[Len(messages)]
  BY DEF After, count
<1> QED  BY <1>7, <1>8

\* There is one running count, so that After can be computed by any.
LEMMA AfterBy ==
    ASSUME NEW kind, NEW x \in Nat, NEW M, NEW messages \in Seq(M), NEW e,
           NEW f, Counts(f, kind, x, messages, e)
    PROVE  After(kind, x, messages, e) = f[Len(messages)]
<1>1. PICK g : Counts(g, kind, x, messages, e) /\ After(kind, x, messages, e) = g[Len(messages)]
  BY AfterIs
<1>2. Len(messages) \in Nat
  OBVIOUS
<1> DEFINE Off == {n \in 0 .. Len(messages) : f[n] # g[n]}
<1>3. CASE Off = {}
  BY <1>1, <1>2, <1>3
<1>4. CASE Off # {}
  <2>1. Off \subseteq Nat
    OBVIOUS
  <2>2. PICK n \in Off : \A j \in Off : n <= j
    <3> HIDE DEF Off
    <3> QED  BY <1>4, <2>1, NatMin
  <2>3. n \in 0 .. Len(messages) /\ f[n] # g[n]
    OBVIOUS
  <2>4. n # 0
    BY <1>1, <2>3 DEF Counts
  <2>5. n - 1 \in 0 .. Len(messages) /\ n - 1 \notin Off /\ n \in 1 .. Len(messages)
    BY <1>2, <2>2, <2>3, <2>4
  <2>6. f[n - 1] = g[n - 1]
    BY <2>5
  <2> QED  BY <1>1, <2>3, <2>5, <2>6 DEF Counts
<1> QED  BY <1>3, <1>4

LEMMA AfterNat ==
    ASSUME NEW kind, NEW x \in Nat, NEW M, NEW messages \in Seq(M), NEW e
    PROVE  After(kind, x, messages, e) \in Nat
<1>1. PICK f : Counts(f, kind, x, messages, e) /\ After(kind, x, messages, e) = f[Len(messages)]
  BY AfterIs
<1>2. Len(messages) \in 0 .. Len(messages)
  OBVIOUS
<1> QED  BY <1>1, <1>2 DEF Counts

LEMMA AfterNothing ==
    ASSUME NEW kind, NEW x \in Nat, NEW e
    PROVE  After(kind, x, <<>>, e) = x
<1>1. ASSUME NEW M, NEW messages \in Seq(M), Len(messages) = 0
      PROVE  After(kind, x, messages, e) = x
  <2>1. PICK f : Counts(f, kind, x, messages, e) /\ After(kind, x, messages, e) = f[Len(messages)]
    BY AfterIs
  <2>2. f[0] = x
    BY <2>1, Zenon DEF Counts
  <2> QED  BY <1>1, <2>1, <2>2, Zenon
<1> DEFINE none == <<>>
           M == {}
<1>2. none \in Seq(M) /\ Len(none) = 0
  OBVIOUS
<1> HIDE DEF none, M
<1>3. After(kind, x, none, e) = x
  BY <1>1, <1>2
<1> QED  BY <1>3, Zenon DEF none

\* A message sent is counted last.
LEMMA AfterAppend ==
    ASSUME NEW kind, NEW x \in Nat, NEW M, NEW messages \in Seq(M), NEW m \in M, NEW e
    PROVE  After(kind, x, Append(messages, m), e) = Counted(kind, After(kind, x, messages, e), m, e)
<1>1. PICK f : Counts(f, kind, x, messages, e) /\ After(kind, x, messages, e) = f[Len(messages)]
  BY AfterIs
<1> DEFINE N == Len(messages)
           longer == Append(messages, m)
           y == Counted(kind, f[N], m, e)
           g == [n \in 0 .. N + 1 |-> IF n = N + 1 THEN y ELSE f[n]]
<1>2. N \in Nat /\ longer \in Seq(M) /\ Len(longer) = N + 1 /\ longer[N + 1] = m
      /\ \A n \in 1 .. N : longer[n] = messages[n]
  OBVIOUS
<1> HIDE DEF N, longer
<1>3. f \in [0 .. N -> Nat] /\ f[0] = x
      /\ \A n \in 1 .. N : f[n] = Counted(kind, f[n - 1], messages[n], e)
  BY <1>1 DEF Counts, N
<1>4. y \in Nat
  BY <1>2, <1>3, CountedNat
<1> HIDE DEF y
<1>5. g \in [0 .. N + 1 -> Nat] /\ g[0] = x /\ g[N + 1] = y
  BY <1>2, <1>3, <1>4
<1>6. ASSUME NEW n \in 1 .. N + 1 PROVE g[n] = Counted(kind, g[n - 1], longer[n], e)
  <2>1. CASE n = N + 1
    <3>1. g[n] = y /\ g[n - 1] = f[N] /\ longer[n] = m
      BY <1>2, <2>1
    <3> QED  BY <3>1 DEF y
  <2>2. CASE n # N + 1
    <3>1. n \in 1 .. N /\ n \in 0 .. N + 1 /\ n - 1 \in 0 .. N + 1 /\ n - 1 # N + 1
      BY <1>2, <2>2
    <3>2. g[n] = f[n] /\ g[n - 1] = f[n - 1]
      BY <2>2, <3>1
    <3> QED  BY <1>2, <1>3, <3>1, <3>2
  <2> QED  BY <2>1, <2>2
<1>7. Counts(g, kind, x, longer, e)
  BY <1>2, <1>5, <1>6 DEF Counts
<1>8. After(kind, x, longer, e) = y
  BY <1>2, <1>5, <1>7, AfterBy
<1> QED  BY <1>1, <1>8 DEF longer, y, N

\* A message handled may as well have been counted before the others.
LEMMA AfterTail ==
    ASSUME NEW kind, NEW x \in Nat, NEW M, NEW messages \in Seq(M), NEW e, messages # <<>>
    PROVE  After(kind, x, messages, e)
             = After(kind, Counted(kind, x, Head(messages), e), Tail(messages), e)
<1>1. PICK f : Counts(f, kind, x, messages, e) /\ After(kind, x, messages, e) = f[Len(messages)]
  BY AfterIs
<1> DEFINE N == Len(messages)
           rest == Tail(messages)
           y == Counted(kind, x, Head(messages), e)
           g == [n \in 0 .. N - 1 |-> f[n + 1]]
<1>2. N \in Nat /\ N >= 1 /\ rest \in Seq(M) /\ Len(rest) = N - 1 /\ messages[1] = Head(messages)
      /\ \A n \in 1 .. N - 1 : rest[n] = messages[n + 1]
  OBVIOUS
<1> HIDE DEF N, rest
<1>3. f \in [0 .. N -> Nat] /\ f[0] = x
      /\ \A n \in 1 .. N : f[n] = Counted(kind, f[n - 1], messages[n], e)
  BY <1>1 DEF Counts, N
<1>4. y \in Nat
  BY CountedNat
<1>5. g \in [0 .. N - 1 -> Nat] /\ g[0] = f[1] /\ g[N - 1] = f[N]
  BY <1>2, <1>3
<1>6. f[1] = y
  <2>1. 1 \in 1 .. N /\ 1 - 1 = 0
    BY <1>2
  <2> QED  BY <1>2, <1>3, <2>1
<1>7. ASSUME NEW n \in 1 .. N - 1 PROVE g[n] = Counted(kind, g[n - 1], rest[n], e)
  <2>1. n + 1 \in 1 .. N /\ (n + 1) - 1 = n /\ g[n] = f[n + 1] /\ g[n - 1] = f[n]
    BY <1>2
  <2> QED  BY <1>2, <1>3, <2>1
<1> HIDE DEF y
<1>8. Counts(g, kind, y, rest, e)
  BY <1>2, <1>5, <1>6, <1>7 DEF Counts
<1>9. After(kind, y, rest, e) = f[N]
  BY <1>2, <1>4, <1>5, <1>8, AfterBy
<1> QED  BY <1>1, <1>9 DEF N, rest, y

\* Messages about other entries change nothing.
LEMMA AfterOthers ==
    ASSUME NEW kind, NEW x \in Nat, NEW M, NEW messages \in Seq(M), NEW e,
           \A n \in DOMAIN messages : IsWrite(messages[n]) => messages[n].entry # e
    PROVE  After(kind, x, messages, e) = x
<1> DEFINE f == [n \in 0 .. Len(messages) |-> x]
<1>1. Len(messages) \in Nat /\ DOMAIN messages = 1 .. Len(messages)
  OBVIOUS
<1>2. ASSUME NEW n \in 1 .. Len(messages) PROVE Counted(kind, x, messages[n], e) = x
  BY <1>1 DEF Counted, IsWrite
<1>3. Counts(f, kind, x, messages, e)
  BY <1>1, <1>2 DEF Counts
<1> QED  BY <1>1, <1>3, AfterBy

\* One insertion among messages about other entries is all that counts.
LEMMA AfterOneInsert ==
    ASSUME NEW kind, NEW x \in Nat, NEW M, NEW messages \in Seq(M), NEW e, NEW p \in DOMAIN messages,
           messages[p].op = "insert", messages[p].entry = e,
           \A n \in DOMAIN messages : n # p /\ IsWrite(messages[n]) => messages[n].entry # e
    PROVE  After(kind, x, messages, e) = Inserted(kind, x)
<1> DEFINE f == [n \in 0 .. Len(messages) |-> IF n < p THEN x ELSE Inserted(kind, x)]
<1>1. Len(messages) \in Nat /\ DOMAIN messages = 1 .. Len(messages)
  OBVIOUS
<1>2. Inserted(kind, x) \in Nat
  BY DEF Inserted
<1>3. ASSUME NEW n \in 1 .. Len(messages) PROVE f[n] = Counted(kind, f[n - 1], messages[n], e)
  <2>1. n \in 0 .. Len(messages) /\ n - 1 \in 0 .. Len(messages) /\ p \in Nat
    BY <1>1
  <2>2. CASE n = p
    <3>1. f[n] = Inserted(kind, x) /\ f[n - 1] = x
      BY <2>1, <2>2
    <3> QED  BY <2>2, <3>1 DEF Counted
  <2>3. CASE n # p
    <3>1. f[n] = f[n - 1]
      BY <2>1, <2>3
    <3>2. \A y : Counted(kind, y, messages[n], e) = y
      BY <1>1, <2>3 DEF Counted, IsWrite
    <3> QED  BY <3>1, <3>2
  <2> QED  BY <2>2, <2>3
<1>4. Counts(f, kind, x, messages, e)
  <2>1. f \in [0 .. Len(messages) -> Nat]
    BY <1>2
  <2>2. 0 \in 0 .. Len(messages) /\ 0 < p
    BY <1>1
  <2>3. f[0] = x
    BY <2>2
  <2> HIDE DEF f
  <2> QED  BY <1>3, <2>1, <2>3 DEF Counts
<1>5. f[Len(messages)] = Inserted(kind, x)
  BY <1>1
<1> QED  BY <1>4, <1>5, AfterBy

\* Messages sent together are counted after those sent before.
LEMMA AfterConcat ==
    ASSUME NEW kind, NEW x \in Nat, NEW M, NEW first \in Seq(M), NEW second \in Seq(M), NEW e
    PROVE  After(kind, x, first \o second, e) = After(kind, After(kind, x, first, e), second, e)
<1> DEFINE a == Len(first)
           b == Len(second)
           both == first \o second
           y == After(kind, x, first, e)
<1>1. y \in Nat
  BY AfterNat
<1>2. PICK f : Counts(f, kind, x, first, e) /\ y = f[a]
  BY AfterIs
<1>3. PICK g : Counts(g, kind, y, second, e) /\ After(kind, y, second, e) = g[b]
  BY <1>1, AfterIs
<1>4. a \in Nat /\ b \in Nat /\ both \in Seq(M) /\ Len(both) = a + b
      /\ (\A n \in 1 .. a : both[n] = first[n]) /\ (\A n \in a + 1 .. a + b : both[n] = second[n - a])
  OBVIOUS
<1>5. f \in [0 .. a -> Nat] /\ f[0] = x
      /\ \A n \in 1 .. a : f[n] = Counted(kind, f[n - 1], first[n], e)
  BY <1>2 DEF Counts
<1>6. g \in [0 .. b -> Nat] /\ g[0] = y
      /\ \A n \in 1 .. b : g[n] = Counted(kind, g[n - 1], second[n], e)
  BY <1>3 DEF Counts
<1>7. f[a] = g[0]
  BY <1>2, <1>6
<1> HIDE DEF a, b, both, y
<1> DEFINE h == [n \in 0 .. a + b |-> IF n <= a THEN f[n] ELSE g[n - a]]
<1>8. h \in [0 .. a + b -> Nat] /\ h[0] = x
  <2>1. ASSUME NEW n \in 0 .. a + b
        PROVE  (n <= a => n \in 0 .. a) /\ (~(n <= a) => n - a \in 0 .. b)
    BY <1>4
  <2>2. ASSUME NEW n \in 0 .. a + b PROVE (IF n <= a THEN f[n] ELSE g[n - a]) \in Nat
    BY <1>5, <1>6, <2>1, Zenon
  <2>3. 0 \in 0 .. a + b /\ 0 <= a
    BY <1>4
  <2> QED  BY <1>5, <2>2, <2>3, Zenon
<1>9. h[a + b] = g[b]
  <2>1. CASE b = 0
    BY <1>4, <1>7, <2>1
  <2>2. CASE b # 0
    BY <1>4, <2>2
  <2> QED  BY <2>1, <2>2
<1>10. ASSUME NEW n \in 1 .. a + b PROVE h[n] = Counted(kind, h[n - 1], both[n], e)
  <2>1. CASE n <= a
    <3>1. n \in 1 .. a /\ h[n] = f[n] /\ h[n - 1] = f[n - 1]
      BY <1>4, <2>1
    <3> QED  BY <1>4, <1>5, <3>1
  <2>2. CASE n > a
    <3>1. n - a \in 1 .. b /\ n \in a + 1 .. a + b /\ h[n] = g[n - a]
      BY <1>4, <2>2
    <3>2. h[n - 1] = g[(n - a) - 1]
      <4>1. CASE n = a + 1
        BY <1>4, <1>7, <4>1
      <4>2. CASE n # a + 1
        <5>1. n - 1 > a /\ n - 1 \in 0 .. a + b /\ (n - 1) - a = (n - a) - 1
          BY <1>4, <2>2, <4>2
        <5> QED  BY <1>4, <5>1
      <4> QED  BY <4>1, <4>2
    <3>3. both[n] = second[n - a]
      BY <1>4, <3>1
    <3> QED  BY <1>6, <3>1, <3>2, <3>3
  <2> QED  BY <1>4, <2>1, <2>2
<1>11. Counts(h, kind, x, both, e)
  BY <1>4, <1>8, <1>10 DEF Counts
<1>12. After(kind, x, both, e) = g[b]
  BY <1>4, <1>9, <1>11, AfterBy
<1> QED  BY <1>3, <1>12 DEF both, y, b

\* The more there are now, the more there are in the end.
LEMMA AfterMonotone ==
    ASSUME NEW kind, NEW x \in Nat, NEW y \in Nat, x <= y, NEW M, NEW messages \in Seq(M), NEW e
    PROVE  After(kind, x, messages, e) <= After(kind, y, messages, e)
<1>1. PICK f : Counts(f, kind, x, messages, e) /\ After(kind, x, messages, e) = f[Len(messages)]
  BY AfterIs
<1>2. PICK g : Counts(g, kind, y, messages, e) /\ After(kind, y, messages, e) = g[Len(messages)]
  BY AfterIs
<1>3. Len(messages) \in Nat
  OBVIOUS
<1>4. /\ f \in [0 .. Len(messages) -> Nat] /\ f[0] = x
      /\ \A n \in 1 .. Len(messages) : f[n] = Counted(kind, f[n - 1], messages[n], e)
      /\ g \in [0 .. Len(messages) -> Nat] /\ g[0] = y
      /\ \A n \in 1 .. Len(messages) : g[n] = Counted(kind, g[n - 1], messages[n], e)
  BY <1>1, <1>2 DEF Counts
<1> DEFINE Off == {n \in 0 .. Len(messages) : ~ (f[n] <= g[n])}
<1>5. CASE Off = {}
  BY <1>1, <1>2, <1>3, <1>5
<1>6. CASE Off # {}
  <2>1. Off \subseteq Nat
    OBVIOUS
  <2>2. PICK n \in Off : \A j \in Off : n <= j
    <3> HIDE DEF Off
    <3> QED  BY <1>6, <2>1, NatMin
  <2>3. n \in 0 .. Len(messages) /\ ~ (f[n] <= g[n])
    OBVIOUS
  <2>4. n # 0
    BY <1>4, <2>3
  <2>5. n - 1 \in 0 .. Len(messages) /\ n - 1 \notin Off /\ n \in 1 .. Len(messages)
    BY <1>3, <2>2, <2>3, <2>4
  <2>6. f[n - 1] <= g[n - 1] /\ f[n - 1] \in Nat /\ g[n - 1] \in Nat
    BY <1>4, <2>5
  <2>7. \A j, k \in Nat : j <= k => Counted(kind, j, messages[n], e) <= Counted(kind, k, messages[n], e)
    BY DEF Counted, Inserted, Removed
  <2> QED  BY <1>4, <2>3, <2>5, <2>6, <2>7
<1> QED  BY <1>5, <1>6

-----------------------------------------------------------------------------
(* The parts of the index and the messages between the shards *)

NetType ==
    [index   : [Shard -> PropertyIndex \cup {NoIndex}],
     channel : [Shard -> [Shard -> Seq(Message)]]]

\* A shard sends itself nothing, and the messages about an entry go from the shard of the node to
\* the home of the value.
Routed(s, d, messages) ==
    /\ s = d => messages = <<>>
    /\ \A n \in DOMAIN messages :
          IsWrite(messages[n]) => messages[n].entry[2] = s /\ Home[messages[n].entry[1]] = d

\* The part of shard d holds entries of values that are at home there.
AtHome(x, d) == x # NoIndex => \A e \in Entry : x[e] > 0 => Home[e[1]] = d

NetOK(net) ==
    /\ net \in NetType
    /\ \A d \in Shard : AtHome(net.index[d], d)
    /\ \A s, d \in Shard : Routed(s, d, net.channel[s][d])

\* How often entry e is in the part of shard h: a part that is not there counts as an empty one.
CountIn(net, h, e) == IF net.index[h] = NoIndex THEN 0 ELSE net.index[h][e]

\* How often entry e is there once all messages are handled.
Due(kind, net, e) == After(kind, CountIn(net, Home[e[1]], e), net.channel[e[2]][Home[e[1]]], e)

\* Nothing about slot i is on its way from shard s.
Quiet(net, s, i) ==
    \A h \in Shard : \A n \in DOMAIN net.channel[s][h] :
        IsWrite(net.channel[s][h][n]) => net.channel[s][h][n].entry[3] # i

\* The messages that are not about an entry are those of the task, one to each shard it waits for.
Steered(k, s, d, messages) ==
    \A n \in DOMAIN messages : ~IsWrite(messages[n]) =>
        /\ messages[n].op = k.phase /\ s = k.at /\ d \in k.waiting
        /\ \A m \in DOMAIN messages : ~IsWrite(messages[m]) => m = n

AllSteered(k, net) == \A s, d \in Shard : Steered(k, s, d, net.channel[s][d])

\* The same shards have their part of the index.
SamePresence(net, then) == \A d \in Shard : then.index[d] = NoIndex <=> net.index[d] = NoIndex

LEMMA EntryParts ==
    ASSUME NEW e \in Entry
    PROVE  /\ e = <<e[1], e[2], e[3]>> /\ e[1] \in Value /\ e[2] \in Shard /\ e[3] \in Slot
           /\ Home[e[1]] \in Shard
BY PropertyIndexesAssumption DEF Entry

LEMMA MessageTyped ==
    ASSUME NEW m \in Message
    PROVE  /\ IsWrite(m) => m.entry \in Entry /\ m.op \in {"insert", "remove"}
           /\ ~IsWrite(m) => m.op \in {"create", "fill", "delete"}
BY DEF Message, IsWrite

LEMMA PartTyped ==
    ASSUME NEW net, NetOK(net), NEW d \in Shard
    PROVE  /\ net.index[d] # NoIndex => net.index[d] \in PropertyIndex
           /\ \A e \in Entry : CountIn(net, d, e) \in Nat
           /\ \A s \in Shard : net.channel[s][d] \in Seq(Message)
BY DEF NetOK, NetType, CountIn, PropertyIndex

LEMMA DueNat ==
    ASSUME NEW net, NetOK(net), NEW e \in Entry, NEW kind
    PROVE  Due(kind, net, e) \in Nat
<1>1. Home[e[1]] \in Shard /\ e[2] \in Shard
  BY EntryParts
<1>2. CountIn(net, Home[e[1]], e) \in Nat /\ net.channel[e[2]][Home[e[1]]] \in Seq(Message)
  BY <1>1, PartTyped
<1> QED  BY <1>2, AfterNat DEF Due

\* On its own shard a value is entered at once.
LEMMA DueAtHome ==
    ASSUME NEW net, NetOK(net), NEW e \in Entry, NEW kind, Home[e[1]] = e[2]
    PROVE  Due(kind, net, e) = CountIn(net, e[2], e)
<1>1. e[2] \in Shard
  BY EntryParts
<1>2. CountIn(net, e[2], e) \in Nat /\ net.channel[e[2]][e[2]] = <<>>
  BY <1>1, PartTyped DEF NetOK, Routed
<1> QED  BY <1>2, AfterNothing DEF Due

LEMMA QuietDue ==
    ASSUME NEW net, NetOK(net), NEW e \in Entry, NEW kind, Quiet(net, e[2], e[3])
    PROVE  Due(kind, net, e) = CountIn(net, Home[e[1]], e)
<1>1. Home[e[1]] \in Shard /\ e[2] \in Shard
  BY EntryParts
<1> DEFINE c == net.channel[e[2]][Home[e[1]]]
<1>2. CountIn(net, Home[e[1]], e) \in Nat /\ c \in Seq(Message)
  BY <1>1, PartTyped
<1>3. \A n \in DOMAIN c : IsWrite(c[n]) => c[n].entry # e
  BY <1>1, Zenon DEF Quiet
<1> QED  BY <1>2, <1>3, AfterOthers DEF Due

-----------------------------------------------------------------------------
(* Telling the home of a value *)

\* What becomes of the net when shard s tells the home of an entry of its own.
Tells1(kind, net, then, op, e) ==
    /\ NetOK(then)
    /\ SamePresence(net, then)
    /\ \A f \in Entry : f # e => Due(kind, then, f) = Due(kind, net, f)
    /\ \A f \in Entry : f # e => CountIn(then, Home[f[1]], f) = CountIn(net, Home[f[1]], f)
    /\ Due(kind, then, e) = IF op = "insert" THEN Inserted(kind, Due(kind, net, e))
                            ELSE Removed(Due(kind, net, e))
    /\ \A s \in Shard, i \in Slot : <<s, i>> # <<e[2], e[3]>> /\ Quiet(net, s, i) => Quiet(then, s, i)
    /\ \A k : AllSteered(k, net) => AllSteered(k, then)

LEMMA SendHere ==
    ASSUME NEW net, NetOK(net), NEW m \in Message, IsWrite(m), NEW s \in Shard,
           m.entry[2] = s, Home[m.entry[1]] = s, net.index[s] # NoIndex
    PROVE  Tells1(KindOf, net, Send(net, s, s, m), m.op, m.entry)
<1> DEFINE e == m.entry
           x == net.index[s]
           y == [f \in Entry |-> Counted(KindOf, x[f], m, f)]
           then == Send(net, s, s, m)
<1>1. net \in NetType /\ x \in PropertyIndex /\ e \in Entry /\ m.op \in {"insert", "remove"}
  BY PartTyped, MessageTyped DEF NetOK
<1>2. then = [net EXCEPT !.index = [net.index EXCEPT ![s] = y]]
  BY <1>1 DEF Send, Applied, IsWrite, NetType
<1> HIDE DEF then
<1>3. y \in PropertyIndex
  BY <1>1, CountedNat DEF PropertyIndex
<1>4. \A f \in Entry : y[f] = Counted(KindOf, x[f], m, f)
  OBVIOUS
<1> HIDE DEF y
<1>5. then \in NetType /\ then.channel = net.channel
      /\ then.index[s] = y /\ \A d \in Shard : d # s => then.index[d] = net.index[d]
  BY <1>1, <1>2, <1>3 DEF NetType
<1>6. \A f \in Entry : f # e => y[f] = x[f]
  BY <1>4 DEF Counted
<1>7. y[e] = IF m.op = "insert" THEN Inserted(KindOf, x[e]) ELSE Removed(x[e])
  BY <1>1, <1>4 DEF Counted
<1>8. y # NoIndex
  BY <1>3, NoIndexAssumption
<1>9. NetOK(then)
  <2>1. AtHome(y, s)
    BY <1>6 DEF AtHome, NetOK
  <2> QED  BY <1>5, <2>1 DEF NetOK
<1>10. SamePresence(net, then)
  BY <1>5, <1>8 DEF SamePresence
<1>11. ASSUME NEW f \in Entry, f # e
       PROVE  CountIn(then, Home[f[1]], f) = CountIn(net, Home[f[1]], f)
  BY <1>5, <1>6, <1>8, <1>11, EntryParts DEF CountIn
<1>12. ASSUME NEW f \in Entry, f # e
       PROVE  Due(KindOf, then, f) = Due(KindOf, net, f)
  BY <1>5, <1>11, <1>12 DEF Due
<1>13. Due(KindOf, then, e) = y[e] /\ Due(KindOf, net, e) = x[e]
  BY <1>1, <1>5, <1>8, <1>9, DueAtHome DEF CountIn
<1>14. (\A t \in Shard, i \in Slot : Quiet(net, t, i) => Quiet(then, t, i))
       /\ \A k : AllSteered(k, net) => AllSteered(k, then)
  BY <1>5 DEF Quiet, AllSteered
<1> QED  BY <1>7, <1>9, <1>10, <1>11, <1>12, <1>13, <1>14 DEF Tells1, then

\* What a queue keeps when a message about an entry is put at its end.
LEMMA AppendKeeps ==
    ASSUME NEW messages \in Seq(Message), NEW m \in Message, IsWrite(m)
    PROVE  /\ Append(messages, m) \in Seq(Message)
           /\ \A k, s, d : Steered(k, s, d, messages) => Steered(k, s, d, Append(messages, m))
           /\ \A n \in DOMAIN Append(messages, m) :
                 Append(messages, m)[n] = m \/ \E j \in DOMAIN messages : Append(messages, m)[n] = messages[j]
<1> DEFINE N == Len(messages)
           longer == Append(messages, m)
<1>1. N \in Nat /\ longer \in Seq(Message) /\ DOMAIN longer = 1 .. N + 1 /\ DOMAIN messages = 1 .. N
      /\ longer[N + 1] = m /\ \A n \in 1 .. N : longer[n] = messages[n]
  OBVIOUS
<1> HIDE DEF N, longer
<1>2. \A n \in 1 .. N + 1 : ~IsWrite(longer[n]) => n \in 1 .. N
  BY <1>1
<1>3. ASSUME NEW k, NEW s, NEW d, Steered(k, s, d, messages) PROVE Steered(k, s, d, longer)
  BY <1>1, <1>2, <1>3 DEF Steered
<1> QED  BY <1>1, <1>3 DEF longer

LEMMA SendAway ==
    ASSUME NEW net, NetOK(net), NEW m \in Message, IsWrite(m), NEW s \in Shard, NEW h \in Shard,
           m.entry[2] = s, Home[m.entry[1]] = h, h # s, NEW kind
    PROVE  Tells1(kind, net, Send(net, s, h, m), m.op, m.entry)
<1> DEFINE e == m.entry
           c == net.channel[s][h]
           then == Send(net, s, h, m)
<1>1. net \in NetType /\ c \in Seq(Message) /\ e \in Entry /\ m.op \in {"insert", "remove"}
  BY PartTyped, MessageTyped DEF NetOK
<1>2. then = [net EXCEPT !.channel = [net.channel EXCEPT ![s] = [net.channel[s] EXCEPT ![h] = Append(c, m)]]]
  BY <1>1 DEF Send, NetType
<1> DEFINE d == Append(c, m)
<1>3. d \in Seq(Message)
  BY <1>1
<1> HIDE DEF then, d
<1>4. then = [net EXCEPT !.channel = [net.channel EXCEPT ![s] = [net.channel[s] EXCEPT ![h] = d]]]
  BY <1>2 DEF d
<1>5. then \in NetType /\ then.index = net.index /\ then.channel[s][h] = d
      /\ \A t, u \in Shard : <<t, u>> # <<s, h>> => then.channel[t][u] = net.channel[t][u]
  BY <1>1, <1>3, <1>4 DEF NetType
<1>6. /\ \A k, t, u : Steered(k, t, u, c) => Steered(k, t, u, d)
      /\ \A n \in DOMAIN d : d[n] = m \/ \E j \in DOMAIN c : d[n] = c[j]
  BY <1>1, AppendKeeps DEF d
<1>7. Routed(s, h, d)
  BY <1>6 DEF Routed, NetOK
<1>8. NetOK(then)
  BY <1>5, <1>7 DEF NetOK
<1>9. SamePresence(net, then) /\ \A g, f : CountIn(then, g, f) = CountIn(net, g, f)
  BY <1>5 DEF SamePresence, CountIn
<1>10. ASSUME NEW f \in Entry
       PROVE  Due(kind, then, f) = Counted(kind, Due(kind, net, f), m, f)
  <2> DEFINE x == CountIn(net, Home[f[1]], f)
  <2>1. x \in Nat /\ Home[f[1]] \in Shard /\ f[2] \in Shard
    BY EntryParts, PartTyped
  <2>2. CASE f[2] = s /\ Home[f[1]] = h
    <3>1. After(kind, x, d, f) = Counted(kind, After(kind, x, c, f), m, f)
      BY <1>1, <2>1, AfterAppend DEF d
    <3> QED  BY <1>5, <1>9, <2>2, <3>1 DEF Due
  <2>3. CASE ~(f[2] = s /\ Home[f[1]] = h)
    <3>1. f # e
      BY <2>3
    <3>2. then.channel[f[2]][Home[f[1]]] = net.channel[f[2]][Home[f[1]]]
      BY <1>5, <2>1, <2>3
    <3> QED  BY <1>9, <3>1, <3>2 DEF Due, Counted
  <2> QED  BY <2>2, <2>3
<1>11. ASSUME NEW t \in Shard, NEW i \in Slot, <<t, i>> # <<e[2], e[3]>>, Quiet(net, t, i)
       PROVE  Quiet(then, t, i)
  <2>1. SUFFICES ASSUME NEW u \in Shard, NEW n \in DOMAIN then.channel[t][u], IsWrite(then.channel[t][u][n])
                 PROVE  then.channel[t][u][n].entry[3] # i
    BY DEF Quiet
  <2>2. CASE t = s /\ u = h
    BY <1>5, <1>6, <1>11, <2>1, <2>2 DEF Quiet
  <2>3. CASE ~(t = s /\ u = h)
    BY <1>5, <1>11, <2>1, <2>3 DEF Quiet
  <2> QED  BY <2>2, <2>3
<1>12. ASSUME NEW k, AllSteered(k, net) PROVE AllSteered(k, then)
  BY <1>5, <1>6, <1>12 DEF AllSteered
<1>13. \A f \in Entry : f # e => Due(kind, then, f) = Due(kind, net, f)
  BY <1>10 DEF Counted
<1>14. Due(kind, then, e) = IF m.op = "insert" THEN Inserted(kind, Due(kind, net, e))
                            ELSE Removed(Due(kind, net, e))
  BY <1>1, <1>10 DEF Counted
<1> QED  BY <1>8, <1>9, <1>11, <1>12, <1>13, <1>14 DEF Tells1, then

\* node_index_add_helper and node_index_remove_helper, wherever the value is at home.
LEMMA TellDoes ==
    ASSUME NEW net, NetOK(net), NEW op \in {"insert", "remove"}, NEW s \in Shard, NEW i \in Slot,
           NEW v \in Value, net.index[s] # NoIndex
    PROVE  Tells1(KindOf, net, Tell(net, op, s, i, v), op, <<v, s, i>>)
<1> DEFINE m == [op |-> op, entry |-> <<v, s, i>>, fill |-> FALSE]
<1>1. m \in Message /\ IsWrite(m) /\ m.op = op /\ m.entry = <<v, s, i>>
      /\ m.entry[2] = s /\ m.entry[1] = v
  BY DEF Message, Entry, IsWrite
<1>2. Home[v] \in Shard
  BY PropertyIndexesAssumption
<1>3. Tell(net, op, s, i, v) = Send(net, s, Home[v], m)
  BY PropertyColumnsAssumption DEF Tell
<1> HIDE DEF m
<1>4. CASE Home[v] = s
  BY <1>1, <1>3, <1>4, SendHere
<1>5. CASE Home[v] # s
  <2>1. Tells1(KindOf, net, Send(net, s, Home[v], m), m.op, m.entry)
    BY <1>1, <1>2, <1>5, SendAway
  <2> QED  BY <1>1, <1>3, <2>1
<1> QED  BY <1>4, <1>5

-----------------------------------------------------------------------------
(* Handling a message *)

LEMMA TailKeeps ==
    ASSUME NEW messages \in Seq(Message), messages # <<>>
    PROVE  /\ Head(messages) \in Message /\ Tail(messages) \in Seq(Message)
           /\ Head(messages) = messages[1] /\ 1 \in DOMAIN messages
           /\ \A n \in DOMAIN Tail(messages) :
                 n + 1 \in DOMAIN messages /\ n + 1 # 1 /\ Tail(messages)[n] = messages[n + 1]
           /\ \A k, s, d : Steered(k, s, d, messages) => Steered(k, s, d, Tail(messages))
<1> DEFINE N == Len(messages)
           rest == Tail(messages)
<1>1. N \in Nat /\ N >= 1 /\ rest \in Seq(Message) /\ DOMAIN rest = 1 .. N - 1 /\ DOMAIN messages = 1 .. N
      /\ Head(messages) = messages[1] /\ messages[1] \in Message
      /\ \A n \in 1 .. N - 1 : rest[n] = messages[n + 1]
  OBVIOUS
<1> HIDE DEF N, rest
<1>2. \A n \in 1 .. N - 1 : n + 1 \in 1 .. N /\ n + 1 # 1
  BY <1>1
<1>3. ASSUME NEW k, NEW s, NEW d, Steered(k, s, d, messages) PROVE Steered(k, s, d, rest)
  <2>1. SUFFICES ASSUME NEW n \in 1 .. N - 1, ~IsWrite(rest[n])
                 PROVE  /\ rest[n].op = k.phase /\ s = k.at /\ d \in k.waiting
                        /\ \A m \in 1 .. N - 1 : ~IsWrite(rest[m]) => m = n
    BY <1>1 DEF Steered
  <2>2. rest[n] = messages[n + 1] /\ n + 1 \in 1 .. N
    BY <1>1, <1>2
  <2>3. /\ messages[n + 1].op = k.phase /\ s = k.at /\ d \in k.waiting
        /\ \A m \in 1 .. N : ~IsWrite(messages[m]) => m = n + 1
    BY <1>1, <1>3, <2>1, <2>2 DEF Steered
  <2>4. ASSUME NEW m \in 1 .. N - 1, ~IsWrite(rest[m]) PROVE m = n
    <3>1. m + 1 \in 1 .. N /\ ~IsWrite(messages[m + 1])
      BY <1>1, <1>2, <2>4
    <3>2. m + 1 = n + 1
      BY <2>3, <3>1
    <3> QED  BY <1>1, <3>2
  <2> QED  BY <2>2, <2>3, <2>4
<1> QED  BY <1>1, <1>2, <1>3 DEF rest

\* A queue without its first message is still routed, and a quiet one is still quiet.
\* The first message from s to d leaves its queue.
Takes(net, then, s, d) ==
    /\ net.channel[s][d] # <<>>
    /\ then \in NetType /\ then.channel = [net.channel EXCEPT ![s][d] = Tail(@)]

LEMMA RestDoes ==
    ASSUME NEW net, NetOK(net), NEW s \in Shard, NEW d \in Shard, NEW then, Takes(net, then, s, d)
    PROVE  /\ then.channel[s][d] = Tail(net.channel[s][d])
           /\ \A t, u \in Shard : <<t, u>> # <<s, d>> => then.channel[t][u] = net.channel[t][u]
           /\ \A t, u \in Shard : Routed(t, u, then.channel[t][u])
           /\ \A t \in Shard, i \in Slot : Quiet(net, t, i) => Quiet(then, t, i)
           /\ \A k : AllSteered(k, net) => AllSteered(k, then)
<1> DEFINE c == net.channel[s][d]
           r == Tail(c)
<1>0. c # <<>> /\ then \in NetType /\ then.channel = [net.channel EXCEPT ![s][d] = Tail(@)]
  BY DEF Takes
<1>1. c \in Seq(Message) /\ net.channel \in [Shard -> [Shard -> Seq(Message)]]
  BY DEF NetOK, NetType
<1>2. /\ r \in Seq(Message)
      /\ \A n \in DOMAIN r : n + 1 \in DOMAIN c /\ r[n] = c[n + 1]
      /\ \A k, t, u : Steered(k, t, u, c) => Steered(k, t, u, r)
  BY <1>0, <1>1, TailKeeps
<1>3. then.channel = [net.channel EXCEPT ![s] = [net.channel[s] EXCEPT ![d] = r]]
  BY <1>0, <1>1
<1> HIDE DEF r
<1>4. /\ then.channel[s][d] = r
      /\ \A t, u \in Shard : <<t, u>> # <<s, d>> => then.channel[t][u] = net.channel[t][u]
  <2> DEFINE row == [net.channel[s] EXCEPT ![d] = r]
  <2>1. net.channel[s] \in [Shard -> Seq(Message)]
    BY <1>1
  <2>2. row \in [Shard -> Seq(Message)] /\ row[d] = r /\ \A u \in Shard : u # d => row[u] = net.channel[s][u]
    BY <1>2, <2>1
  <2> HIDE DEF row
  <2>3. then.channel = [net.channel EXCEPT ![s] = row]
    BY <1>3 DEF row
  <2>4. then.channel \in [Shard -> [Shard -> Seq(Message)]] /\ then.channel[s] = row
        /\ \A t \in Shard : t # s => then.channel[t] = net.channel[t]
    BY <1>1, <2>2, <2>3
  <2> QED  BY <2>2, <2>4
<1>5. Routed(s, d, r)
  <2>1. Routed(s, d, c) /\ s # d
    BY <1>0 DEF NetOK, Routed
  <2> QED  BY <1>2, <2>1 DEF Routed
<1>6. \A t, u \in Shard : Routed(t, u, then.channel[t][u])
  BY <1>4, <1>5 DEF NetOK
<1>7. ASSUME NEW t \in Shard, NEW i \in Slot, Quiet(net, t, i) PROVE Quiet(then, t, i)
  <2>1. SUFFICES ASSUME NEW u \in Shard, NEW n \in DOMAIN then.channel[t][u], IsWrite(then.channel[t][u][n])
                 PROVE  then.channel[t][u][n].entry[3] # i
    BY DEF Quiet
  <2>2. CASE t = s /\ u = d
    BY <1>2, <1>4, <1>7, <2>1, <2>2 DEF Quiet
  <2>3. CASE ~(t = s /\ u = d)
    BY <1>4, <1>7, <2>1, <2>3 DEF Quiet
  <2> QED  BY <2>2, <2>3
<1>8. ASSUME NEW k, AllSteered(k, net) PROVE AllSteered(k, then)
  BY <1>2, <1>4, <1>8 DEF AllSteered
<1> QED  BY <1>4, <1>6, <1>7, <1>8 DEF r

\* The part of shard d takes in the insertion or removal at the head of the queue.
Enters(net, then, s, d) ==
    /\ IsWrite(Head(net.channel[s][d]))
    /\ then.index = [net.index EXCEPT ![d] = Applied(@, Head(net.channel[s][d]))]

\* An insertion or a removal handled: what is due stays what it was where the part of the index is
\* there, and does not grow where it is not.
LEMMA ApplyDoes ==
    ASSUME NEW net, NetOK(net), NEW s \in Shard, NEW d \in Shard,
           NEW then, Takes(net, then, s, d), Enters(net, then, s, d)
    PROVE  /\ NetOK(then) /\ SamePresence(net, then)
           /\ \A e \in Entry : net.index[Home[e[1]]] # NoIndex => Due(KindOf, then, e) = Due(KindOf, net, e)
           /\ \A e \in Entry : Due(KindOf, then, e) <= Due(KindOf, net, e)
           /\ \A e \in Entry : Quiet(net, e[2], e[3]) =>
                 CountIn(then, Home[e[1]], e) = CountIn(net, Home[e[1]], e)
<1>0. /\ then.channel[s][d] = Tail(net.channel[s][d])
      /\ \A t, u \in Shard : <<t, u>> # <<s, d>> => then.channel[t][u] = net.channel[t][u]
      /\ \A t, u \in Shard : Routed(t, u, then.channel[t][u])
  BY RestDoes
<1>14. /\ net.channel[s][d] # <<>> /\ then \in NetType
       /\ IsWrite(Head(net.channel[s][d]))
       /\ then.index = [net.index EXCEPT ![d] = Applied(@, Head(net.channel[s][d]))]
  BY DEF Takes, Enters
<1> DEFINE c == net.channel[s][d]
           m == Head(c)
           x == net.index[d]
           y == Applied(x, m)
<1>1. c \in Seq(Message) /\ m \in Message /\ m = c[1] /\ 1 \in DOMAIN c /\ IsWrite(m) /\ m.entry \in Entry
  BY <1>14, PartTyped, TailKeeps, MessageTyped
<1>2. m.entry[2] = s /\ Home[m.entry[1]] = d /\ s # d
  <2>1. Routed(s, d, c)
    BY DEF NetOK
  <2> QED  BY <1>1, <2>1 DEF Routed
<1>3. (x = NoIndex => y = x) /\ (x # NoIndex => x \in PropertyIndex /\ y = [e \in Entry |-> Counted(KindOf, x[e], m, e)])
  BY PartTyped DEF Applied
<1>4. x # NoIndex => y \in PropertyIndex /\ y # NoIndex
  BY <1>3, CountedNat, NoIndexAssumption DEF PropertyIndex
<1> HIDE DEF y
<1>5. then.index[d] = y /\ \A h \in Shard : h # d => then.index[h] = net.index[h]
  BY <1>14 DEF NetOK, NetType, y
<1>6. /\ then.channel[s][d] = Tail(c)
      /\ \A t, u \in Shard : <<t, u>> # <<s, d>> => then.channel[t][u] = net.channel[t][u]
      /\ \A t, u \in Shard : Routed(t, u, then.channel[t][u])
  BY <1>0
<1> HIDE DEF m, c, x
<1>7. \A e \in Entry : x # NoIndex /\ e # m.entry => y[e] = x[e]
  BY <1>3 DEF Counted
<1>8. NetOK(then)
  <2>1. AtHome(y, d)
    <3>1. AtHome(x, d)
      BY DEF NetOK, x
    <3> QED  BY <1>2, <1>3, <1>7, <3>1 DEF AtHome
  <2> QED  BY <1>14, <1>5, <1>6, <2>1 DEF NetOK
<1>9. SamePresence(net, then)
  BY <1>3, <1>4, <1>5 DEF SamePresence, x
<1>10. ASSUME NEW e \in Entry
       PROVE  /\ net.index[Home[e[1]]] # NoIndex => Due(KindOf, then, e) = Due(KindOf, net, e)
              /\ Due(KindOf, then, e) <= Due(KindOf, net, e)
  <2>1. Home[e[1]] \in Shard /\ e[2] \in Shard
    BY EntryParts
  <2>2. Due(KindOf, net, e) \in Nat /\ Due(KindOf, then, e) \in Nat
    BY <1>8, DueNat
  <2>3. CASE e[2] = s /\ Home[e[1]] = d
    <3> DEFINE n == CountIn(net, d, e)
    <3>1. n \in Nat /\ Counted(KindOf, n, m, e) \in Nat
      BY PartTyped, CountedNat
    <3>2. c # <<>> /\ Tail(c) \in Seq(Message)
      BY <1>1, <1>14, TailKeeps DEF c
    <3>3. Due(KindOf, net, e) = After(KindOf, Counted(KindOf, n, m, e), Tail(c), e)
      <4>1. After(KindOf, n, c, e) = After(KindOf, Counted(KindOf, n, Head(c), e), Tail(c), e)
        BY <1>1, <3>1, <3>2, AfterTail
      <4> QED  BY <2>3, <4>1 DEF Due, c, m
    <3>4. Due(KindOf, then, e) = After(KindOf, CountIn(then, d, e), Tail(c), e)
      BY <1>6, <2>3 DEF Due
    <3>5. CASE x # NoIndex
      <4>1. CountIn(then, d, e) = Counted(KindOf, n, m, e)
        BY <1>3, <1>4, <1>5, <3>5 DEF CountIn, x
      <4> QED  BY <2>2, <3>3, <3>4, <4>1
    <3>6. CASE x = NoIndex
      <4>1. CountIn(then, d, e) = 0 /\ net.index[Home[e[1]]] = NoIndex
        BY <1>3, <1>5, <2>3, <3>6 DEF CountIn, x
      <4>2. After(KindOf, 0, Tail(c), e) <= After(KindOf, Counted(KindOf, n, m, e), Tail(c), e)
        <5>1. 0 \in Nat /\ 0 <= Counted(KindOf, n, m, e)
          BY <3>1
        <5> QED  BY <3>1, <3>2, <5>1, AfterMonotone
      <4> QED  BY <3>3, <3>4, <4>1, <4>2
    <3> QED  BY <3>5, <3>6
  <2>4. CASE ~(e[2] = s /\ Home[e[1]] = d)
    <3>1. e # m.entry
      BY <1>2, <2>4
    <3>2. CountIn(then, Home[e[1]], e) = CountIn(net, Home[e[1]], e)
      BY <1>3, <1>4, <1>5, <1>7, <2>1, <3>1 DEF CountIn, x
    <3>3. then.channel[e[2]][Home[e[1]]] = net.channel[e[2]][Home[e[1]]]
      BY <1>6, <2>1, <2>4
    <3>4. Due(KindOf, then, e) = Due(KindOf, net, e)
      BY <3>2, <3>3 DEF Due
    <3> QED  BY <2>2, <3>4
  <2> QED  BY <2>3, <2>4
<1>11. ASSUME NEW e \in Entry, Quiet(net, e[2], e[3])
       PROVE  CountIn(then, Home[e[1]], e) = CountIn(net, Home[e[1]], e)
  <2>1. Home[e[1]] \in Shard /\ e[2] \in Shard
    BY EntryParts
  <2>2. e # m.entry
    <3>1. SUFFICES ASSUME e = m.entry PROVE FALSE
      OBVIOUS
    <3>2. e[2] = s
      BY <1>2, <3>1
    <3>3. c[1].entry[3] # e[3]
      BY <1>1, <1>11, <3>2 DEF Quiet, c
    <3> QED  BY <1>1, <3>1, <3>3
  <2> QED  BY <1>3, <1>4, <1>5, <1>7, <2>1, <2>2 DEF CountIn, x
<1> QED  BY <1>8, <1>9, <1>10, <1>11

-----------------------------------------------------------------------------
(* Orders: the messages of the task *)

OnlyWrites(net) ==
    \A s, d \in Shard : \A n \in DOMAIN net.channel[s][d] : IsWrite(net.channel[s][d][n])

\* A task that waits for nobody, or none at all, has no message on its way.
LEMMA NoOrders ==
    ASSUME NEW net, NetOK(net), NEW k, AllSteered(k, net),
           k.waiting = {} \/ k.phase \notin {"create", "fill", "delete"}
    PROVE  OnlyWrites(net)
<1>1. SUFFICES ASSUME NEW s \in Shard, NEW d \in Shard, NEW n \in DOMAIN net.channel[s][d],
                      ~IsWrite(net.channel[s][d][n])
               PROVE  FALSE
  BY DEF OnlyWrites
<1>2. net.channel[s][d] \in Seq(Message)
  BY PartTyped
<1>3. net.channel[s][d][n] \in Message
  BY <1>2
<1>4. net.channel[s][d][n].op \in {"create", "fill", "delete"}
  BY <1>1, <1>3, MessageTyped
<1>5. net.channel[s][d][n].op = k.phase /\ d \in k.waiting
  BY <1>1 DEF AllSteered, Steered
<1> QED  BY <1>4, <1>5

\* Nothing is due or on its way that was not.
SameDues(kind, net, then) ==
    /\ \A e \in Entry : Due(kind, then, e) = Due(kind, net, e)
    /\ \A e \in Entry : CountIn(then, Home[e[1]], e) = CountIn(net, Home[e[1]], e)
    /\ \A s \in Shard, i \in Slot : Quiet(net, s, i) => Quiet(then, s, i)

LEMMA AskedDoes ==
    ASSUME NEW net, NetOK(net), OnlyWrites(net), net.channel = channel, NEW c \in Shard,
           NEW op \in {"create", "fill", "delete"}, NEW k,
           k.phase = op, k.at = c, k.waiting = Shard \ {c}, NEW kind,
           NEW then, then \in NetType, then.index = net.index, then.channel = Asked(c, op)
    PROVE  NetOK(then) /\ SameDues(kind, net, then) /\ AllSteered(k, then)
<1> DEFINE m == [op |-> op]
<1>1. m \in Message /\ ~IsWrite(m) /\ m.op = op
  BY DEF Message, IsWrite
<1>2. /\ \A d \in Shard \ {c} : then.channel[c][d] = Append(net.channel[c][d], m)
      /\ \A t, u \in Shard : t # c \/ u = c => then.channel[t][u] = net.channel[t][u]
  BY DEF Asked, NetOK, NetType
<1> HIDE DEF m
<1>3. ASSUME NEW d \in Shard \ {c}
      PROVE  LET q == net.channel[c][d]
                 longer == Append(q, m)
             IN  /\ q \in Seq(Message) /\ DOMAIN longer = DOMAIN q \cup {Len(q) + 1} /\ longer[Len(q) + 1] = m
                 /\ \A n \in DOMAIN q : longer[n] = q[n] /\ IsWrite(longer[n])
  <2> DEFINE q == net.channel[c][d]
  <2>1. q \in Seq(Message) /\ \A n \in DOMAIN q : IsWrite(q[n])
    BY PartTyped DEF OnlyWrites
  <2> HIDE DEF q
  <2>2. /\ DOMAIN Append(q, m) = DOMAIN q \cup {Len(q) + 1} /\ Append(q, m)[Len(q) + 1] = m
        /\ \A n \in DOMAIN q : Append(q, m)[n] = q[n]
    BY <2>1
  <2> QED  BY <2>1, <2>2 DEF q
<1>4. NetOK(then)
  <2>1. ASSUME NEW t \in Shard, NEW u \in Shard PROVE Routed(t, u, then.channel[t][u])
    <3>1. Routed(t, u, net.channel[t][u])
      BY DEF NetOK
    <3>2. CASE t = c /\ u # c
      <4> DEFINE q == net.channel[c][u]
                 longer == Append(q, m)
      <4>1. then.channel[t][u] = longer
        BY <1>2, <3>2
      <4>2. /\ DOMAIN longer = DOMAIN q \cup {Len(q) + 1} /\ longer[Len(q) + 1] = m
            /\ \A n \in DOMAIN q : longer[n] = q[n]
        BY <1>3, <3>2
      <4>3. \A n \in DOMAIN q : IsWrite(q[n]) => q[n].entry[2] = t /\ Home[q[n].entry[1]] = u
        BY <3>1, <3>2 DEF Routed
      <4> HIDE DEF longer, q
      <4>4. \A n \in DOMAIN longer : IsWrite(longer[n]) =>
                longer[n].entry[2] = t /\ Home[longer[n].entry[1]] = u
        BY <1>1, <4>2, <4>3
      <4> QED  BY <3>2, <4>1, <4>4 DEF Routed
    <3>3. CASE ~(t = c /\ u # c)
      BY <1>2, <3>1, <3>3
    <3> QED  BY <3>2, <3>3
  <2> QED  BY <2>1 DEF NetOK
<1>5. \A h, e : CountIn(then, h, e) = CountIn(net, h, e)
  BY DEF CountIn
<1>6. ASSUME NEW e \in Entry PROVE Due(kind, then, e) = Due(kind, net, e)
  <2> DEFINE h == Home[e[1]]
             x == CountIn(net, h, e)
  <2>1. h \in Shard /\ e[2] \in Shard
    BY EntryParts
  <2>2. x \in Nat
    BY <2>1, PartTyped
  <2>3. CASE e[2] = c /\ h # c
    <3>1. After(kind, x, Append(net.channel[c][h], m), e) = Counted(kind, After(kind, x, net.channel[c][h], e), m, e)
      BY <1>1, <1>3, <2>1, <2>2, <2>3, AfterAppend
    <3>2. then.channel[c][h] = Append(net.channel[c][h], m)
      BY <1>2, <2>1, <2>3
    <3> QED  BY <1>1, <1>5, <2>3, <3>1, <3>2 DEF Due, Counted, IsWrite
  <2>4. CASE ~(e[2] = c /\ h # c)
    <3>1. then.channel[e[2]][h] = net.channel[e[2]][h]
      BY <1>2, <2>1, <2>4
    <3> QED  BY <1>5, <3>1 DEF Due
  <2> QED  BY <2>3, <2>4
<1>7. ASSUME NEW s \in Shard, NEW i \in Slot, Quiet(net, s, i) PROVE Quiet(then, s, i)
  <2>1. SUFFICES ASSUME NEW u \in Shard, NEW n \in DOMAIN then.channel[s][u], IsWrite(then.channel[s][u][n])
                 PROVE  then.channel[s][u][n].entry[3] # i
    BY DEF Quiet
  <2>2. CASE s = c /\ u # c
    <3> DEFINE q == net.channel[c][u]
               longer == Append(q, m)
    <3>1. then.channel[s][u] = longer
      BY <1>2, <2>2
    <3>2. /\ DOMAIN longer = DOMAIN q \cup {Len(q) + 1} /\ longer[Len(q) + 1] = m
          /\ \A j \in DOMAIN q : longer[j] = q[j]
      BY <1>3, <2>2
    <3>3. \A j \in DOMAIN q : IsWrite(q[j]) => q[j].entry[3] # i
      BY <1>7, <2>2 DEF Quiet
    <3> HIDE DEF q, longer
    <3>4. n \in DOMAIN q /\ longer[n] = q[n]
      BY <1>1, <2>1, <3>1, <3>2
    <3> QED  BY <2>1, <3>1, <3>3, <3>4
  <2>3. CASE ~(s = c /\ u # c)
    BY <1>2, <1>7, <2>1, <2>3 DEF Quiet
  <2> QED  BY <2>2, <2>3
<1>8. ASSUME NEW t \in Shard, NEW u \in Shard PROVE Steered(k, t, u, then.channel[t][u])
  <2>1. CASE t = c /\ u # c
    <3> DEFINE q == net.channel[c][u]
               longer == Append(q, m)
    <3>1. then.channel[t][u] = longer
      BY <1>2, <2>1
    <3>2. /\ DOMAIN longer = DOMAIN q \cup {Len(q) + 1} /\ longer[Len(q) + 1] = m
          /\ \A j \in DOMAIN q : IsWrite(longer[j])
      BY <1>3, <2>1
    <3> HIDE DEF q, longer
    <3>3. \A j \in DOMAIN longer : ~IsWrite(longer[j]) => j = Len(q) + 1 /\ longer[j] = m
      BY <3>2
    <3>4. Steered(k, t, u, longer)
      BY <1>1, <2>1, <3>3 DEF Steered
    <3> QED  BY <3>1, <3>4
  <2>2. CASE ~(t = c /\ u # c)
    BY <1>2, <2>2 DEF Steered, OnlyWrites
  <2> QED  BY <2>1, <2>2
<1> QED  BY <1>4, <1>5, <1>6, <1>7, <1>8 DEF SameDues, AllSteered

\* An order handled is the only one of its shard.
LEMMA ObeyDoes ==
    ASSUME NEW net, NetOK(net), NEW s \in Shard, NEW d \in Shard,
           NEW then, Takes(net, then, s, d), ~IsWrite(Head(net.channel[s][d])), then.index = net.index,
           NEW k, AllSteered(k, net), NEW kind
    PROVE  /\ NetOK(then) /\ SameDues(kind, net, then)
           /\ Head(net.channel[s][d]).op = k.phase /\ s = k.at /\ d \in k.waiting
           /\ \A l : l.phase = k.phase /\ l.at = k.at /\ l.waiting = k.waiting \ {d} => AllSteered(l, then)
<1> DEFINE c == net.channel[s][d]
           m == Head(c)
<1>1. /\ then.channel[s][d] = Tail(c)
      /\ \A t, u \in Shard : <<t, u>> # <<s, d>> => then.channel[t][u] = net.channel[t][u]
      /\ \A t, u \in Shard : Routed(t, u, then.channel[t][u])
      /\ \A t \in Shard, i \in Slot : Quiet(net, t, i) => Quiet(then, t, i)
  BY RestDoes
<1>14. net.channel[s][d] # <<>> /\ then \in NetType
  BY DEF Takes
<1>2. c \in Seq(Message)
  BY PartTyped
<1>3. /\ m \in Message /\ m = c[1] /\ 1 \in DOMAIN c /\ ~IsWrite(m) /\ Tail(c) \in Seq(Message)
      /\ \A n \in DOMAIN Tail(c) : n + 1 \in DOMAIN c /\ n + 1 # 1 /\ Tail(c)[n] = c[n + 1]
  BY <1>2, <1>14, TailKeeps
<1>4. NetOK(then)
  BY <1>1, <1>14 DEF NetOK
<1>5. \A h, e : CountIn(then, h, e) = CountIn(net, h, e)
  BY DEF CountIn
<1>6. Steered(k, s, d, c)
  BY DEF AllSteered
<1> HIDE DEF m, c
<1>7. m.op = k.phase /\ s = k.at /\ d \in k.waiting /\ \A n \in DOMAIN c : ~IsWrite(c[n]) => n = 1
  BY <1>3, <1>6 DEF Steered
<1>8. \A n \in DOMAIN Tail(c) : IsWrite(Tail(c)[n])
  BY <1>3, <1>7
<1>9. ASSUME NEW e \in Entry PROVE Due(kind, then, e) = Due(kind, net, e)
  <2> DEFINE h == Home[e[1]]
             x == CountIn(net, h, e)
  <2>1. h \in Shard /\ e[2] \in Shard
    BY EntryParts
  <2>2. x \in Nat
    BY <2>1, PartTyped
  <2>3. CASE e[2] = s /\ h = d
    <3>1. c # <<>>
      BY <1>14 DEF c
    <3>2. After(kind, x, c, e) = After(kind, Counted(kind, x, Head(c), e), Tail(c), e)
      BY <1>2, <2>2, <3>1, AfterTail DEF c
    <3>3. Counted(kind, x, m, e) = x
      BY <1>3 DEF Counted, IsWrite
    <3> QED  BY <1>1, <1>5, <2>3, <3>2, <3>3 DEF Due, m, c
  <2>4. CASE ~(e[2] = s /\ h = d)
    <3>1. then.channel[e[2]][h] = net.channel[e[2]][h]
      BY <1>1, <2>1, <2>4
    <3> QED  BY <1>5, <3>1 DEF Due
  <2> QED  BY <2>3, <2>4
<1>10. ASSUME NEW l, l.phase = k.phase, l.at = k.at, l.waiting = k.waiting \ {d}
       PROVE  AllSteered(l, then)
  <2>1. ASSUME NEW t \in Shard, NEW u \in Shard PROVE Steered(l, t, u, then.channel[t][u])
    <3>1. CASE t = s /\ u = d
      BY <1>1, <1>8, <3>1 DEF Steered
    <3>2. CASE ~(t = s /\ u = d)
      <4>1. Steered(k, t, u, net.channel[t][u])
        BY DEF AllSteered
      <4>2. then.channel[t][u] = net.channel[t][u]
        BY <1>1, <3>2
      <4> QED  BY <1>7, <1>10, <3>2, <4>1, <4>2 DEF Steered
    <3> QED  BY <3>1, <3>2
  <2> QED  BY <2>1 DEF AllSteered
<1> QED  BY <1>1, <1>4, <1>5, <1>7, <1>9, <1>10 DEF SameDues, m, c

\* A part created is empty, which is what a part that is not there counts as.
LEMMA CreatedDoes ==
    ASSUME NEW net, NetOK(net), NEW d \in Shard, NEW kind,
           NEW then, then \in NetType, then.index = Created(net.index, d), then.channel = net.channel
    PROVE  /\ NetOK(then) /\ SameDues(kind, net, then)
           /\ then.index[d] # NoIndex /\ \A h \in Shard \ {d} : then.index[h] = net.index[h]
           /\ \A k : AllSteered(k, net) => AllSteered(k, then)
<1>1. EmptyIndex # NoIndex /\ \A e \in Entry : EmptyIndex[e] = 0
  BY NoIndexAssumption DEF EmptyIndex, PropertyIndex
<1> HIDE DEF EmptyIndex
<1>2. /\ net.index[d] = NoIndex => then.index[d] = EmptyIndex
      /\ net.index[d] # NoIndex => then.index[d] = net.index[d]
      /\ \A h \in Shard \ {d} : then.index[h] = net.index[h]
  BY DEF Created, NetOK, NetType
<1>3. NetOK(then)
  BY <1>1, <1>2 DEF NetOK, AtHome
<1>4. \A e \in Entry : \A h \in Shard : CountIn(then, h, e) = CountIn(net, h, e)
  BY <1>1, <1>2 DEF CountIn
<1>5. \A e \in Entry : CountIn(then, Home[e[1]], e) = CountIn(net, Home[e[1]], e)
  BY <1>4, EntryParts
<1>6. \A e \in Entry : Due(kind, then, e) = Due(kind, net, e)
  BY <1>5 DEF Due
<1>7. \A s, i : Quiet(net, s, i) => Quiet(then, s, i)
  BY DEF Quiet
<1>8. \A k : AllSteered(k, net) => AllSteered(k, then)
  BY DEF AllSteered
<1> QED  BY <1>1, <1>2, <1>3, <1>5, <1>6, <1>7, <1>8 DEF SameDues

\* A part deleted takes its entries with it; the messages are still on their way.
LEMMA DeletedDoes ==
    ASSUME NEW net, NetOK(net), NEW d \in Shard,
           NEW then, then \in NetType, then.index = [net.index EXCEPT ![d] = NoIndex],
           then.channel = net.channel
    PROVE  /\ NetOK(then)
           /\ then.index[d] = NoIndex /\ \A h \in Shard \ {d} : then.index[h] = net.index[h]
           /\ \A s, i : Quiet(net, s, i) => Quiet(then, s, i)
           /\ \A k : AllSteered(k, net) => AllSteered(k, then)
<1>1. then.index[d] = NoIndex /\ \A h \in Shard \ {d} : then.index[h] = net.index[h]
  BY DEF NetOK, NetType
<1>2. NetOK(then)
  BY <1>1 DEF NetOK, AtHome
<1> QED  BY <1>1, <1>2 DEF Quiet, AllSteered

-----------------------------------------------------------------------------
(* Filling *)

\* What the fill reads of the columns of shard d.
FillReads(d) == FillSlots(d) \subseteq Slot /\ \A i \in Slot : ValueOf(d, i) \in Value \cup {NoValue}

FillEntry(d, e) == e[2] = d /\ e[3] \in FillSlots(d) /\ ValueOf(d, e[3]) = e[1]

\* What the fill of shard d sends to shard h are insertions for slots of d and values at home on h.
LEMMA FillMessagesTyped ==
    ASSUME NEW d \in Shard, NEW h \in Shard, FillReads(d)
    PROVE  /\ FillMessages(d, h) \in Seq(Message)
           /\ Cardinality(DueOn(d, h)) \in Nat
           /\ Ascending(DueOn(d, h)) \in [1 .. Cardinality(DueOn(d, h)) -> DueOn(d, h)]
           /\ DOMAIN FillMessages(d, h) = 1 .. Cardinality(DueOn(d, h))
           /\ \A n \in DOMAIN FillMessages(d, h) :
                 /\ FillMessages(d, h)[n].op = "insert" /\ IsWrite(FillMessages(d, h)[n])
                 /\ Ascending(DueOn(d, h))[n] \in DueOn(d, h)
                 /\ FillMessages(d, h)[n].entry
                      = <<ValueOf(d, Ascending(DueOn(d, h))[n]), d, Ascending(DueOn(d, h))[n]>>
                 /\ FillMessages(d, h)[n].entry[2] = d /\ Home[FillMessages(d, h)[n].entry[1]] = h
<1> DEFINE S == DueOn(d, h)
           q == Ascending(S)
           M == Cardinality(S)
           messages == FillMessages(d, h)
<1>1. MaxSlots \in Nat /\ S \subseteq 0 .. MaxSlots - 1
  BY NodeTypesAssumption DEF DueOn, FillReads, Slot
<1>2. M \in Nat /\ q \in [1 .. M -> S]
  BY <1>1, AscendingLists
<1>3. messages = [n \in 1 .. M |-> Entered(d, q[n])]
  <2> HIDE DEF q, M
  <2>1. DOMAIN q = 1 .. M
    BY <1>2
  <2> QED  BY <2>1 DEF FillMessages, q
<1> HIDE DEF q, M, messages
<1>4. \A i \in S : /\ i \in Slot /\ i \in FillSlots(d) /\ ValueOf(d, i) \in Value
                   /\ Home[ValueOf(d, i)] = h
  BY DEF DueOn, FillReads
<1> HIDE DEF S
<1>6. \A i \in S : /\ Entered(d, i) \in Message /\ IsWrite(Entered(d, i))
                   /\ Entered(d, i).op = "insert" /\ Entered(d, i).entry = <<ValueOf(d, i), d, i>>
  BY <1>4 DEF Entered, Message, IsWrite, Entry
<1>7. /\ messages \in Seq(Message) /\ DOMAIN messages = 1 .. M
      /\ \A n \in 1 .. M : q[n] \in S /\ messages[n] = Entered(d, q[n])
  <2>1. \A n \in 1 .. M : q[n] \in S
    BY <1>2
  <2>2. messages \in [1 .. M -> Message]
    BY <1>3, <1>6, <2>1
  <2> QED  BY <1>2, <1>3, <2>1, <2>2
<1>8. \A n \in DOMAIN messages :
          /\ messages[n].op = "insert" /\ IsWrite(messages[n]) /\ q[n] \in S
          /\ messages[n].entry = <<ValueOf(d, q[n]), d, q[n]>>
          /\ messages[n].entry[2] = d /\ Home[messages[n].entry[1]] = h
  BY <1>4, <1>6, <1>7
<1> QED  BY <1>2, <1>7, <1>8 DEF q, M, messages, S

\* Of an entry the fill puts in, one message goes to the home of the value; of others none does.
LEMMA FillMessagesCount ==
    ASSUME NEW d \in Shard, NEW h \in Shard, FillReads(d), NEW kind, NEW x \in Nat, NEW e \in Entry,
           Home[e[1]] = h
    PROVE  After(kind, x, FillMessages(d, h), e) = IF FillEntry(d, e) THEN Inserted(kind, x) ELSE x
<1> DEFINE S == DueOn(d, h)
           q == Ascending(S)
           M == Cardinality(S)
           messages == FillMessages(d, h)
<1>1. MaxSlots \in Nat /\ S \subseteq 0 .. MaxSlots - 1
  BY NodeTypesAssumption DEF DueOn, FillReads, Slot
<1>2. /\ \A i \in S : \E n \in 1 .. M : q[n] = i
      /\ \A m, n \in 1 .. M : q[m] = q[n] => m = n
  BY <1>1, AscendingLists
<1>3. /\ messages \in Seq(Message) /\ DOMAIN messages = 1 .. M
      /\ \A n \in DOMAIN messages :
            /\ messages[n].op = "insert" /\ q[n] \in S
            /\ messages[n].entry = <<ValueOf(d, q[n]), d, q[n]>>
  BY FillMessagesTyped
<1>4. \A i \in S : i \in FillSlots(d)
  BY DEF DueOn
<1>5. \A i \in Slot : i \in FillSlots(d) /\ ValueOf(d, i) \in Value /\ Home[ValueOf(d, i)] = h => i \in S
  BY PropertyColumnsAssumption DEF DueOn
<1> HIDE DEF S, q, M, messages
<1>9. CASE FillEntry(d, e)
  <2>1. e[3] \in S /\ e = <<ValueOf(d, e[3]), d, e[3]>>
    BY <1>5, <1>9, EntryParts DEF FillEntry
  <2>2. PICK p \in 1 .. M : q[p] = e[3]
    BY <1>2, <2>1
  <2>3. p \in DOMAIN messages /\ messages[p].op = "insert" /\ messages[p].entry = e
    BY <1>3, <2>1, <2>2
  <2>4. ASSUME NEW n \in DOMAIN messages, n # p PROVE messages[n].entry # e
    <3>1. n \in 1 .. M /\ q[n] # q[p]
      BY <1>2, <1>3, <2>4
    <3>2. messages[n].entry[3] = q[n]
      BY <1>3
    <3> QED  BY <2>2, <3>1, <3>2
  <2>5. \A n \in DOMAIN messages : n # p /\ IsWrite(messages[n]) => messages[n].entry # e
    BY <2>4
  <2>6. After(kind, x, messages, e) = Inserted(kind, x)
    BY <1>3, <2>3, <2>5, AfterOneInsert
  <2> QED  BY <1>9, <2>6 DEF messages
<1>10. CASE ~FillEntry(d, e)
  <2>1. ASSUME NEW n \in DOMAIN messages PROVE messages[n].entry # e
    <3>1. q[n] \in S /\ messages[n].entry = <<ValueOf(d, q[n]), d, q[n]>>
      BY <1>3
    <3>2. SUFFICES ASSUME messages[n].entry = e PROVE FALSE
      OBVIOUS
    <3>3. e[1] = ValueOf(d, q[n]) /\ e[2] = d /\ e[3] = q[n]
      BY <3>1, <3>2
    <3> QED  BY <1>4, <1>10, <3>1, <3>3 DEF FillEntry
  <2>2. \A n \in DOMAIN messages : IsWrite(messages[n]) => messages[n].entry # e
    BY <2>1
  <2>3. messages \in Seq(Message)
    BY <1>3
  <2>4. After(kind, x, messages, e) = x
    BY <2>2, <2>3, AfterOthers
  <2> QED  BY <1>10, <2>4 DEF messages
<1> QED  BY <1>9, <1>10

\* A fill adds messages about its own slots to the queues, and orders none.
LEMMA ConcatKeeps ==
    ASSUME NEW first \in Seq(Message), NEW second \in Seq(Message),
           \A n \in DOMAIN second : IsWrite(second[n])
    PROVE  /\ first \o second \in Seq(Message)
           /\ \A k, s, d : Steered(k, s, d, first) => Steered(k, s, d, first \o second)
           /\ \A n \in DOMAIN (first \o second) :
                 \/ \E j \in DOMAIN first : (first \o second)[n] = first[j]
                 \/ \E j \in DOMAIN second : (first \o second)[n] = second[j]
<1> DEFINE both == first \o second
<1>1. /\ both \in Seq(Message) /\ DOMAIN both = 1 .. Len(first) + Len(second)
      /\ DOMAIN first = 1 .. Len(first) /\ DOMAIN second = 1 .. Len(second)
      /\ Len(first) \in Nat /\ Len(second) \in Nat
      /\ \A n \in 1 .. Len(first) + Len(second) :
            both[n] = IF n <= Len(first) THEN first[n] ELSE second[n - Len(first)]
  OBVIOUS
<1> HIDE DEF both
<1>2. ASSUME NEW n \in DOMAIN both
      PROVE  \/ n \in DOMAIN first /\ both[n] = first[n]
             \/ n - Len(first) \in DOMAIN second /\ both[n] = second[n - Len(first)]
  <2>1. CASE n <= Len(first)
    BY <1>1, <2>1
  <2>2. CASE ~(n <= Len(first))
    BY <1>1, <2>2
  <2> QED  BY <2>1, <2>2
<1>3. \A n \in DOMAIN both : ~IsWrite(both[n]) => n \in DOMAIN first /\ both[n] = first[n]
  BY <1>2
<1>4. ASSUME NEW k, NEW s, NEW d, Steered(k, s, d, first) PROVE Steered(k, s, d, both)
  BY <1>3, <1>4 DEF Steered
<1>5. \A n \in DOMAIN both : \/ \E j \in DOMAIN first : both[n] = first[j]
                             \/ \E j \in DOMAIN second : both[n] = second[j]
  BY <1>2
<1> QED  BY <1>1, <1>4, <1>5 DEF both

\* The fill of shard d makes one entry more due for each value it holds.
LEMMA FillDoes ==
    ASSUME NEW net, NetOK(net), NEW d \in Shard, FillReads(d), net.index[d] # NoIndex
    PROVE  /\ NetOK(Fill(net, d)) /\ SamePresence(net, Fill(net, d))
           /\ \A e \in Entry :
                 Due(KindOf, Fill(net, d), e) = IF FillEntry(d, e) THEN Inserted(KindOf, Due(KindOf, net, e))
                                                ELSE Due(KindOf, net, e)
           /\ \A e \in Entry : e[2] # d =>
                 CountIn(Fill(net, d), Home[e[1]], e) = CountIn(net, Home[e[1]], e)
           /\ \A s \in Shard, i \in Slot : s # d /\ Quiet(net, s, i) => Quiet(Fill(net, d), s, i)
           /\ \A k : AllSteered(k, net) => AllSteered(k, Fill(net, d))
<1> DEFINE then == Fill(net, d)
           x == net.index[d]
           y == [e \in Entry |-> IF e[2] = d /\ e[3] \in DueOn(d, d) /\ e[1] = ValueOf(d, e[3])
                                 THEN Inserted(KindOf, x[e]) ELSE x[e]]
           row == [h \in Shard |-> IF h = d THEN net.channel[d][h]
                                   ELSE net.channel[d][h] \o FillMessages(d, h)]
<1>1. net \in NetType /\ x \in PropertyIndex
  BY PartTyped DEF NetOK
<1>2. then = [index |-> [net.index EXCEPT ![d] = y], channel |-> [net.channel EXCEPT ![d] = row]]
  BY <1>1 DEF Fill, NetType
<1>3. ASSUME NEW e \in Entry
      PROVE  /\ y[e] \in Nat
             /\ y[e] = IF FillEntry(d, e) /\ Home[e[1]] = d THEN Inserted(KindOf, x[e]) ELSE x[e]
  <2>1. y[e] = IF e[2] = d /\ e[3] \in DueOn(d, d) /\ e[1] = ValueOf(d, e[3])
               THEN Inserted(KindOf, x[e]) ELSE x[e]
    OBVIOUS
  <2>2. e[1] \in Value /\ e[1] # NoValue
    BY EntryParts, PropertyColumnsAssumption
  <2>3. e[3] \in DueOn(d, d) /\ e[1] = ValueOf(d, e[3])
          <=> e[3] \in FillSlots(d) /\ ValueOf(d, e[3]) = e[1] /\ Home[e[1]] = d
    BY <2>2 DEF DueOn
  <2>4. x[e] \in Nat
    BY <1>1 DEF PropertyIndex
  <2> HIDE DEF y, x
  <2> QED  BY <2>1, <2>3, <2>4 DEF FillEntry, Inserted
<1>4. y \in PropertyIndex
  BY <1>3 DEF PropertyIndex
<1>5. ASSUME NEW h \in Shard PROVE FillMessages(d, h) \in Seq(Message)
                                   /\ net.channel[d][h] \in Seq(Message)
                                   /\ \A n \in DOMAIN FillMessages(d, h) :
                                         /\ IsWrite(FillMessages(d, h)[n])
                                         /\ FillMessages(d, h)[n].entry[2] = d
                                         /\ Home[FillMessages(d, h)[n].entry[1]] = h
  BY FillMessagesTyped, PartTyped
<1>6. ASSUME NEW h \in Shard, h # d
      PROVE  /\ row[h] = net.channel[d][h] \o FillMessages(d, h)
             /\ row[h] \in Seq(Message)
             /\ \A k, s, u : Steered(k, s, u, net.channel[d][h]) => Steered(k, s, u, row[h])
             /\ \A n \in DOMAIN row[h] :
                   \/ \E j \in DOMAIN net.channel[d][h] : row[h][n] = net.channel[d][h][j]
                   \/ \E j \in DOMAIN FillMessages(d, h) : row[h][n] = FillMessages(d, h)[j]
  <2>1. row[h] = net.channel[d][h] \o FillMessages(d, h)
    BY <1>6
  <2> DEFINE first == net.channel[d][h]
             second == FillMessages(d, h)
  <2>2. first \in Seq(Message) /\ second \in Seq(Message) /\ \A n \in DOMAIN second : IsWrite(second[n])
    BY <1>5
  <2>3. row[h] = first \o second
    BY <2>1
  <2> HIDE DEF row, first, second
  <2>4. /\ first \o second \in Seq(Message)
        /\ \A k, s, u : Steered(k, s, u, first) => Steered(k, s, u, first \o second)
        /\ \A n \in DOMAIN (first \o second) :
              \/ \E j \in DOMAIN first : (first \o second)[n] = first[j]
              \/ \E j \in DOMAIN second : (first \o second)[n] = second[j]
    BY <2>2, ConcatKeeps
  <2>5. /\ row[h] \in Seq(Message)
        /\ \A k, s, u : Steered(k, s, u, first) => Steered(k, s, u, row[h])
        /\ \A n \in DOMAIN row[h] : \/ \E j \in DOMAIN first : row[h][n] = first[j]
                                   \/ \E j \in DOMAIN second : row[h][n] = second[j]
    BY <2>3, <2>4
  <2> QED  BY <2>3, <2>5, Zenon DEF first, second
<1>7. row[d] = net.channel[d][d] /\ row[d] \in Seq(Message) /\ row \in [Shard -> Seq(Message)]
  <2>1. row[d] = net.channel[d][d] /\ row[d] \in Seq(Message)
    BY <1>5
  <2>2. DOMAIN row = Shard /\ row = [h \in Shard |-> row[h]]
    OBVIOUS
  <2> HIDE DEF row
  <2> QED  BY <1>6, <2>1, <2>2
<1> HIDE DEF then, y, row
<1>8. /\ then.index[d] = y /\ then.channel[d] = row /\ then \in NetType
      /\ \A h \in Shard \ {d} : then.index[h] = net.index[h] /\ then.channel[h] = net.channel[h]
  BY <1>1, <1>2, <1>4, <1>7 DEF NetType
<1>9. y # NoIndex /\ SamePresence(net, then)
  BY <1>4, <1>8, NoIndexAssumption DEF SamePresence
<1>10. NetOK(then)
  <2>1. ASSUME NEW h \in Shard PROVE AtHome(then.index[h], h)
    <3>1. CASE h # d
      BY <1>8, <3>1 DEF NetOK
    <3>2. CASE h = d
      <4>1. SUFFICES ASSUME NEW e \in Entry, y[e] > 0 PROVE Home[e[1]] = d
        BY <1>8, <3>2 DEF AtHome
      <4>2. CASE FillEntry(d, e) /\ Home[e[1]] = d
        BY <4>2
      <4>3. CASE ~(FillEntry(d, e) /\ Home[e[1]] = d)
        <5>1. x[e] > 0
          BY <1>3, <4>1, <4>3
        <5> QED  BY <5>1 DEF NetOK, AtHome
      <4> QED  BY <4>2, <4>3
    <3> QED  BY <3>1, <3>2
  <2>2. ASSUME NEW s \in Shard, NEW h \in Shard PROVE Routed(s, h, then.channel[s][h])
    <3>1. CASE s # d
      BY <1>8, <3>1 DEF NetOK
    <3>2. CASE s = d /\ h = d
      BY <1>7, <1>8, <3>2 DEF NetOK
    <3>3. CASE s = d /\ h # d
      <4>1. Routed(d, h, net.channel[d][h])
        BY DEF NetOK
      <4>2. ASSUME NEW n \in DOMAIN row[h], IsWrite(row[h][n])
            PROVE  row[h][n].entry[2] = d /\ Home[row[h][n].entry[1]] = h
        <5>1. CASE \E j \in DOMAIN net.channel[d][h] : row[h][n] = net.channel[d][h][j]
          BY <4>1, <4>2, <5>1, Zenon DEF Routed
        <5>2. CASE \E j \in DOMAIN FillMessages(d, h) : row[h][n] = FillMessages(d, h)[j]
          BY <1>5, <5>2
        <5> QED  BY <1>6, <3>3, <5>1, <5>2
      <4> QED  BY <1>8, <3>3, <4>2 DEF Routed
    <3> QED  BY <3>1, <3>2, <3>3
  <2> QED  BY <1>8, <2>1, <2>2 DEF NetOK
<1>11. ASSUME NEW e \in Entry
       PROVE  Due(KindOf, then, e) = IF FillEntry(d, e) THEN Inserted(KindOf, Due(KindOf, net, e))
                                     ELSE Due(KindOf, net, e)
  <2> DEFINE h == Home[e[1]]
             before == CountIn(net, h, e)
  <2>1. h \in Shard /\ e[2] \in Shard /\ before \in Nat
    BY EntryParts, PartTyped
  <2>2. CASE e[2] # d
    <3>1. ~FillEntry(d, e)
      BY <2>2 DEF FillEntry
    <3>2. CountIn(then, h, e) = before
      <4>1. CASE h # d
        BY <1>8, <2>1, <4>1 DEF CountIn
      <4>2. CASE h = d
        BY <1>3, <1>8, <1>9, <3>1, <4>2 DEF CountIn
      <4> QED  BY <4>1, <4>2
    <3>3. then.channel[e[2]][h] = net.channel[e[2]][h]
      BY <1>8, <2>1, <2>2
    <3> QED  BY <3>1, <3>2, <3>3 DEF Due
  <2>3. CASE e[2] = d /\ h = d
    <3>1. Due(KindOf, then, e) = CountIn(then, d, e) /\ Due(KindOf, net, e) = CountIn(net, d, e)
      BY <1>10, <2>3, DueAtHome
    <3>2. CountIn(then, d, e) = y[e] /\ CountIn(net, d, e) = x[e]
      BY <1>8, <1>9 DEF CountIn
    <3> QED  BY <1>3, <2>3, <3>1, <3>2
  <2>4. CASE e[2] = d /\ h # d
    <3>1. CountIn(then, h, e) = before
      BY <1>8, <2>1, <2>4 DEF CountIn
    <3>2. then.channel[e[2]][h] = net.channel[d][h] \o FillMessages(d, h)
      BY <1>6, <1>8, <2>1, <2>4, Zenon
    <3>3. After(KindOf, before, net.channel[d][h] \o FillMessages(d, h), e)
            = After(KindOf, After(KindOf, before, net.channel[d][h], e), FillMessages(d, h), e)
      BY <1>5, <2>1, AfterConcat
    <3>4. After(KindOf, before, net.channel[d][h], e) \in Nat
      BY <1>5, <2>1, AfterNat
    <3>5. \A n \in Nat : After(KindOf, n, FillMessages(d, h), e) = IF FillEntry(d, e) THEN Inserted(KindOf, n) ELSE n
      BY <2>1, FillMessagesCount
    <3>6. Due(KindOf, net, e) = After(KindOf, before, net.channel[d][h], e)
      BY <2>4 DEF Due
    <3>7. Due(KindOf, then, e) = After(KindOf, before, net.channel[d][h] \o FillMessages(d, h), e)
      BY <3>1, <3>2, Zenon DEF Due
    <3> HIDE DEF h, before
    <3> QED  BY <3>3, <3>4, <3>5, <3>6, <3>7
  <2> QED  BY <2>2, <2>3, <2>4
<1>12. ASSUME NEW e \in Entry, e[2] # d PROVE CountIn(then, Home[e[1]], e) = CountIn(net, Home[e[1]], e)
  <2>1. ~FillEntry(d, e) /\ Home[e[1]] \in Shard
    BY <1>12, EntryParts DEF FillEntry
  <2>2. CASE Home[e[1]] # d
    BY <1>8, <2>1, <2>2 DEF CountIn
  <2>3. CASE Home[e[1]] = d
    BY <1>3, <1>8, <1>9, <2>1, <2>3 DEF CountIn
  <2> QED  BY <2>2, <2>3
<1>13. ASSUME NEW s \in Shard, NEW i \in Slot, s # d, Quiet(net, s, i) PROVE Quiet(then, s, i)
  BY <1>8, <1>13 DEF Quiet
<1>14. ASSUME NEW k, AllSteered(k, net) PROVE AllSteered(k, then)
  <2>1. SUFFICES ASSUME NEW s \in Shard, NEW h \in Shard PROVE Steered(k, s, h, then.channel[s][h])
    BY DEF AllSteered
  <2>2. Steered(k, s, h, net.channel[s][h])
    BY <1>14 DEF AllSteered
  <2>3. CASE s # d
    BY <1>8, <2>2, <2>3
  <2>4. CASE s = d /\ h = d
    BY <1>7, <1>8, <2>2, <2>4
  <2>5. CASE s = d /\ h # d
    BY <1>6, <1>8, <2>2, <2>5
  <2> QED  BY <2>3, <2>4, <2>5
<1> QED  BY <1>9, <1>10, <1>11, <1>12, <1>13, <1>14 DEF then

-----------------------------------------------------------------------------
(* The columns *)

\* Column c fits node type t: slots it does not reach count as deleted.
ColumnOK(c, t) ==
    /\ c \in [kind : {"integer", "string"}, vec : Seq(Value), gone : SUBSET Slot]
    /\ Len(c.vec) <= Len(t.keys)
    /\ \A i \in SlotsOf(t) : Covers(c, i) \/ i \in c.gone

LEMMA PropertyTyped ==
    ASSUME NEW t, NEW c, ColumnOK(c, t), NEW i \in Nat
    PROVE  getProperty(c, i) \in Value \cup {NoValue}
<1>1. c.vec \in Seq(Value) /\ Len(c.vec) \in Nat
  BY DEF ColumnOK
<1>2. CASE Covers(c, i)
  <2>1. i + 1 \in 1 .. Len(c.vec)
    BY <1>1, <1>2 DEF Covers
  <2> QED  BY <1>1, <2>1 DEF getProperty
<1>3. CASE ~ Covers(c, i)
  BY <1>3 DEF getProperty
<1> QED  BY <1>2, <1>3

LEMMA MaxOfTwo ==
    ASSUME NEW m \in Nat, NEW n \in Nat
    PROVE  Max({m, n}) = IF m >= n THEN m ELSE n
BY DEF Max

\* A value set is the value read, and the padding gives no other slot a value.
LEMMA SetValueDoes ==
    ASSUME NEW t, WellFormed(t), NEW c, ColumnOK(c, t), NEW i \in SlotsOf(t), NEW v \in Value
    PROVE  /\ ColumnOK(setValue(c, i, v), t)
           /\ setValue(c, i, v).kind = c.kind
           /\ getProperty(setValue(c, i, v), i) = v
           /\ \A j \in SlotsOf(t) \ {i} : getProperty(setValue(c, i, v), j) = getProperty(c, j)
<1> DEFINE N == Max({Len(c.vec), i + 1})
           d == setValue(c, i, v)
<1>1. /\ c = [kind |-> c.kind, vec |-> c.vec, gone |-> c.gone]
      /\ c.kind \in {"integer", "string"} /\ c.vec \in Seq(Value) /\ c.gone \subseteq Slot
      /\ Len(c.vec) \in Nat /\ Len(c.vec) <= Len(t.keys)
      /\ \A j \in SlotsOf(t) : Covers(c, j) \/ j \in c.gone
  BY DEF ColumnOK
<1>2. Len(t.keys) \in Nat /\ i \in Nat /\ i < Len(t.keys)
  BY DEF WellFormed, NodeType, SlotsOf
<1>3. N \in Nat /\ N >= Len(c.vec) /\ N >= i + 1 /\ N <= Len(t.keys)
  <2>1. Len(c.vec) \in Nat /\ i + 1 \in Nat
    BY <1>1, <1>2
  <2>2. N = IF Len(c.vec) >= i + 1 THEN Len(c.vec) ELSE i + 1
    BY <2>1, MaxOfTwo
  <2> HIDE DEF N
  <2> QED  BY <1>1, <1>2, <2>1, <2>2
<1> DEFINE w == [[j \in 1 .. N |-> IF j <= Len(c.vec) THEN c.vec[j] ELSE Default] EXCEPT ![i + 1] = v]
<1>4. d = [kind |-> c.kind, vec |-> w, gone |-> c.gone \ {i}]
  <2>1. w = [Padded(c.vec, N) EXCEPT ![i + 1] = v]
    BY DEF Padded
  <2> HIDE DEF w
  <2>2. d = [c EXCEPT !.vec = w, !.gone = @ \ {i}]
    BY <2>1 DEF setValue
  <2> HIDE DEF d
  <2> QED  BY <1>1, <2>2
<1> HIDE DEF N
<1>5. w = [j \in 1 .. N |-> IF j = i + 1 THEN v ELSE IF j <= Len(c.vec) THEN c.vec[j] ELSE Default]
  OBVIOUS
<1>6. Default \in Value
  BY PropertyColumnsAssumption DEF Default
<1>7. \A j \in 1 .. N : w[j] \in Value
  BY <1>1, <1>3, <1>5, <1>6
<1>8. w \in [1 .. N -> Value]
  BY <1>5, <1>7
<1> DEFINE x == w
<1> HIDE DEF w
<1>9. w \in Seq(Value) /\ Len(w) = N
  BY <1>3, <1>8
<1> HIDE DEF d
<1>10. d.kind = c.kind /\ d.vec = w /\ d.gone = c.gone \ {i}
  BY <1>4
<1>11. ColumnOK(d, t)
  <2>1. d \in [kind : {"integer", "string"}, vec : Seq(Value), gone : SUBSET Slot]
    BY <1>1, <1>4, <1>9
  <2>2. \A j \in SlotsOf(t) : Covers(d, j) \/ j \in d.gone
    BY <1>1, <1>2, <1>3, <1>9, <1>10 DEF Covers, SlotsOf
  <2> QED  BY <1>3, <1>9, <1>10, <2>1, <2>2 DEF ColumnOK
<1>12. getProperty(d, i) = v
  <2>1. Covers(d, i) /\ d.vec[i + 1] = v
    BY <1>2, <1>3, <1>5, <1>9, <1>10 DEF Covers
  <2> QED  BY <1>1, <1>10, <2>1 DEF getProperty, ValueKind
<1>13. ASSUME NEW j \in SlotsOf(t) \ {i} PROVE getProperty(d, j) = getProperty(c, j)
  <2>1. j \in Nat /\ j < Len(t.keys)
    BY <1>2 DEF SlotsOf
  <2>2. CASE Covers(c, j)
    <3>1. j + 1 \in 1 .. N /\ j + 1 # i + 1 /\ j + 1 <= Len(c.vec) /\ j < N
      BY <1>1, <1>2, <1>3, <2>1, <2>2 DEF Covers
    <3>2. w[j + 1] = c.vec[j + 1]
      BY <1>5, <3>1
    <3> QED  BY <1>9, <1>10, <2>2, <3>1, <3>2 DEF getProperty, Covers
  <2>3. CASE ~ Covers(c, j)
    <3>1. j \in c.gone /\ j \in d.gone
      BY <1>1, <1>10, <2>3
    <3> QED  BY <3>1 DEF getProperty
  <2> QED  BY <2>2, <2>3
<1> QED  BY <1>10, <1>11, <1>12, <1>13 DEF d

\* A value deleted is not read, and no other is touched.
LEMMA DeletePropertyDoes ==
    ASSUME NEW t, NEW c, ColumnOK(c, t), NEW i \in Slot
    PROVE  /\ ColumnOK(deleteProperty(c, i), t)
           /\ deleteProperty(c, i).kind = c.kind
           /\ getProperty(deleteProperty(c, i), i) = NoValue
           /\ i \in deleteProperty(c, i).gone
           /\ \A j \in Nat \ {i} : getProperty(deleteProperty(c, i), j) = getProperty(c, j)
<1>1. /\ c = [kind |-> c.kind, vec |-> c.vec, gone |-> c.gone]
      /\ c.kind \in {"integer", "string"} /\ c.vec \in Seq(Value) /\ c.gone \subseteq Slot
      /\ Len(c.vec) <= Len(t.keys)
      /\ \A j \in SlotsOf(t) : Covers(c, j) \/ j \in c.gone
  BY DEF ColumnOK
<1> DEFINE d == deleteProperty(c, i)
<1>2. d = [kind |-> c.kind, vec |-> c.vec, gone |-> c.gone \cup {i}]
  BY <1>1 DEF deleteProperty
<1> HIDE DEF d
<1>3. ColumnOK(d, t)
  BY <1>1, <1>2 DEF ColumnOK, Covers
<1>4. getProperty(d, i) = NoValue /\ \A j \in Nat \ {i} : getProperty(d, j) = getProperty(c, j)
  BY <1>1, <1>2 DEF getProperty, Covers
<1> QED  BY <1>2, <1>3, <1>4 DEF d

-----------------------------------------------------------------------------
(* The inductive invariant *)

\* Slot i of shard s holds value v.
Has(s, i, v) == i \in LiveSlots(nodes[s]) /\ getProperty(column[s], i) = v

StoresOK ==
    /\ nodes \in [Shard -> NodeType]
    /\ column \in [Shard -> [kind : {"integer", "string"}, vec : Seq(Value), gone : SUBSET Slot]]
    /\ \A s \in Shard : WellFormed(nodes[s]) /\ ColumnOK(column[s], nodes[s]) /\ column[s].kind = KindOf

Present == {d \in Shard : index[d] # NoIndex}

\* How far the creation or deletion has come: which shards have their part of the index, and which
\* have put their nodes into it.
TaskOK ==
    /\ \/ task = Idle
       \/ task \in [phase : {"create", "fill", "delete"}, at : Shard, waiting : SUBSET Shard, ok : BOOLEAN]
    /\ filled \subseteq Shard
    /\ task = Idle => Present = filled /\ filled \in {{}, Shard}
    /\ task.phase = "create" /\ task.ok => Present = Shard \ task.waiting /\ filled = {}
    /\ task.phase = "create" /\ ~task.ok => Present = Shard /\ filled = Shard
    /\ task.phase = "fill" => Present = Shard /\ filled = Shard \ task.waiting
    /\ task.phase = "delete" => Present \subseteq task.waiting \ {task.at} /\ filled \subseteq Present

\* The index goes up or stays: it is not being deleted.
Kept == task.phase # "delete"

\* The present index has not been told of slot i of shard s.
Unheard(s, i) ==
    /\ <<s, i>> \notin leftover
    /\ index[s] = NoIndex \/ (s \notin filled /\ <<s, i>> \notin early /\ Kept)

\* Of a slot the index has not been told of nothing is on its way, and nothing is entered. The
\* entry for a value the slot holds is due once its shard is filled, and no other entry of the
\* slot is due, nor that one twice.
EntryOK(v, s, i) ==
    /\ Unheard(s, i) => Quiet(Net, s, i)
    /\ Unheard(s, i) /\ Kept => CountIn(Net, Home[v], <<v, s, i>>) = 0
    /\ s \in filled /\ Kept /\ Has(s, i, v) /\ <<s, i>> \notin missed \cup misled
          => Due(KindOf, Net, <<v, s, i>>) > 0
    /\ /\ index[s] # NoIndex /\ Kept /\ <<s, i>> \notin misled \cup leftover
       /\ KindOf = "string" \/ <<s, i>> \notin early
       => Due(KindOf, Net, <<v, s, i>>) <= (IF Has(s, i, v) THEN 1 ELSE 0)

EntriesOK == \A v \in Value, s \in Shard, i \in Slot : EntryOK(v, s, i)

IInv == StoresOK /\ NetOK(Net) /\ AllSteered(task, Net) /\ TaskOK /\ EntriesOK

-----------------------------------------------------------------------------
(* What the writing handlers do to the columns *)

\* A step that leaves slot i of shard s with value new instead of old, and no other slot changed.
Rewrites(s, i, old, new) ==
    /\ i \in Slot /\ old \in Value \cup {NoValue} /\ new \in Value \cup {NoValue}
    /\ StoresOK' /\ KindOf' = KindOf
    /\ \A t \in Shard, j \in Slot, v \in Value :
          <<t, j>> # <<s, i>> => (Has(t, j, v)' <=> Has(t, j, v))
    /\ \A v \in Value : (Has(s, i, v) <=> v = old) /\ (Has(s, i, v)' <=> v = new)

\* The columns of one shard change.
LEMMA ShardRewrites ==
    ASSUME StoresOK, NEW s \in Shard, NEW i \in Slot,
           NEW old \in Value \cup {NoValue}, NEW new \in Value \cup {NoValue},
           NEW t, NEW c, nodes' = [nodes EXCEPT ![s] = t], column' = [column EXCEPT ![s] = c],
           WellFormed(t), ColumnOK(c, t), c.kind = column[s].kind,
           \A j \in Slot \ {i} : \/ j \in LiveSlots(t) /\ j \in LiveSlots(nodes[s])
                                    /\ getProperty(c, j) = getProperty(column[s], j)
                                 \/ j \notin LiveSlots(t) /\ j \notin LiveSlots(nodes[s]),
           \A v \in Value : (Has(s, i, v) <=> v = old)
                         /\ (i \in LiveSlots(t) /\ getProperty(c, i) = v <=> v = new)
    PROVE  Rewrites(s, i, old, new)
<1>1. /\ nodes'[s] = t /\ column'[s] = c
      /\ \A d \in Shard \ {s} : nodes'[d] = nodes[d] /\ column'[d] = column[d]
      /\ nodes' \in [Shard -> NodeType]
      /\ column' \in [Shard -> [kind : {"integer", "string"}, vec : Seq(Value), gone : SUBSET Slot]]
  <2>1. t \in NodeType /\ c \in [kind : {"integer", "string"}, vec : Seq(Value), gone : SUBSET Slot]
    BY DEF WellFormed, ColumnOK
  <2> QED  BY <2>1 DEF StoresOK
<1>2. \A d \in Shard : column'[d].kind = column[d].kind
  BY <1>1
<1>3. KindOf' = KindOf
  BY <1>2, PropertyIndexesAssumption DEF KindOf
<1>4. StoresOK'
  <2>1. ASSUME NEW d \in Shard
        PROVE  WellFormed(nodes'[d]) /\ ColumnOK(column'[d], nodes'[d]) /\ column'[d].kind = KindOf'
    BY <1>1, <1>2, <1>3 DEF StoresOK
  <2> QED  BY <1>1, <2>1 DEF StoresOK
<1>5. ASSUME NEW d \in Shard, NEW j \in Slot, NEW v \in Value, <<d, j>> # <<s, i>>
      PROVE  Has(d, j, v)' <=> Has(d, j, v)
  <2>1. CASE d = s
    BY <1>1, <1>5, <2>1 DEF Has
  <2>2. CASE d # s
    BY <1>1, <2>2 DEF Has
  <2> QED  BY <2>1, <2>2
<1>6. \A v \in Value : Has(s, i, v)' <=> v = new
  BY <1>1 DEF Has
<1> QED  BY <1>3, <1>4, <1>5, <1>6 DEF Rewrites

\* What a handler reads of a slot that ValidNodeId accepts.
LEMMA ValidHolds ==
    ASSUME StoresOK, NEW s \in Shard, NEW i \in Slot, ValidNodeId(nodes[s], i)
    PROVE  /\ i \in LiveSlots(nodes[s]) /\ i \in SlotsOf(nodes[s])
           /\ ValueOf(s, i) = getProperty(column[s], i) /\ ValueOf(s, i) \in Value \cup {NoValue}
           /\ \A v \in Value : Has(s, i, v) <=> v = ValueOf(s, i)
<1>1. WellFormed(nodes[s]) /\ ColumnOK(column[s], nodes[s])
  BY DEF StoresOK
<1>2. MaxSlots \in Nat
  BY NodeTypesAssumption
<1>3. i \in Int /\ i \in Nat
  BY <1>2 DEF Slot
<1>4. i \in LiveSlots(nodes[s])
  BY <1>1, <1>3, ValidIsLive
<1>5. ValueOf(s, i) = getProperty(column[s], i)
  BY DEF ValueOf, getNodeProperty
<1>6. getProperty(column[s], i) \in Value \cup {NoValue}
  BY <1>1, <1>3, PropertyTyped
<1> QED  BY <1>4, <1>5, <1>6 DEF Has, LiveSlots

\* NodeSetProperty and the JSON handlers that set a value.
LEMMA SetRewrites ==
    ASSUME StoresOK, NEW s \in Shard, NEW i \in Slot, ValidNodeId(nodes[s], i), NEW v \in Value,
           nodes' = nodes, column' = [column EXCEPT ![s] = setValue(@, i, v)]
    PROVE  Rewrites(s, i, ValueOf(s, i), v)
<1> DEFINE t == nodes[s]
           c == setValue(column[s], i, v)
<1>1. WellFormed(t) /\ ColumnOK(column[s], t) /\ SlotsOf(t) \subseteq Slot /\ Slot \subseteq Nat
  BY SlotsAreSlots DEF StoresOK
<1>2. /\ i \in LiveSlots(t) /\ i \in SlotsOf(t) /\ ValueOf(s, i) \in Value \cup {NoValue}
      /\ \A w \in Value : Has(s, i, w) <=> w = ValueOf(s, i)
  BY ValidHolds
<1>3. /\ ColumnOK(c, t) /\ c.kind = column[s].kind /\ getProperty(c, i) = v
      /\ \A j \in SlotsOf(t) \ {i} : getProperty(c, j) = getProperty(column[s], j)
  BY <1>1, <1>2, SetValueDoes
<1>4. nodes' = [nodes EXCEPT ![s] = t] /\ column' = [column EXCEPT ![s] = c]
  BY DEF StoresOK
<1>5. LiveSlots(t) \subseteq SlotsOf(t)
  BY DEF LiveSlots
<1> HIDE DEF c, t
<1> QED  BY <1>1, <1>2, <1>3, <1>4, <1>5, ShardRewrites DEF t

\* NodeDeleteProperty, and the handlers whose JSON was refused.
LEMMA DeleteRewrites ==
    ASSUME StoresOK, NEW s \in Shard, NEW i \in Slot, ValidNodeId(nodes[s], i),
           nodes' = nodes, column' = [column EXCEPT ![s] = deleteProperty(@, i)]
    PROVE  Rewrites(s, i, ValueOf(s, i), NoValue)
<1> DEFINE t == nodes[s]
           c == deleteProperty(column[s], i)
<1>1. WellFormed(t) /\ ColumnOK(column[s], t) /\ Slot \subseteq Nat
  BY SlotsAreSlots DEF StoresOK
<1>2. /\ ValueOf(s, i) \in Value \cup {NoValue}
      /\ \A w \in Value : Has(s, i, w) <=> w = ValueOf(s, i)
  BY ValidHolds
<1>3. /\ ColumnOK(c, t) /\ c.kind = column[s].kind /\ getProperty(c, i) = NoValue
      /\ \A j \in Nat \ {i} : getProperty(c, j) = getProperty(column[s], j)
  BY <1>1, DeletePropertyDoes
<1>4. nodes' = [nodes EXCEPT ![s] = t] /\ column' = [column EXCEPT ![s] = c]
  BY DEF StoresOK
<1>5. NoValue \notin Value
  BY PropertyColumnsAssumption
<1> HIDE DEF c, t
<1>6. \A j \in Slot \ {i} : \/ j \in LiveSlots(t) /\ j \in LiveSlots(nodes[s])
                               /\ getProperty(c, j) = getProperty(column[s], j)
                            \/ j \notin LiveSlots(t) /\ j \notin LiveSlots(nodes[s])
  BY <1>1, <1>3 DEF t
<1>7. \A w \in Value : i \in LiveSlots(t) /\ getProperty(c, i) = w <=> w = NoValue
  BY <1>3, <1>5
<1> QED  BY <1>1, <1>2, <1>3, <1>4, <1>6, <1>7, ShardRewrites

\* NodeResetPropertiesFromJson deletes the property and sets it when the object names it.
LEMMA ResetRewrites ==
    ASSUME StoresOK, NEW s \in Shard, NEW i \in Slot, ValidNodeId(nodes[s], i),
           NEW v \in Value \cup {NoValue}, nodes' = nodes,
           column' = [column EXCEPT ![s] = IF v = NoValue THEN deleteProperty(column[s], i)
                                           ELSE setValue(deleteProperty(column[s], i), i, v)]
    PROVE  Rewrites(s, i, ValueOf(s, i), v)
<1> DEFINE t == nodes[s]
           b == deleteProperty(column[s], i)
           c == setValue(b, i, v)
<1>1. /\ WellFormed(t) /\ ColumnOK(column[s], t) /\ SlotsOf(t) \subseteq Slot /\ Slot \subseteq Nat
      /\ LiveSlots(t) \subseteq SlotsOf(t)
  BY SlotsAreSlots DEF StoresOK
<1>2. /\ i \in LiveSlots(t) /\ i \in SlotsOf(t) /\ ValueOf(s, i) \in Value \cup {NoValue}
      /\ \A w \in Value : Has(s, i, w) <=> w = ValueOf(s, i)
  BY ValidHolds
<1>3. /\ ColumnOK(b, t) /\ b.kind = column[s].kind /\ getProperty(b, i) = NoValue
      /\ \A j \in Nat \ {i} : getProperty(b, j) = getProperty(column[s], j)
  BY <1>1, DeletePropertyDoes
<1>4. nodes' = [nodes EXCEPT ![s] = t]
  BY DEF StoresOK
<1>5. NoValue \notin Value
  BY PropertyColumnsAssumption
<1>6. CASE v = NoValue
  <2>1. column' = [column EXCEPT ![s] = b]
    BY <1>6
  <2> HIDE DEF b, t
  <2>2. \A j \in Slot \ {i} : \/ j \in LiveSlots(t) /\ j \in LiveSlots(nodes[s])
                                 /\ getProperty(b, j) = getProperty(column[s], j)
                              \/ j \notin LiveSlots(t) /\ j \notin LiveSlots(nodes[s])
    BY <1>1, <1>3 DEF t
  <2>3. \A w \in Value : i \in LiveSlots(t) /\ getProperty(b, i) = w <=> w = v
    BY <1>3, <1>5, <1>6
  <2> QED  BY <1>1, <1>2, <1>3, <1>4, <2>1, <2>2, <2>3, ShardRewrites
<1>7. CASE v # NoValue
  <2>1. column' = [column EXCEPT ![s] = c] /\ v \in Value
    BY <1>7
  <2>2. /\ ColumnOK(c, t) /\ c.kind = b.kind /\ getProperty(c, i) = v
        /\ \A j \in SlotsOf(t) \ {i} : getProperty(c, j) = getProperty(b, j)
    <3> HIDE DEF b, t
    <3> QED  BY <1>1, <1>2, <1>3, <2>1, SetValueDoes
  <2> HIDE DEF b, t, c
  <2>3. \A j \in SlotsOf(t) \ {i} : getProperty(c, j) = getProperty(column[s], j)
    BY <1>1, <1>3, <2>2
  <2>4. \A j \in Slot \ {i} : \/ j \in LiveSlots(t) /\ j \in LiveSlots(nodes[s])
                                 /\ getProperty(c, j) = getProperty(column[s], j)
                              \/ j \notin LiveSlots(t) /\ j \notin LiveSlots(nodes[s])
    BY <1>1, <2>3 DEF t
  <2>5. \A w \in Value : i \in LiveSlots(t) /\ getProperty(c, i) = w <=> w = v
    BY <1>2, <2>2
  <2> QED  BY <1>1, <1>2, <1>3, <1>4, <2>1, <2>2, <2>4, <2>5, ShardRewrites
<1> QED  BY <1>6, <1>7

\* RemoveNode frees the slot and deletes its property.
LEMMA RemoveRewrites ==
    ASSUME StoresOK, NEW s \in Shard, NEW i \in Slot, ValidNodeId(nodes[s], i),
           nodes' = [nodes EXCEPT ![s] = NodeRemove(@, i)],
           column' = [column EXCEPT ![s] = deleteProperty(@, i)]
    PROVE  Rewrites(s, i, ValueOf(s, i), NoValue)
<1> DEFINE t == nodes[s]
           u == NodeRemove(t, i)
           c == deleteProperty(column[s], i)
<1>1. WellFormed(t) /\ ColumnOK(column[s], t) /\ Slot \subseteq Nat
  BY SlotsAreSlots DEF StoresOK
<1>2. /\ i \in LiveSlots(t) /\ ValueOf(s, i) \in Value \cup {NoValue}
      /\ \A w \in Value : Has(s, i, w) <=> w = ValueOf(s, i)
  BY ValidHolds
<1>3. /\ ColumnOK(c, t) /\ c.kind = column[s].kind
      /\ \A j \in Nat \ {i} : getProperty(c, j) = getProperty(column[s], j)
  BY <1>1, DeletePropertyDoes
<1>4. /\ WellFormed(u) /\ SlotsOf(u) = SlotsOf(t) /\ LiveSlots(u) = LiveSlots(t) \ {i}
      /\ Len(u.keys) = Len(t.keys)
  BY <1>1, <1>2, NodeRemoveDoes
<1>5. nodes' = [nodes EXCEPT ![s] = u] /\ column' = [column EXCEPT ![s] = c]
  BY DEF StoresOK
<1>6. NoValue \notin Value
  BY PropertyColumnsAssumption
<1> HIDE DEF c, u, t
<1>7. ColumnOK(c, u)
  BY <1>3, <1>4 DEF ColumnOK
<1>8. \A j \in Slot \ {i} : \/ j \in LiveSlots(u) /\ j \in LiveSlots(nodes[s])
                               /\ getProperty(c, j) = getProperty(column[s], j)
                            \/ j \notin LiveSlots(u) /\ j \notin LiveSlots(nodes[s])
  BY <1>1, <1>3, <1>4 DEF t
<1>9. \A w \in Value : i \in LiveSlots(u) /\ getProperty(c, i) = w <=> w = NoValue
  BY <1>4, <1>6
<1> QED  BY <1>2, <1>3, <1>4, <1>5, <1>7, <1>8, <1>9, ShardRewrites

\* NodeAdd takes a slot no node has, deletes what the column holds there and sets the value.
AddsAt(s, k, v, i) ==
    /\ i = NextSlot(nodes[s])
    /\ nodes[s].keyToNodeId[k] = NoSlot /\ HasRoom(nodes[s])
    /\ nodes' = [nodes EXCEPT ![s] = NodeAdd(@, k)]
    /\ column' = [column EXCEPT ![s] = IF v = NoValue THEN deleteProperty(column[s], i)
                                       ELSE setValue(deleteProperty(column[s], i), i, v)]

LEMMA AddRewrites ==
    ASSUME StoresOK, NEW s \in Shard, NEW k \in Key, NEW v \in Value \cup {NoValue},
           NEW i, AddsAt(s, k, v, i)
    PROVE  /\ Rewrites(s, i, NoValue, v)
           /\ getNodeProperty(NodeAdd(nodes[s], k), column'[s], i) = v
<1> USE DEF AddsAt
<1> DEFINE t == nodes[s]
           u == NodeAdd(t, k)
           b == deleteProperty(column[s], i)
           c == IF v = NoValue THEN b ELSE setValue(b, i, v)
<1>1. WellFormed(t) /\ ColumnOK(column[s], t) /\ Slot \subseteq Nat
  BY SlotsAreSlots DEF StoresOK
<1>2. /\ WellFormed(u) /\ i \in Slot /\ i \notin LiveSlots(t)
      /\ SlotsOf(u) = SlotsOf(t) \cup {i} /\ LiveSlots(u) = LiveSlots(t) \cup {i}
      /\ Len(t.keys) <= Len(u.keys) /\ ValidNodeId(u, i)
  BY <1>1, NodeAddDoes
<1>3. /\ ColumnOK(b, t) /\ b.kind = column[s].kind /\ getProperty(b, i) = NoValue /\ i \in b.gone
      /\ \A j \in Nat \ {i} : getProperty(b, j) = getProperty(column[s], j)
  BY <1>1, <1>2, DeletePropertyDoes
<1>4. nodes' = [nodes EXCEPT ![s] = u] /\ column' = [column EXCEPT ![s] = c] /\ column'[s] = c
  BY DEF StoresOK
<1>5. NoValue \notin Value
  BY PropertyColumnsAssumption
<1>6. i \in SlotsOf(u) /\ SlotsOf(u) \subseteq Slot /\ LiveSlots(u) \subseteq SlotsOf(u)
  BY <1>2, SlotsAreSlots
<1> HIDE DEF b, u, t, AddsAt
<1>7. ColumnOK(b, u)
  <2>1. Len(b.vec) <= Len(t.keys) /\ Len(t.keys) <= Len(u.keys)
    BY <1>2, <1>3 DEF ColumnOK
  <2>2. Len(b.vec) \in Nat /\ Len(t.keys) \in Nat /\ Len(u.keys) \in Nat
    BY <1>1, <1>2, <1>3 DEF ColumnOK, WellFormed, NodeType
  <2>3. Len(b.vec) <= Len(u.keys)
    BY <2>1, <2>2
  <2> QED  BY <1>2, <1>3, <2>3 DEF ColumnOK
<1>8. /\ ColumnOK(c, u) /\ c.kind = b.kind /\ getProperty(c, i) = v
      /\ \A j \in SlotsOf(u) \ {i} : getProperty(c, j) = getProperty(b, j)
  <2>1. CASE v = NoValue
    BY <1>3, <1>7, <2>1
  <2>2. CASE v # NoValue
    <3>0. v \in Value
      BY <2>2
    <3>1. c = setValue(b, i, v)
      BY <2>2
    <3>2. /\ ColumnOK(setValue(b, i, v), u) /\ setValue(b, i, v).kind = b.kind
          /\ getProperty(setValue(b, i, v), i) = v
          /\ \A j \in SlotsOf(u) \ {i} : getProperty(setValue(b, i, v), j) = getProperty(b, j)
      BY <1>2, <1>6, <1>7, <3>0, SetValueDoes
    <3> HIDE DEF c
    <3> QED  BY <3>1, <3>2
  <2> QED  BY <2>1, <2>2
<1> HIDE DEF c
<1>9. \A j \in Slot \ {i} : \/ j \in LiveSlots(u) /\ j \in LiveSlots(nodes[s])
                               /\ getProperty(c, j) = getProperty(column[s], j)
                            \/ j \notin LiveSlots(u) /\ j \notin LiveSlots(nodes[s])
  BY <1>1, <1>2, <1>3, <1>6, <1>8 DEF t
<1>10. \A w \in Value : i \in LiveSlots(u) /\ getProperty(c, i) = w <=> w = v
  BY <1>2, <1>8
<1>11. \A w \in Value : Has(s, i, w) <=> w = NoValue
  BY <1>2, <1>5 DEF Has, t
<1>12. Rewrites(s, i, NoValue, v)
  <2>1. c.kind = column[s].kind
    BY <1>3, <1>8
  <2> QED  BY <1>2, <1>4, <1>8, <1>9, <1>10, <1>11, <2>1, ShardRewrites
<1> QED  BY <1>2, <1>4, <1>8, <1>12 DEF getNodeProperty, u, t

-----------------------------------------------------------------------------
(* What the writing handlers do to the index *)

\* From net to then the index was told that slot i of shard s holds new instead of old.
Changes(kind, net, then, s, i, old, new) ==
    /\ NetOK(then)
    /\ SamePresence(net, then)
    /\ \A e \in Entry : <<e[2], e[3]>> # <<s, i>> =>
          /\ Due(kind, then, e) = Due(kind, net, e)
          /\ CountIn(then, Home[e[1]], e) = CountIn(net, Home[e[1]], e)
    /\ \A v \in Value :
          Due(kind, then, <<v, s, i>>) =
              LET rest == IF v = old THEN Removed(Due(kind, net, <<v, s, i>>)) ELSE Due(kind, net, <<v, s, i>>)
              IN  IF v = new THEN Inserted(kind, rest) ELSE rest
    /\ \A t \in Shard, j \in Slot : <<t, j>> # <<s, i>> /\ Quiet(net, t, j) => Quiet(then, t, j)
    /\ \A k : AllSteered(k, net) => AllSteered(k, then)

LEMMA NothingChanges ==
    ASSUME NEW net, NetOK(net), NEW s \in Shard, NEW i \in Slot, NEW kind
    PROVE  Changes(kind, net, net, s, i, NoValue, NoValue)
BY PropertyColumnsAssumption DEF Changes, SamePresence

LEMMA RemoveChanges ==
    ASSUME NEW net, NetOK(net), NEW s \in Shard, NEW i \in Slot, NEW old \in Value \cup {NoValue},
           net.index[s] # NoIndex
    PROVE  Changes(KindOf, net, Tell(net, "remove", s, i, old), s, i, old, NoValue)
<1>1. CASE old = NoValue
  BY <1>1, NothingChanges DEF Tell
<1>2. CASE old # NoValue
  <2> DEFINE then == Tell(net, "remove", s, i, old)
  <2>1. old \in Value
    BY <1>2
  <2>2. Tells1(KindOf, net, then, "remove", <<old, s, i>>)
    BY <2>1, TellDoes
  <2> HIDE DEF then
  <2>3. \A v \in Value : <<v, s, i>> \in Entry /\ <<old, s, i>>[2] = s /\ <<old, s, i>>[3] = i
                         /\ (<<v, s, i>> = <<old, s, i>> <=> v = old)
    BY DEF Entry
  <2>4. \A e \in Entry : <<e[2], e[3]>> # <<s, i>> => e # <<old, s, i>>
    OBVIOUS
  <2>5. NoValue \notin Value
    BY PropertyColumnsAssumption
  <2>6. \A v \in Value : Due(KindOf, then, <<v, s, i>>) =
            IF v = old THEN Removed(Due(KindOf, net, <<v, s, i>>)) ELSE Due(KindOf, net, <<v, s, i>>)
    BY <2>2, <2>3 DEF Tells1
  <2>7. NetOK(then) /\ SamePresence(net, then) /\ \A k : AllSteered(k, net) => AllSteered(k, then)
    BY <2>2 DEF Tells1
  <2>8. \A t \in Shard, j \in Slot : <<t, j>> # <<s, i>> /\ Quiet(net, t, j) => Quiet(then, t, j)
    BY <2>2, <2>3 DEF Tells1
  <2>9. \A e \in Entry : <<e[2], e[3]>> # <<s, i>> =>
            /\ Due(KindOf, then, e) = Due(KindOf, net, e)
            /\ CountIn(then, Home[e[1]], e) = CountIn(net, Home[e[1]], e)
    BY <2>2, <2>4 DEF Tells1
  <2>10. Changes(KindOf, net, then, s, i, old, NoValue)
    BY <2>5, <2>6, <2>7, <2>8, <2>9 DEF Changes
  <2> QED  BY <2>10 DEF then
<1> QED  BY <1>1, <1>2

LEMMA InsertChanges ==
    ASSUME NEW net, NetOK(net), NEW s \in Shard, NEW i \in Slot, NEW new \in Value \cup {NoValue},
           net.index[s] # NoIndex
    PROVE  Changes(KindOf, net, Tell(net, "insert", s, i, new), s, i, NoValue, new)
<1>1. CASE new = NoValue
  BY <1>1, NothingChanges DEF Tell
<1>2. CASE new # NoValue
  <2> DEFINE then == Tell(net, "insert", s, i, new)
  <2>1. new \in Value
    BY <1>2
  <2>2. Tells1(KindOf, net, then, "insert", <<new, s, i>>)
    BY <2>1, TellDoes
  <2> HIDE DEF then
  <2>3. \A v \in Value : <<v, s, i>> \in Entry /\ <<new, s, i>>[2] = s /\ <<new, s, i>>[3] = i
                         /\ (<<v, s, i>> = <<new, s, i>> <=> v = new)
    BY DEF Entry
  <2>4. \A e \in Entry : <<e[2], e[3]>> # <<s, i>> => e # <<new, s, i>>
    OBVIOUS
  <2>5. NoValue \notin Value
    BY PropertyColumnsAssumption
  <2>6. \A v \in Value : Due(KindOf, then, <<v, s, i>>) =
            IF v = new THEN Inserted(KindOf, Due(KindOf, net, <<v, s, i>>)) ELSE Due(KindOf, net, <<v, s, i>>)
    BY <2>2, <2>3 DEF Tells1
  <2>7. NetOK(then) /\ SamePresence(net, then) /\ \A k : AllSteered(k, net) => AllSteered(k, then)
    BY <2>2 DEF Tells1
  <2>8. \A t \in Shard, j \in Slot : <<t, j>> # <<s, i>> /\ Quiet(net, t, j) => Quiet(then, t, j)
    BY <2>2, <2>3 DEF Tells1
  <2>9. \A e \in Entry : <<e[2], e[3]>> # <<s, i>> =>
            /\ Due(KindOf, then, e) = Due(KindOf, net, e)
            /\ CountIn(then, Home[e[1]], e) = CountIn(net, Home[e[1]], e)
    BY <2>2, <2>4 DEF Tells1
  <2>10. Changes(KindOf, net, then, s, i, NoValue, new)
    BY <2>5, <2>6, <2>7, <2>8, <2>9 DEF Changes
  <2> QED  BY <2>10 DEF then
<1> QED  BY <1>1, <1>2

\* The removal of the old entry and the insertion of the new one.
LEMMA ReplaceChanges ==
    ASSUME NEW net, NetOK(net), NEW s \in Shard, NEW i \in Slot,
           NEW old \in Value \cup {NoValue}, NEW new \in Value \cup {NoValue}, net.index[s] # NoIndex
    PROVE  Changes(KindOf, net, Tell(Tell(net, "remove", s, i, old), "insert", s, i, new), s, i, old, new)
<1> DEFINE mid == Tell(net, "remove", s, i, old)
           then == Tell(mid, "insert", s, i, new)
<1>1. Changes(KindOf, net, mid, s, i, old, NoValue)
  BY RemoveChanges
<1> HIDE DEF mid
<1>2. NetOK(mid) /\ mid.index[s] # NoIndex
  BY <1>1 DEF Changes, SamePresence
<1>3. Changes(KindOf, mid, then, s, i, NoValue, new)
  BY <1>2, InsertChanges
<1> HIDE DEF then
<1>4. NoValue \notin Value
  BY PropertyColumnsAssumption
<1>5. ASSUME NEW v \in Value
      PROVE  Due(KindOf, then, <<v, s, i>>) =
                 LET rest == IF v = old THEN Removed(Due(KindOf, net, <<v, s, i>>))
                             ELSE Due(KindOf, net, <<v, s, i>>)
                 IN  IF v = new THEN Inserted(KindOf, rest) ELSE rest
  <2>1. v # NoValue
    BY <1>4
  <2>2. Due(KindOf, mid, <<v, s, i>>) =
            IF v = old THEN Removed(Due(KindOf, net, <<v, s, i>>)) ELSE Due(KindOf, net, <<v, s, i>>)
    BY <1>1, <2>1 DEF Changes
  <2>3. Due(KindOf, then, <<v, s, i>>) =
            IF v = new THEN Inserted(KindOf, Due(KindOf, mid, <<v, s, i>>)) ELSE Due(KindOf, mid, <<v, s, i>>)
    BY <1>3, <2>1 DEF Changes
  <2> QED  BY <2>2, <2>3
<1>6. SamePresence(net, then)
  BY <1>1, <1>3 DEF Changes, SamePresence
<1>7. \A e \in Entry : <<e[2], e[3]>> # <<s, i>> =>
          /\ Due(KindOf, then, e) = Due(KindOf, net, e)
          /\ CountIn(then, Home[e[1]], e) = CountIn(net, Home[e[1]], e)
  BY <1>1, <1>3 DEF Changes
<1>8. \A t \in Shard, j \in Slot : <<t, j>> # <<s, i>> /\ Quiet(net, t, j) => Quiet(then, t, j)
  BY <1>1, <1>3 DEF Changes
<1>9. NetOK(then) /\ \A k : AllSteered(k, net) => AllSteered(k, then)
  BY <1>1, <1>3 DEF Changes
<1> QED  BY <1>5, <1>6, <1>7, <1>8, <1>9 DEF Changes, then, mid

-----------------------------------------------------------------------------
(* The invariant through a step that leaves an entry as it was *)

LEMMA InvariantFacts ==
    ASSUME IInv, NEW v \in Value, NEW s \in Shard, NEW i \in Slot
    PROVE  /\ EntryOK(v, s, i) /\ <<v, s, i>> \in Entry
           /\ Due(KindOf, Net, <<v, s, i>>) \in Nat
           /\ Net.index = index /\ Net.channel = channel
<1>1. <<v, s, i>> \in Entry
  BY DEF Entry
<1> QED  BY <1>1, DueNat DEF IInv, EntriesOK, Net

\* While the index is kept, the home of a value a filled shard holds has its part.
LEMMA FilledMeansPresent ==
    ASSUME TaskOK, Kept, NEW s \in Shard, s \in filled
    PROVE  \A h \in Shard : index[h] # NoIndex
<1>1. CASE task = Idle
  BY <1>1 DEF TaskOK, Present
<1>2. CASE task # Idle
  <2>1. task.phase \in {"create", "fill"} /\ task.ok \in BOOLEAN
    BY <1>2 DEF TaskOK, Kept
  <2> QED  BY <2>1 DEF TaskOK, Present
<1> QED  BY <1>1, <1>2

\* What a step must leave alone for an entry to stay as the invariant wants it.
Undisturbed(v, s, i) ==
    /\ KindOf' = KindOf
    /\ s \in filled' <=> s \in filled
    /\ <<s, i>> \in leftover' <=> <<s, i>> \in leftover
    /\ <<s, i>> \in missed => <<s, i>> \in missed'
    /\ <<s, i>> \in misled => <<s, i>> \in misled'
    /\ <<s, i>> \in early => <<s, i>> \in early'
    /\ index'[s] = NoIndex => index[s] = NoIndex
    /\ Has(s, i, v)' <=> Has(s, i, v)
    /\ Quiet(Net, s, i) => Quiet(Net', s, i)
    /\ NetOK(Net')
    /\ Kept' =>
          /\ Kept
          /\ Quiet(Net, s, i) => CountIn(Net', Home[v], <<v, s, i>>) = CountIn(Net, Home[v], <<v, s, i>>)
          /\ Due(KindOf, Net', <<v, s, i>>) <= Due(KindOf, Net, <<v, s, i>>)
          /\ s \in filled => Due(KindOf, Net', <<v, s, i>>) = Due(KindOf, Net, <<v, s, i>>)

LEMMA UndisturbedKeeps ==
    ASSUME IInv, NEW v \in Value, NEW s \in Shard, NEW i \in Slot, Undisturbed(v, s, i)
    PROVE  EntryOK(v, s, i)'
<1> DEFINE due == Due(KindOf, Net, <<v, s, i>>)
           due2 == Due(KindOf, Net', <<v, s, i>>)
           count == CountIn(Net, Home[v], <<v, s, i>>)
           count2 == CountIn(Net', Home[v], <<v, s, i>>)
<1>1. EntryOK(v, s, i) /\ due \in Nat /\ due2 \in Nat
  BY InvariantFacts, DueNat DEF Undisturbed
<1>2. Quiet(Net, s, i) => due = count
  <2>1. <<v, s, i>> \in Entry /\ NetOK(Net)
    BY InvariantFacts DEF IInv
  <2>2. <<v, s, i>>[1] = v /\ <<v, s, i>>[2] = s /\ <<v, s, i>>[3] = i
    OBVIOUS
  <2>3. ASSUME Quiet(Net, s, i) PROVE due = CountIn(Net, Home[<<v, s, i>>[1]], <<v, s, i>>)
    BY <2>1, <2>2, <2>3, QuietDue
  <2> QED  BY <2>2, <2>3
<1>3. /\ Unheard(s, i)' => Unheard(s, i)
      /\ Quiet(Net, s, i) => Quiet(Net', s, i)
      /\ Kept' => Kept /\ (Quiet(Net, s, i) => count2 = count) /\ due2 <= due
                  /\ (s \in filled => due2 = due)
  BY DEF Undisturbed, Unheard
<1>4. /\ Unheard(s, i) => Quiet(Net, s, i)
      /\ Unheard(s, i) /\ Kept => count = 0
      /\ s \in filled /\ Kept /\ Has(s, i, v) /\ <<s, i>> \notin missed \cup misled => due > 0
      /\ /\ index[s] # NoIndex /\ Kept /\ <<s, i>> \notin misled \cup leftover
         /\ KindOf = "string" \/ <<s, i>> \notin early
         => due <= (IF Has(s, i, v) THEN 1 ELSE 0)
  BY <1>1 DEF EntryOK
<1> HIDE DEF due, due2, count, count2
<1>5. s \in filled' /\ Kept' /\ Has(s, i, v)' /\ <<s, i>> \notin missed' \cup misled' => due2 > 0
  BY <1>1, <1>3, <1>4 DEF Undisturbed
<1>6. /\ index'[s] # NoIndex /\ Kept' /\ <<s, i>> \notin misled' \cup leftover'
      /\ KindOf' = "string" \/ <<s, i>> \notin early'
      => due2 <= (IF Has(s, i, v)' THEN 1 ELSE 0)
  <2>1. SUFFICES ASSUME /\ index'[s] # NoIndex /\ Kept' /\ <<s, i>> \notin misled' \cup leftover'
                        /\ KindOf' = "string" \/ <<s, i>> \notin early'
                 PROVE  due2 <= (IF Has(s, i, v)' THEN 1 ELSE 0)
    OBVIOUS
  <2>2. Kept /\ due2 <= due /\ <<s, i>> \notin misled \cup leftover /\ (Has(s, i, v)' <=> Has(s, i, v))
        /\ (KindOf = "string" \/ <<s, i>> \notin early)
    BY <1>3, <2>1 DEF Undisturbed
  <2>3. CASE index[s] # NoIndex
    <3>1. due <= (IF Has(s, i, v) THEN 1 ELSE 0)
      BY <1>4, <2>2, <2>3
    <3> QED  BY <1>1, <2>2, <3>1
  <2>4. CASE index[s] = NoIndex
    <3>1. Unheard(s, i)
      BY <2>2, <2>4 DEF Unheard
    <3>2. due = 0
      BY <1>2, <1>4, <2>2, <3>1
    <3> QED  BY <1>1, <2>2, <3>2
  <2> QED  BY <2>3, <2>4
<1>7. KindOf' = KindOf
  BY DEF Undisturbed
<1>8. /\ Unheard(s, i)' => Quiet(Net', s, i)
      /\ Unheard(s, i)' /\ Kept' => count2 = 0
  BY <1>3, <1>4
<1> QED  BY <1>5, <1>6, <1>7, <1>8 DEF EntryOK, due2, count2

-----------------------------------------------------------------------------
(* The invariant through a handler that writes *)

\* The slots that are not written stay as they were.
LEMMA OthersUndisturbed ==
    ASSUME IInv, NEW s \in Shard, NEW i, NEW old, NEW new, Rewrites(s, i, old, new),
           NEW w, Changes(KindOf, Net, Net', s, i, old, w) \/ Net' = Net,
           NEW told, Writes(s, i, told), misled \subseteq misled',
           NEW v \in Value, NEW t \in Shard, NEW j \in Slot, <<t, j>> # <<s, i>>
    PROVE  Undisturbed(v, t, j)
<1>1. <<v, t, j>> \in Entry /\ <<v, t, j>>[1] = v /\ <<v, t, j>>[2] = t /\ <<v, t, j>>[3] = j
  BY DEF Entry
<1>2. /\ NetOK(Net') /\ (Net'.index[t] = NoIndex <=> Net.index[t] = NoIndex)
      /\ Due(KindOf, Net', <<v, t, j>>) = Due(KindOf, Net, <<v, t, j>>)
      /\ CountIn(Net', Home[v], <<v, t, j>>) = CountIn(Net, Home[v], <<v, t, j>>)
      /\ Quiet(Net, t, j) => Quiet(Net', t, j)
  <2>1. CASE Net' = Net
    BY <2>1 DEF IInv
  <2>2. CASE Changes(KindOf, Net, Net', s, i, old, w)
    <3>1. <<<<v, t, j>>[2], <<v, t, j>>[3]>> # <<s, i>>
      BY <1>1
    <3>2. /\ Due(KindOf, Net', <<v, t, j>>) = Due(KindOf, Net, <<v, t, j>>)
          /\ CountIn(Net', Home[<<v, t, j>>[1]], <<v, t, j>>) = CountIn(Net, Home[<<v, t, j>>[1]], <<v, t, j>>)
      BY <1>1, <2>2, <3>1 DEF Changes
    <3>3. /\ NetOK(Net') /\ (Net'.index[t] = NoIndex <=> Net.index[t] = NoIndex)
          /\ Quiet(Net, t, j) => Quiet(Net', t, j)
      BY <2>2 DEF Changes, SamePresence
    <3> QED  BY <1>1, <3>2, <3>3
  <2> QED  BY <2>1, <2>2
<1>3. Due(KindOf, Net, <<v, t, j>>) \in Nat
  BY InvariantFacts
<1>4. index'[t] = NoIndex <=> index[t] = NoIndex
  BY <1>2 DEF Net
<1>5. KindOf' = KindOf /\ (Has(t, j, v)' <=> Has(t, j, v))
  BY DEF Rewrites
<1>6. /\ task' = task /\ filled' = filled /\ leftover' = leftover
      /\ <<t, j>> \in missed => <<t, j>> \in missed'
      /\ <<t, j>> \in early => <<t, j>> \in early'
  BY DEF Writes
<1>7. Due(KindOf, Net', <<v, t, j>>) <= Due(KindOf, Net, <<v, t, j>>)
  BY <1>2, <1>3
<1> QED  BY <1>2, <1>4, <1>5, <1>6, <1>7 DEF Undisturbed, Kept

LEMMA WriteKeeps ==
    ASSUME IInv, NEW s \in Shard, NEW i, NEW old, NEW new, Rewrites(s, i, old, new),
           NEW w, Changes(KindOf, Net, Net', s, i, old, w) \/ Net' = Net,
           NEW told, Writes(s, i, told), misled \subseteq misled',
           \A v \in Value : EntryOK(v, s, i)'
    PROVE  IInv'
<1>1. StoresOK'
  BY DEF Rewrites
<1>2. NetOK(Net') /\ AllSteered(task, Net') /\ SamePresence(Net, Net')
  BY DEF Changes, IInv, SamePresence
<1>3. task' = task /\ filled' = filled
  BY DEF Writes
<1>4. TaskOK'
  <2>1. Present' = Present
    BY <1>2 DEF Present, Net, SamePresence
  <2> QED  BY <1>3, <2>1 DEF IInv, TaskOK
<1>5. EntriesOK'
  <2>1. ASSUME NEW v \in Value, NEW t \in Shard, NEW j \in Slot PROVE EntryOK(v, t, j)'
    <3>1. CASE <<t, j>> = <<s, i>>
      BY <3>1
    <3>2. CASE <<t, j>> # <<s, i>>
      BY <3>2, OthersUndisturbed, UndisturbedKeeps
    <3> QED  BY <3>1, <3>2
  <2> QED  BY <2>1 DEF EntriesOK
<1> QED  BY <1>1, <1>2, <1>3, <1>4, <1>5 DEF IInv

\* The index was told of the change, or is on record as not told of the new value.
LEMMA ToldKeeps ==
    ASSUME IInv, NEW s \in Shard, NEW i, NEW old, NEW new, Rewrites(s, i, old, new),
           index[s] # NoIndex, NEW w, Changes(KindOf, Net, Net', s, i, old, w),
           w = new \/ <<s, i>> \in misled', misled \subseteq misled',
           NEW told, Writes(s, i, told)
    PROVE  IInv'
<1>1. SUFFICES ASSUME NEW v \in Value PROVE EntryOK(v, s, i)'
  BY WriteKeeps
<1> DEFINE due == Due(KindOf, Net, <<v, s, i>>)
           due2 == Due(KindOf, Net', <<v, s, i>>)
<1>2. i \in Slot /\ KindOf' = KindOf /\ (Has(s, i, v) <=> v = old) /\ (Has(s, i, v)' <=> v = new)
  BY DEF Rewrites
<1>3. index'[s] # NoIndex
  BY DEF Changes, SamePresence, Net
<1>4. /\ task' = task /\ filled' = filled /\ leftover' = leftover
      /\ s \notin filled => <<s, i>> \in early'
      /\ <<s, i>> \in early => <<s, i>> \in early'
  BY DEF Writes
<1>5. ~Unheard(s, i)'
  BY <1>3, <1>4 DEF Unheard
<1>6. due \in Nat /\ EntryOK(v, s, i)
  BY <1>2, InvariantFacts
<1>7. due2 = IF v = w THEN Inserted(KindOf, IF v = old THEN Removed(due) ELSE due)
             ELSE IF v = old THEN Removed(due) ELSE due
  BY DEF Changes
<1>8. Kept /\ <<s, i>> \notin misled \cup leftover /\ (KindOf = "string" \/ <<s, i>> \notin early)
         => due <= (IF v = old THEN 1 ELSE 0)
  BY <1>2, <1>6 DEF EntryOK
<1>9. Kept' <=> Kept
  BY <1>4 DEF Kept
<1> HIDE DEF due, due2
<1>10. due2 \in Nat
  BY <1>6, <1>7 DEF Inserted, Removed
<1>11. v = w => due2 > 0
  BY <1>6, <1>7 DEF Inserted, Removed
<1>12. due <= (IF v = old THEN 1 ELSE 0) => due2 <= (IF v = w THEN 1 ELSE 0)
  <2>1. SUFFICES ASSUME due <= (IF v = old THEN 1 ELSE 0) PROVE due2 <= (IF v = w THEN 1 ELSE 0)
    OBVIOUS
  <2>2. (IF v = old THEN Removed(due) ELSE due) = 0
    BY <1>6, <2>1 DEF Removed
  <2> QED  BY <1>7, <2>2 DEF Inserted
<1>13. <<s, i>> \notin misled' => w = new /\ <<s, i>> \notin misled
  OBVIOUS
<1>14. s \in filled' /\ Kept' /\ Has(s, i, v)' /\ <<s, i>> \notin missed' \cup misled' => due2 > 0
  BY <1>2, <1>11, <1>13
<1>15. /\ index'[s] # NoIndex /\ Kept' /\ <<s, i>> \notin misled' \cup leftover'
       /\ KindOf' = "string" \/ <<s, i>> \notin early'
       => due2 <= (IF Has(s, i, v)' THEN 1 ELSE 0)
  BY <1>2, <1>4, <1>8, <1>9, <1>12, <1>13
<1> QED  BY <1>2, <1>5, <1>14, <1>15 DEF EntryOK, due2

\* The index has nothing to be told, or is on record as not told.
LEMMA UntoldKeeps ==
    ASSUME IInv, NEW s \in Shard, NEW i, NEW old, NEW new, Rewrites(s, i, old, new),
           Net' = Net, misled \subseteq misled', NEW told, Writes(s, i, told),
           \/ index[s] = NoIndex
           \/ <<s, i>> \in misled'
           \/ old = new /\ (~told \/ new = NoValue)
    PROVE  IInv'
<1>1. SUFFICES ASSUME NEW v \in Value PROVE EntryOK(v, s, i)'
  BY WriteKeeps
<1> DEFINE due == Due(KindOf, Net, <<v, s, i>>)
<1>2. i \in Slot /\ KindOf' = KindOf /\ (Has(s, i, v) <=> v = old) /\ (Has(s, i, v)' <=> v = new)
  BY DEF Rewrites
<1>3. index' = index
  BY DEF Net
<1>4. /\ task' = task /\ filled' = filled /\ leftover' = leftover
      /\ <<s, i>> \in early => <<s, i>> \in early'
      /\ ~told => missed' = missed
  BY DEF Writes
<1>5. due \in Nat /\ EntryOK(v, s, i)
  BY <1>2, InvariantFacts
<1>6. Kept' <=> Kept
  BY <1>4 DEF Kept
<1>7. Unheard(s, i)' => Unheard(s, i)
  BY <1>3, <1>4, <1>6 DEF Unheard
<1>8. NoValue \notin Value
  BY PropertyColumnsAssumption
<1>9. Kept /\ s \in filled => index[s] # NoIndex
  BY FilledMeansPresent DEF IInv
<1> HIDE DEF due
<1>10. s \in filled' /\ Kept' /\ Has(s, i, v)' /\ <<s, i>> \notin missed' \cup misled' => due > 0
  <2>1. SUFFICES ASSUME s \in filled, Kept, v = new, <<s, i>> \notin missed', <<s, i>> \notin misled'
                 PROVE  due > 0
    BY <1>2, <1>4, <1>6
  <2>2. old = new /\ ~told
    BY <1>8, <1>9, <2>1
  <2>3. Has(s, i, v) /\ <<s, i>> \notin missed \cup misled
    BY <1>2, <1>4, <2>1, <2>2
  <2> QED  BY <1>5, <2>1, <2>3 DEF EntryOK, due
<1>11. /\ index'[s] # NoIndex /\ Kept' /\ <<s, i>> \notin misled' \cup leftover'
       /\ KindOf' = "string" \/ <<s, i>> \notin early'
       => due <= (IF Has(s, i, v)' THEN 1 ELSE 0)
  <2>1. SUFFICES ASSUME index[s] # NoIndex, Kept, <<s, i>> \notin misled', <<s, i>> \notin leftover,
                        KindOf = "string" \/ <<s, i>> \notin early
                 PROVE  due <= (IF v = new THEN 1 ELSE 0)
    BY <1>2, <1>3, <1>4, <1>6
  <2>2. old = new /\ <<s, i>> \notin misled
    BY <2>1
  <2>3. due <= (IF Has(s, i, v) THEN 1 ELSE 0)
    BY <1>5, <2>1, <2>2 DEF EntryOK, due
  <2> QED  BY <1>2, <2>2, <2>3
<1>12. /\ Unheard(s, i)' => Quiet(Net, s, i)
       /\ Unheard(s, i)' /\ Kept' => CountIn(Net, Home[v], <<v, s, i>>) = 0
  BY <1>5, <1>6, <1>7 DEF EntryOK
<1> QED  BY <1>2, <1>10, <1>11, <1>12 DEF EntryOK, due

\* NetBecomes puts a whole net in place.
LEMMA NetIsWhole ==
    ASSUME NEW net \in NetType, NetBecomes(net)
    PROVE  Net' = net
BY DEF NetBecomes, Net, NetType

\* The handlers that take the old entry out and put the new one in when they differ.
LEMMA ReindexedKeeps ==
    ASSUME IInv, NEW s \in Shard, NEW i, NEW old, NEW new, Rewrites(s, i, old, new),
           Tells(Reindexed(s, i, old, new)), NEW told, Writes(s, i, told),
           old = new => ~told \/ new = NoValue
    PROVE  IInv'
<1>1. NetOK(Net) /\ Net.index = index /\ misled' = misled
  BY DEF IInv, Net, Tells
<1>2. i \in Slot /\ old \in Value \cup {NoValue} /\ new \in Value \cup {NoValue}
  BY DEF Rewrites
<1>3. CASE index[s] = NoIndex \/ old = new
  <2>1. Net' = Net
    BY <1>1, <1>3, NetIsWhole DEF Tells, Reindexed, NetOK
  <2>2. index[s] = NoIndex \/ (old = new /\ (~told \/ new = NoValue))
    BY <1>3
  <2>3. misled \subseteq misled'
    BY <1>1
  <2> QED  BY <2>1, <2>2, <2>3, UntoldKeeps
<1>4. CASE ~(index[s] = NoIndex \/ old = new)
  <2> DEFINE then == Tell(Tell(Net, "remove", s, i, old), "insert", s, i, new)
  <2>1. Changes(KindOf, Net, then, s, i, old, new)
    BY <1>1, <1>2, <1>4, ReplaceChanges
  <2>2. NetBecomes(then)
    BY <1>4 DEF Tells, Reindexed
  <2> HIDE DEF then
  <2>3. Net' = then
    BY <2>1, <2>2, NetIsWhole DEF Changes, NetOK
  <2>4. Changes(KindOf, Net, Net', s, i, old, new)
    BY <2>1, <2>3
  <2> QED  BY <1>1, <1>4, <2>4, ToldKeeps
<1> QED  BY <1>3, <1>4

\* The handlers that answer FALSE to JSON.
LEMMA RefusedKeeps ==
    ASSUME IInv, NEW s \in Shard, NEW i, NEW old, NEW new, Rewrites(s, i, old, new),
           TellsNothing(s, i), NEW told, Writes(s, i, told)
    PROVE  IInv'
<1>1. Net' = Net
  BY DEF TellsNothing, Net
<1> QED  BY <1>1, UntoldKeeps DEF TellsNothing

\* NodeResetPropertiesFromJson.
LEMMA ResetKeeps ==
    ASSUME IInv, NEW s \in Shard, NEW i \in Slot, NEW json \in Json,
           NodeResetPropertiesFromJson(s, i, json)
    PROVE  IInv'
<1> DEFINE old == ValueOf(s, i)
           new == json.value
           taken == Tell(Net, "remove", s, i, old)
           placed == Tell(taken, "insert", s, i, new)
<1>1. NetOK(Net) /\ Net.index = index
  BY DEF IInv, Net
<1>2. new \in Value \cup {NoValue}
  BY DEF Json
<1>3. Rewrites(s, i, old, new)
  <2>1. StoresOK
    BY DEF IInv
  <2> QED  BY <1>2, <2>1, ResetRewrites DEF NodeResetPropertiesFromJson
<1>4. Writes(s, i, TRUE)
  BY DEF NodeResetPropertiesFromJson
<1>5. old \in Value \cup {NoValue}
  BY <1>3 DEF Rewrites
<1>6. CASE index[s] = NoIndex
  <2>1. NetBecomes(Net) /\ misled' = misled
    BY <1>6 DEF NodeResetPropertiesFromJson, Tells
  <2>2. Net' = Net
    BY <1>1, <2>1, NetIsWhole DEF NetOK
  <2> QED  BY <1>3, <1>4, <1>6, <2>1, <2>2, UntoldKeeps
<1>7. CASE index[s] # NoIndex /\ json.others
  <2>1. NetBecomes(taken) /\ misled' = misled \cup {<<s, i>>}
    BY <1>7 DEF NodeResetPropertiesFromJson
  <2>2. Changes(KindOf, Net, taken, s, i, old, NoValue)
    BY <1>1, <1>5, <1>7, RemoveChanges
  <2> HIDE DEF taken
  <2>3. Net' = taken
    BY <2>1, <2>2, NetIsWhole DEF Changes, NetOK
  <2>4. Changes(KindOf, Net, Net', s, i, old, NoValue)
    BY <2>2, <2>3
  <2> QED  BY <1>3, <1>4, <1>7, <2>1, <2>4, ToldKeeps
<1>8. CASE index[s] # NoIndex /\ ~json.others
  <2>1. NetBecomes(placed) /\ misled' = misled
    BY <1>8 DEF NodeResetPropertiesFromJson, Tells
  <2>2. Changes(KindOf, Net, placed, s, i, old, new)
    BY <1>1, <1>2, <1>5, <1>8, ReplaceChanges
  <2> HIDE DEF placed
  <2>3. Net' = placed
    BY <2>1, <2>2, NetIsWhole DEF Changes, NetOK
  <2>4. Changes(KindOf, Net, Net', s, i, old, new)
    BY <2>2, <2>3
  <2> QED  BY <1>3, <1>4, <1>8, <2>1, <2>4, ToldKeeps
<1> QED  BY <1>6, <1>7, <1>8

\* Every handler of shard/Node.cpp keeps the invariant.
LEMMA WritesKeep ==
    ASSUME IInv, Write
    PROVE  IInv'
<1>1. StoresOK
  BY DEF IInv
<1>2. PICK s \in Shard :
        \/ \E k \in Key, v \in Value \cup {NoValue} : NodeAddToShard(s, k, v)
        \/ \E i \in Slot : RemoveNode(s, i) \/ NodeDeleteProperty(s, i) \/ NodeSetPropertyRefused(s, i)
        \/ \E i \in Slot, v \in Value : NodeSetProperty(s, i, v)
        \/ \E i \in Slot, json \in Json :
              NodeSetPropertiesFromJson(s, i, json) \/ NodeResetPropertiesFromJson(s, i, json)
  BY DEF Write
<1>3. ASSUME NEW k \in Key, NEW v \in Value \cup {NoValue}, NodeAddToShard(s, k, v) PROVE IInv'
  <2> DEFINE i == NextSlot(nodes[s])
  <2>1. /\ nodes[s].keyToNodeId[k] = NoSlot /\ HasRoom(nodes[s])
        /\ nodes' = [nodes EXCEPT ![s] = NodeAdd(@, k)]
        /\ column' = [column EXCEPT ![s] = IF v = NoValue THEN deleteProperty(column[s], i)
                                           ELSE setValue(deleteProperty(column[s], i), i, v)]
        /\ Tells(Reindexed(s, i, NoValue, getNodeProperty(NodeAdd(nodes[s], k), column'[s], i)))
        /\ Writes(s, i, TRUE)
    BY <1>3 DEF NodeAddToShard
  <2>4. i = NextSlot(nodes[s])
    OBVIOUS
  <2> HIDE DEF i
  <2>2. Rewrites(s, i, NoValue, v) /\ getNodeProperty(NodeAdd(nodes[s], k), column'[s], i) = v
    <3>1. AddsAt(s, k, v, i)
      BY <2>1, <2>4, Zenon DEF AddsAt
    <3> QED  BY <1>1, <3>1, AddRewrites
  <2>3. Tells(Reindexed(s, i, NoValue, v))
    BY <2>1, <2>2, Zenon
  <2> QED  BY <2>1, <2>2, <2>3, ReindexedKeeps
<1>4. ASSUME NEW i \in Slot, RemoveNode(s, i) PROVE IInv'
  <2>1. Rewrites(s, i, ValueOf(s, i), NoValue)
    BY <1>1, <1>4, RemoveRewrites DEF RemoveNode
  <2>2. Tells(Reindexed(s, i, ValueOf(s, i), NoValue)) /\ Writes(s, i, TRUE)
    BY <1>4 DEF RemoveNode
  <2> QED  BY <2>1, <2>2, ReindexedKeeps
<1>5. ASSUME NEW i \in Slot, NodeDeleteProperty(s, i) PROVE IInv'
  <2>1. Rewrites(s, i, ValueOf(s, i), NoValue)
    BY <1>1, <1>5, DeleteRewrites DEF NodeDeleteProperty
  <2>2. Tells(Reindexed(s, i, ValueOf(s, i), NoValue)) /\ Writes(s, i, TRUE)
    BY <1>5 DEF NodeDeleteProperty
  <2> QED  BY <2>1, <2>2, ReindexedKeeps
<1>6. ASSUME NEW i \in Slot, NodeSetPropertyRefused(s, i) PROVE IInv'
  <2>1. Rewrites(s, i, ValueOf(s, i), NoValue)
    BY <1>1, <1>6, DeleteRewrites DEF NodeSetPropertyRefused
  <2>2. TellsNothing(s, i) /\ Writes(s, i, TRUE)
    BY <1>6 DEF NodeSetPropertyRefused
  <2> QED  BY <2>1, <2>2, RefusedKeeps
<1>7. ASSUME NEW i \in Slot, NEW v \in Value, NodeSetProperty(s, i, v) PROVE IInv'
  <2>1. Rewrites(s, i, ValueOf(s, i), v)
    BY <1>1, <1>7, SetRewrites DEF NodeSetProperty
  <2>2. Tells(Reindexed(s, i, ValueOf(s, i), v)) /\ Writes(s, i, ValueOf(s, i) # v)
    BY <1>7 DEF NodeSetProperty
  <2> QED  BY <2>1, <2>2, ReindexedKeeps
<1>8. ASSUME NEW i \in Slot, NEW json \in Json, NodeSetPropertiesFromJson(s, i, json) PROVE IInv'
  <2> DEFINE v == json.value
  <2>1. v \in Value
    BY <1>8 DEF NodeSetPropertiesFromJson, Json
  <2>2. Rewrites(s, i, ValueOf(s, i), v)
    BY <1>1, <1>8, <2>1, SetRewrites DEF NodeSetPropertiesFromJson
  <2>3. /\ Writes(s, i, ValueOf(s, i) # v)
        /\ IF json.others THEN TellsNothing(s, i) ELSE Tells(Reindexed(s, i, ValueOf(s, i), v))
    BY <1>8 DEF NodeSetPropertiesFromJson
  <2> HIDE DEF v
  <2>4. CASE json.others
    BY <2>2, <2>3, <2>4, RefusedKeeps
  <2>5. CASE ~json.others
    BY <2>2, <2>3, <2>5, ReindexedKeeps
  <2> QED  BY <2>4, <2>5
<1>9. ASSUME NEW i \in Slot, NEW json \in Json, NodeResetPropertiesFromJson(s, i, json) PROVE IInv'
  BY <1>9, ResetKeeps
<1> QED  BY <1>2, <1>3, <1>4, <1>5, <1>6, <1>7, <1>8, <1>9

-----------------------------------------------------------------------------
(* The invariant through the steps that do not write *)

LEMMA StoresStay ==
    ASSUME StoresOK, nodes' = nodes, column' = column
    PROVE  /\ StoresOK' /\ KindOf' = KindOf
           /\ \A v \in Value, s \in Shard, i \in Slot : Has(s, i, v)' <=> Has(s, i, v)
BY DEF StoresOK, KindOf, Has

LEMMA NetTyped ==
    ASSUME NetOK(Net)
    PROVE  /\ index \in [Shard -> PropertyIndex \cup {NoIndex}]
           /\ channel \in [Shard -> [Shard -> Seq(Message)]]
           /\ Net \in NetType /\ Net.index = index /\ Net.channel = channel
BY DEF NetOK, NetType, Net

LEMMA AskedTyped ==
    ASSUME NetOK(Net), NEW c \in Shard, NEW op \in {"create", "fill", "delete"}
    PROVE  [index |-> index, channel |-> Asked(c, op)] \in NetType
<1> DEFINE m == [op |-> op]
           row == [e \in Shard |-> IF e = c THEN channel[c][c] ELSE Append(channel[c][e], m)]
<1>1. m \in Message
  BY DEF Message
<1>2. \A d \in Shard : channel[d] \in [Shard -> Seq(Message)] /\ \A e \in Shard : channel[d][e] \in Seq(Message)
  BY NetTyped
<1>3. row \in [Shard -> Seq(Message)]
  <2>1. ASSUME NEW e \in Shard PROVE Append(channel[c][e], m) \in Seq(Message)
    <3> DEFINE messages == channel[c][e]
    <3>1. messages \in Seq(Message)
      BY <1>2
    <3> HIDE DEF messages, m
    <3>2. Append(messages, m) \in Seq(Message)
      BY <1>1, <3>1
    <3> QED  BY <3>2 DEF messages
  <2> HIDE DEF m
  <2> QED  BY <1>2, <2>1
<1>4. Asked(c, op) = [d \in Shard |-> IF d # c THEN channel[d] ELSE row]
  BY DEF Asked
<1> HIDE DEF row
<1>5. Asked(c, op) \in [Shard -> [Shard -> Seq(Message)]]
  BY <1>2, <1>3, <1>4
<1> QED  BY <1>5, NetTyped DEF NetType

LEMMA RestTyped ==
    ASSUME NetOK(Net), NEW s \in Shard, NEW d \in Shard, channel[s][d] # <<>>
    PROVE  Rest(s, d) \in [Shard -> [Shard -> Seq(Message)]]
<1> DEFINE messages == channel[s][d]
           row == [channel[s] EXCEPT ![d] = Tail(messages)]
<1>1. messages \in Seq(Message) /\ channel[s] \in [Shard -> Seq(Message)]
  BY NetTyped
<1>2. Tail(messages) \in Seq(Message)
  <2>1. messages # <<>>
    OBVIOUS
  <2> HIDE DEF messages
  <2> QED  BY <1>1, <2>1
<1>3. Rest(s, d) = [channel EXCEPT ![s] = row]
  BY DEF Rest
<1> HIDE DEF messages
<1>4. row \in [Shard -> Seq(Message)]
  BY <1>1, <1>2
<1> HIDE DEF row
<1> QED  BY <1>3, <1>4, NetTyped

\* The head of the queue from s to d is taken.
LEMMA DeliverTakes ==
    ASSUME NetOK(Net), NEW s \in Shard, NEW d \in Shard, channel[s][d] # <<>>,
           NEW then, then.index \in [Shard -> PropertyIndex \cup {NoIndex}], then.channel = Rest(s, d),
           then = [index |-> then.index, channel |-> then.channel]
    PROVE  Takes(Net, then, s, d)
<1>1. Rest(s, d) \in [Shard -> [Shard -> Seq(Message)]]
  BY RestTyped
<1>2. then \in NetType
  BY <1>1 DEF NetType
<1>3. Net.channel = channel
  BY NetTyped
<1> QED  BY <1>2, <1>3 DEF Takes, Rest

LEMMA SameDuesFor ==
    ASSUME NEW net, NEW then, NEW kind, SameDues(kind, net, then),
           NEW v \in Value, NEW s \in Shard, NEW i \in Slot
    PROVE  /\ Due(kind, then, <<v, s, i>>) = Due(kind, net, <<v, s, i>>)
           /\ CountIn(then, Home[v], <<v, s, i>>) = CountIn(net, Home[v], <<v, s, i>>)
           /\ Quiet(net, s, i) => Quiet(then, s, i)
<1>1. <<v, s, i>> \in Entry /\ <<v, s, i>>[1] = v
  BY DEF Entry
<1> QED  BY <1>1 DEF SameDues

\* A step of the creation that changes nothing an entry depends on.
LEMMA SameDuesKeep ==
    ASSUME IInv, nodes' = nodes, column' = column, Kept, filled' = filled,
           missed' = missed, early' = early, misled' = misled, leftover' = leftover,
           \A d \in Shard : index'[d] = NoIndex => index[d] = NoIndex,
           NetOK(Net'), SameDues(KindOf, Net, Net')
    PROVE  EntriesOK'
<1>1. SUFFICES ASSUME NEW v \in Value, NEW s \in Shard, NEW i \in Slot PROVE EntryOK(v, s, i)'
  BY DEF EntriesOK
<1>2. KindOf' = KindOf /\ (Has(s, i, v)' <=> Has(s, i, v))
  BY StoresStay DEF IInv
<1>3. /\ Due(KindOf, Net', <<v, s, i>>) = Due(KindOf, Net, <<v, s, i>>)
      /\ CountIn(Net', Home[v], <<v, s, i>>) = CountIn(Net, Home[v], <<v, s, i>>)
      /\ Quiet(Net, s, i) => Quiet(Net', s, i)
  BY SameDuesFor
<1>4. Due(KindOf, Net, <<v, s, i>>) \in Nat
  BY InvariantFacts
<1>5. Due(KindOf, Net', <<v, s, i>>) <= Due(KindOf, Net, <<v, s, i>>)
  BY <1>3, <1>4
<1>6. Undisturbed(v, s, i)
  BY <1>2, <1>3, <1>5 DEF Undisturbed
<1> QED  BY <1>6, UndisturbedKeeps

\* Once no part is left the next index starts from nothing.
LEMMA GoneKeeps ==
    ASSUME IInv, task.phase = "delete", Present = {}, filled' = {}, UNCHANGED <<index, channel, leftover>>
    PROVE  EntriesOK'
<1>1. SUFFICES ASSUME NEW v \in Value, NEW s \in Shard, NEW i \in Slot PROVE EntryOK(v, s, i)'
  BY DEF EntriesOK
<1>2. \A d \in Shard : index'[d] = NoIndex /\ index[d] = NoIndex
  BY DEF Present
<1>3. Net' = Net
  BY DEF Net
<1>4. Unheard(s, i)' => Unheard(s, i)
  BY <1>2 DEF Unheard
<1>5. Unheard(s, i) => Quiet(Net, s, i)
  BY InvariantFacts DEF EntryOK
<1>6. Home[v] \in Shard
  BY PropertyIndexesAssumption
<1>7. CountIn(Net, Home[v], <<v, s, i>>) = 0
  BY <1>2, <1>6 DEF CountIn, Net
<1> QED  BY <1>2, <1>3, <1>4, <1>5, <1>7 DEF EntryOK

\* The part of shard d goes while the index is being deleted.
LEMMA DeletedKeeps ==
    ASSUME IInv, NEW d \in Shard, Deleted(d), task'.phase = "delete",
           \A s \in Shard, i \in Slot : Quiet(Net, s, i) => Quiet(Net', s, i)
    PROVE  EntriesOK'
<1>1. SUFFICES ASSUME NEW v \in Value, NEW s \in Shard, NEW i \in Slot PROVE EntryOK(v, s, i)'
  BY DEF EntriesOK
<1>2. ~Kept'
  BY DEF Kept
<1>3. Unheard(s, i)' => Quiet(Net, s, i)
  <2>1. SUFFICES ASSUME <<s, i>> \notin leftover', index'[s] = NoIndex PROVE Quiet(Net, s, i)
    BY <1>2 DEF Unheard
  <2>2. CASE s = d
    <3>1. i \notin Travelling(d)
      BY <2>1, <2>2 DEF Deleted
    <3> QED  BY <2>2, <3>1 DEF Travelling, Quiet, IsWrite, Net
  <2>3. CASE s # d
    <3>1. index[s] = NoIndex
      BY <2>1, <2>3, NetTyped DEF Deleted, IInv
    <3>2. <<s, i>> \notin leftover
      <4>1. <<s, i>> \in leftover => <<s, i>> \in leftover'
        BY <2>3 DEF Deleted
      <4> QED  BY <2>1, <4>1
    <3>3. Unheard(s, i)
      BY <3>1, <3>2 DEF Unheard
    <3> QED  BY <3>3, InvariantFacts DEF EntryOK
  <2> QED  BY <2>2, <2>3
<1> QED  BY <1>2, <1>3 DEF EntryOK

LEMMA FillReadsColumns ==
    ASSUME StoresOK, NEW d \in Shard
    PROVE  /\ FillReads(d)
           /\ \A v \in Value, i \in Slot : FillEntry(d, <<v, d, i>>) => Has(d, i, v)
           /\ \A v \in Value, i \in Slot : i \in FillSlots(d) /\ Has(d, i, v) => FillEntry(d, <<v, d, i>>)
<1>1. ASSUME NEW i \in FillSlots(d) PROVE i \in Slot /\ ValidNodeId(nodes[d], i)
  BY SlotsAreSlots DEF FillSlots, StoresOK
<1>2. NoValue \notin Value
  BY PropertyColumnsAssumption
<1>3. ASSUME NEW i \in Slot PROVE ValueOf(d, i) \in Value \cup {NoValue}
  <2>1. CASE ValidNodeId(nodes[d], i)
    BY <2>1, ValidHolds
  <2>2. CASE ~ValidNodeId(nodes[d], i)
    BY <2>2 DEF ValueOf, getNodeProperty
  <2> QED  BY <2>1, <2>2
<1>4. ASSUME NEW v \in Value, NEW i \in Slot, i \in FillSlots(d) PROVE Has(d, i, v) <=> v = ValueOf(d, i)
  BY <1>1, <1>4, ValidHolds
<1>5. \A v \in Value, i \in Slot : FillEntry(d, <<v, d, i>>) <=> i \in FillSlots(d) /\ ValueOf(d, i) = v
  BY DEF FillEntry
<1> QED  BY <1>1, <1>3, <1>4, <1>5 DEF FillReads

\* Shard d puts its nodes into the index.
LEMMA FilledKeeps ==
    ASSUME IInv, nodes' = nodes, column' = column, NEW d \in Shard, index[d] # NoIndex, d \notin filled,
           Kept, Kept', NEW net, NetOK(net), net.index = index, SameDues(KindOf, Net, net),
           NetBecomes(Fill(net, d)), Filled(d), UNCHANGED <<early, misled, leftover>>
    PROVE  /\ Net' = Fill(net, d) /\ NetOK(Net') /\ SamePresence(Net, Net')
           /\ EntriesOK'
<1>1. StoresOK /\ FillReads(d)
  BY FillReadsColumns DEF IInv
<1>2. /\ NetOK(Fill(net, d)) /\ SamePresence(net, Fill(net, d))
      /\ \A e \in Entry :
            Due(KindOf, Fill(net, d), e) = IF FillEntry(d, e) THEN Inserted(KindOf, Due(KindOf, net, e))
                                           ELSE Due(KindOf, net, e)
      /\ \A e \in Entry : e[2] # d =>
            CountIn(Fill(net, d), Home[e[1]], e) = CountIn(net, Home[e[1]], e)
      /\ \A s \in Shard, i \in Slot : s # d /\ Quiet(net, s, i) => Quiet(Fill(net, d), s, i)
  BY <1>1, FillDoes
<1>3. Net' = Fill(net, d)
  BY <1>2, NetIsWhole DEF NetOK
<1>4. NetOK(Net') /\ SamePresence(Net, Net')
  BY <1>2, <1>3 DEF SamePresence, Net
<1>5. \A h \in Shard : index'[h] = NoIndex <=> index[h] = NoIndex
  BY <1>4 DEF SamePresence, Net
<1>6. ASSUME NEW v \in Value, NEW s \in Shard, NEW i \in Slot PROVE EntryOK(v, s, i)'
  <2> DEFINE e == <<v, s, i>>
             due == Due(KindOf, Net, e)
             due2 == Due(KindOf, Net', e)
  <2>1. e \in Entry /\ e[1] = v /\ e[2] = s
    BY DEF Entry
  <2>2. /\ Due(KindOf, net, e) = due
        /\ CountIn(net, Home[v], e) = CountIn(Net, Home[v], e)
        /\ Quiet(Net, s, i) => Quiet(net, s, i)
    BY SameDuesFor
  <2>3. due2 = IF FillEntry(d, e) THEN Inserted(KindOf, due) ELSE due
    BY <1>2, <1>3, <2>1, <2>2
  <2>4. due \in Nat /\ EntryOK(v, s, i)
    BY InvariantFacts
  <2>5. KindOf' = KindOf /\ (Has(s, i, v)' <=> Has(s, i, v))
    BY <1>1, StoresStay
  <2>6. CASE s # d
    <3>1. ~FillEntry(d, e)
      BY <2>1, <2>6 DEF FillEntry
    <3>2. due2 = due /\ due2 <= due
      BY <2>3, <2>4, <3>1
    <3>3. Quiet(Net, s, i) => Quiet(Net', s, i)
      BY <1>2, <1>3, <2>2, <2>6
    <3>4. CountIn(Net', Home[v], e) = CountIn(Net, Home[v], e)
      BY <1>2, <1>3, <2>1, <2>2, <2>6
    <3>5. (s \in filled' <=> s \in filled) /\ (<<s, i>> \in missed => <<s, i>> \in missed')
      BY <2>6 DEF Filled
    <3> HIDE DEF e
    <3>6. Undisturbed(v, s, i)
      BY <1>4, <1>5, <2>5, <3>2, <3>3, <3>4, <3>5 DEF Undisturbed, e
    <3> QED  BY <3>6, UndisturbedKeeps
  <2>7. CASE s = d
    <3>1. s \in filled' /\ index'[s] # NoIndex /\ ~Unheard(s, i)'
      BY <1>5, <2>7 DEF Filled, Unheard
    <3>2. FillEntry(d, e) => Has(s, i, v)
      BY <1>1, <2>7, FillReadsColumns
    <3>3. i \in FillSlots(d) /\ Has(s, i, v) => FillEntry(d, e)
      BY <1>1, <2>7, FillReadsColumns
    <3>4. Has(s, i, v) /\ <<s, i>> \notin missed' => i \in FillSlots(d)
      BY <2>7 DEF Has, Filled, FillSlots, LiveSlots
    <3>5. \/ <<s, i>> \in leftover \/ <<s, i>> \in early
          \/ due = 0
      <4>1. SUFFICES ASSUME <<s, i>> \notin leftover, <<s, i>> \notin early PROVE due = 0
        OBVIOUS
      <4>2. Unheard(s, i)
        BY <2>7, <4>1 DEF Unheard
      <4>3. Quiet(Net, s, i) /\ CountIn(Net, Home[v], e) = 0
        BY <2>4, <4>2 DEF EntryOK
      <4>4. e[3] = i /\ NetOK(Net)
        BY DEF IInv
      <4>5. Quiet(Net, e[2], e[3])
        BY <2>1, <4>3, <4>4
      <4> HIDE DEF e
      <4> QED  BY <2>1, <4>3, <4>4, <4>5, QuietDue
    <3>6. /\ index[s] # NoIndex /\ Kept /\ <<s, i>> \notin misled \cup leftover
          /\ KindOf = "string" \/ <<s, i>> \notin early
          => due <= (IF Has(s, i, v) THEN 1 ELSE 0)
      BY <2>4 DEF EntryOK
    <3> HIDE DEF due, due2, e
    <3>7. s \in filled' /\ Kept' /\ Has(s, i, v)' /\ <<s, i>> \notin missed' \cup misled' => due2 > 0
      BY <2>3, <2>4, <2>5, <3>3, <3>4 DEF Inserted
    <3>8. /\ index'[s] # NoIndex /\ Kept' /\ <<s, i>> \notin misled' \cup leftover'
          /\ KindOf' = "string" \/ <<s, i>> \notin early'
          => due2 <= (IF Has(s, i, v)' THEN 1 ELSE 0)
      <4>1. SUFFICES ASSUME <<s, i>> \notin misled \cup leftover, KindOf = "string" \/ <<s, i>> \notin early
                     PROVE  due2 <= (IF Has(s, i, v) THEN 1 ELSE 0)
        BY <2>5
      <4>2. due <= (IF Has(s, i, v) THEN 1 ELSE 0)
        BY <2>7, <3>6, <4>1
      <4>3. CASE FillEntry(d, e)
        <5>1. due2 = 1
          BY <2>3, <3>5, <4>1, <4>3 DEF Inserted
        <5> QED  BY <3>2, <4>3, <5>1
      <4>4. CASE ~FillEntry(d, e)
        BY <2>3, <4>2, <4>4
      <4> QED  BY <4>3, <4>4
    <3> QED  BY <2>5, <3>1, <3>7, <3>8 DEF EntryOK, due2, e
  <2> QED  BY <2>6, <2>7
<1> QED  BY <1>3, <1>4, <1>6 DEF EntriesOK

-----------------------------------------------------------------------------
(* Creating, filling and deleting keep the invariant *)

LEMMA CreatePeeredKeeps ==
    ASSUME IInv, NEW c \in Shard, NodeIndexCreatePeered(c)
    PROVE  IInv'
<1> DEFINE net == [index |-> index, channel |-> Asked(c, "create")]
<1>1. /\ task = Idle /\ index' = Created(index, c) /\ channel' = Asked(c, "create")
      /\ task' = [phase |-> "create", at |-> c, waiting |-> Shard \ {c}, ok |-> index[c] = NoIndex]
      /\ nodes' = nodes /\ column' = column /\ filled' = filled
      /\ missed' = missed /\ early' = early /\ misled' = misled /\ leftover' = leftover
  BY DEF NodeIndexCreatePeered
<1>2. NetOK(Net) /\ AllSteered(task, Net) /\ StoresOK /\ TaskOK
  BY DEF IInv
<1>3. task.phase = "idle" /\ Kept
  BY <1>1 DEF Idle, Kept
<1>4. OnlyWrites(Net)
  BY <1>2, <1>3, NoOrders
<1>5. task'.phase = "create" /\ task'.at = c /\ task'.waiting = Shard \ {c} /\ task'.ok = (index[c] = NoIndex)
  BY <1>1
<1>6. net \in NetType /\ net.index = Net.index /\ net.channel = Asked(c, "create") /\ Net.channel = channel
  BY <1>2, AskedTyped, NetTyped
<1> HIDE DEF net
<1>7. NetOK(net) /\ SameDues(KindOf, Net, net) /\ AllSteered(task', net)
  BY <1>2, <1>4, <1>5, <1>6, AskedDoes
<1>8. Net' \in NetType /\ Net'.index = Created(net.index, c) /\ Net'.channel = net.channel
  <2>1. EmptyIndex \in PropertyIndex
    BY DEF EmptyIndex, PropertyIndex
  <2>2. Created(index, c) \in [Shard -> PropertyIndex \cup {NoIndex}]
    BY <1>2, <2>1, NetTyped DEF Created
  <2> QED  BY <1>1, <1>2, <1>6, <2>2, NetTyped DEF Net, NetType
<1>9. /\ NetOK(Net') /\ SameDues(KindOf, net, Net') /\ AllSteered(task', Net')
      /\ Net'.index[c] # NoIndex /\ \A h \in Shard \ {c} : Net'.index[h] = net.index[h]
  BY <1>7, <1>8, CreatedDoes
<1>10. index'[c] # NoIndex /\ \A h \in Shard \ {c} : index'[h] = index[h]
  BY <1>6, <1>9 DEF Net
<1>11. SameDues(KindOf, Net, Net')
  BY <1>7, <1>9 DEF SameDues
<1>12. EntriesOK'
  <2>1. \A d \in Shard : index'[d] = NoIndex => index[d] = NoIndex
    BY <1>10
  <2> QED  BY <1>1, <1>3, <1>9, <1>11, <2>1, SameDuesKeep
<1>13. TaskOK'
  <2>1. Present = filled /\ filled \in {{}, Shard}
    BY <1>1, <1>2 DEF TaskOK
  <2>2. index[c] = NoIndex => Present' = Shard \ task'.waiting /\ filled' = {}
    BY <1>1, <1>5, <1>10, <2>1 DEF Present
  <2>3. index[c] # NoIndex => Present' = Shard /\ filled' = Shard
    BY <1>1, <1>10, <2>1 DEF Present
  <2>4. task' \in [phase : {"create", "fill", "delete"}, at : Shard, waiting : SUBSET Shard, ok : BOOLEAN]
    BY <1>1
  <2>5. task' # Idle
    BY <1>5 DEF Idle
  <2>6. filled' \subseteq Shard
    BY <1>1, <2>1
  <2> QED  BY <1>5, <2>2, <2>3, <2>4, <2>5, <2>6 DEF TaskOK
<1>14. StoresOK'
  BY <1>1, <1>2, StoresStay
<1> QED  BY <1>9, <1>12, <1>13, <1>14 DEF IInv

LEMMA DeletePeeredKeeps ==
    ASSUME IInv, NEW c \in Shard, NodeIndexDeletePeered(c)
    PROVE  IInv'
<1> DEFINE net == [index |-> index, channel |-> Asked(c, "delete")]
<1>1. /\ task = Idle /\ Deleted(c) /\ channel' = Asked(c, "delete")
      /\ task' = [phase |-> "delete", at |-> c, waiting |-> Shard \ {c}, ok |-> TRUE]
      /\ nodes' = nodes /\ column' = column
      /\ index' = [index EXCEPT ![c] = NoIndex] /\ filled' = filled \ {c}
  BY DEF NodeIndexDeletePeered, Deleted
<1>2. NetOK(Net) /\ AllSteered(task, Net) /\ StoresOK /\ TaskOK
  BY DEF IInv
<1>3. task.phase = "idle"
  BY <1>1 DEF Idle
<1>4. OnlyWrites(Net)
  BY <1>2, <1>3, NoOrders
<1>5. task'.phase = "delete" /\ task'.at = c /\ task'.waiting = Shard \ {c}
  BY <1>1
<1>6. net \in NetType /\ net.index = Net.index /\ net.channel = Asked(c, "delete") /\ Net.channel = channel
  BY <1>2, AskedTyped, NetTyped
<1> HIDE DEF net
<1>7. NetOK(net) /\ SameDues(KindOf, Net, net) /\ AllSteered(task', net)
  BY <1>2, <1>4, <1>5, <1>6, AskedDoes
<1>8. Net' \in NetType /\ Net'.index = [net.index EXCEPT ![c] = NoIndex] /\ Net'.channel = net.channel
  <2>1. index' \in [Shard -> PropertyIndex \cup {NoIndex}]
    BY <1>1, <1>2, NetTyped
  <2>2. Net'.index = index' /\ Net'.channel = channel' /\ Net' = [index |-> index', channel |-> channel']
    BY DEF Net
  <2>3. net.index = index /\ net.channel = channel' /\ channel' \in [Shard -> [Shard -> Seq(Message)]]
    BY <1>1, <1>2, <1>6, NetTyped DEF NetType
  <2> QED  BY <1>1, <2>1, <2>2, <2>3 DEF NetType
<1>9. /\ NetOK(Net') /\ AllSteered(task', Net')
      /\ \A s, i : Quiet(net, s, i) => Quiet(Net', s, i)
  BY <1>7, <1>8, DeletedDoes
<1>10. EntriesOK'
  <2>1. \A s \in Shard, i \in Slot : Quiet(Net, s, i) => Quiet(Net', s, i)
    BY <1>7, <1>9 DEF SameDues
  <2> QED  BY <1>1, <1>5, <2>1, DeletedKeeps
<1>11. TaskOK'
  <2>1. Present = filled /\ filled \subseteq Shard
    BY <1>1, <1>2 DEF TaskOK
  <2>2. Present' = Present \ {c}
    BY <1>1, <1>2, NetTyped DEF Present
  <2>3. task' \in [phase : {"create", "fill", "delete"}, at : Shard, waiting : SUBSET Shard, ok : BOOLEAN]
    BY <1>1
  <2>4. task' # Idle
    BY <1>5 DEF Idle
  <2>5. Present' \subseteq task'.waiting \ {task'.at} /\ filled' \subseteq Present' /\ filled' \subseteq Shard
    BY <1>1, <1>5, <2>1, <2>2
  <2> QED  BY <1>5, <2>3, <2>4, <2>5 DEF TaskOK
<1>12. StoresOK'
  BY <1>1, <1>2, StoresStay
<1> QED  BY <1>9, <1>10, <1>11, <1>12 DEF IInv

\* Without orders on their way no task is contradicted.
LEMMA NothingSteered ==
    ASSUME NEW net, OnlyWrites(net), NEW k
    PROVE  AllSteered(k, net)
BY DEF OnlyWrites, AllSteered, Steered

LEMMA FillPeeredKeeps ==
    ASSUME IInv, NodeIndexFillPeered
    PROVE  IInv'
<1> DEFINE c == task.at
<1>1. /\ task.phase = "create" /\ task.waiting = {} /\ Kept
      /\ nodes' = nodes /\ column' = column /\ early' = early /\ misled' = misled /\ leftover' = leftover
  BY DEF NodeIndexFillPeered, Kept
<1>2. NetOK(Net) /\ AllSteered(task, Net) /\ StoresOK /\ TaskOK
  BY DEF IInv
<1>3. /\ task # Idle /\ c \in Shard /\ task.ok \in BOOLEAN
      /\ task \in [phase : {"create", "fill", "delete"}, at : Shard, waiting : SUBSET Shard, ok : BOOLEAN]
  <2>1. task # Idle
    BY <1>1 DEF Idle
  <2> QED  BY <1>2, <2>1 DEF TaskOK
<1>4. OnlyWrites(Net)
  BY <1>1, <1>2, NoOrders
<1>5. StoresOK'
  BY <1>1, <1>2, StoresStay
<1>6. CASE task.ok
  <2> DEFINE net == [index |-> index, channel |-> Asked(c, "fill")]
  <2>1. /\ task' = [task EXCEPT !.phase = "fill", !.waiting = Shard \ {c}]
        /\ NetBecomes(Fill(net, c)) /\ Filled(c)
    BY <1>6 DEF NodeIndexFillPeered
  <2>2. /\ task'.phase = "fill" /\ task'.at = c /\ task'.waiting = Shard \ {c}
        /\ task' \in [phase : {"create", "fill", "delete"}, at : Shard, waiting : SUBSET Shard, ok : BOOLEAN]
    BY <1>3, <2>1
  <2>3. Present = Shard /\ filled = {}
    BY <1>1, <1>2, <1>6 DEF TaskOK
  <2>4. /\ net \in NetType /\ net.index = index /\ Net.index = index
        /\ net.channel = Asked(c, "fill") /\ Net.channel = channel
    BY <1>2, <1>3, AskedTyped, NetTyped
  <2> HIDE DEF net
  <2>5. NetOK(net) /\ SameDues(KindOf, Net, net) /\ AllSteered(task', net)
    BY <1>2, <1>3, <1>4, <2>2, <2>4, AskedDoes
  <2>6. index[c] # NoIndex /\ c \notin filled
    BY <1>3, <2>3 DEF Present
  <2>7. Kept'
    BY <2>2 DEF Kept
  <2>8. /\ Net' = Fill(net, c) /\ NetOK(Net') /\ SamePresence(Net, Net')
        /\ EntriesOK'
    <3> HIDE DEF c
    <3> QED  BY <1>1, <1>3, <2>1, <2>4, <2>5, <2>6, <2>7, FilledKeeps
  <2>9. AllSteered(task', Net')
    BY <1>2, <1>3, <2>4, <2>5, <2>6, <2>8, FillDoes, FillReadsColumns
  <2>10. TaskOK'
    <3>1. Present' = Present
      BY <2>8 DEF Present, SamePresence, Net
    <3>2. filled' = Shard \ task'.waiting
      BY <1>3, <2>1, <2>2, <2>3 DEF Filled
    <3>3. task' # Idle
      BY <2>2 DEF Idle
    <3> QED  BY <2>2, <2>3, <3>1, <3>2, <3>3 DEF TaskOK
  <2> QED  BY <1>5, <2>8, <2>9, <2>10 DEF IInv
<1>7. CASE ~task.ok
  <2>1. task' = Idle /\ index' = index /\ channel' = channel /\ filled' = filled /\ missed' = missed
    BY <1>7 DEF NodeIndexFillPeered
  <2>2. Net' = Net
    BY <2>1 DEF Net
  <2>3. EntriesOK'
    <3>1. SameDues(KindOf, Net, Net')
      BY <2>2 DEF SameDues
    <3> QED  BY <1>1, <1>2, <2>1, <2>2, <3>1, SameDuesKeep
  <2>4. TaskOK'
    <3>1. Present = Shard /\ filled = Shard
      BY <1>1, <1>2, <1>7 DEF TaskOK
    <3>2. Present' = Present /\ task'.phase = "idle"
      BY <2>1 DEF Present, Idle
    <3> QED  BY <2>1, <3>1, <3>2 DEF TaskOK
  <2> QED  BY <1>2, <1>4, <1>5, <2>2, <2>3, <2>4, NothingSteered DEF IInv
<1> QED  BY <1>3, <1>6, <1>7

LEMMA AnswerKeeps ==
    ASSUME IInv, NodeIndexAnswer
    PROVE  IInv'
<1>1. /\ task.phase \in {"fill", "delete"} /\ task.waiting = {} /\ task' = Idle
      /\ UNCHANGED <<nodes, column, index, channel, filled, missed, early, misled, leftover>>
  BY DEF NodeIndexAnswer
<1>2. NetOK(Net) /\ AllSteered(task, Net) /\ StoresOK /\ TaskOK
  BY DEF IInv
<1>3. OnlyWrites(Net)
  BY <1>1, <1>2, NoOrders
<1>4. Net' = Net /\ StoresOK'
  BY <1>1, <1>2, StoresStay DEF Net
<1>5. Present' = Present /\ task'.phase = "idle"
  BY <1>1 DEF Present, Idle
<1>6. CASE task.phase = "fill"
  <2>1. Present = Shard /\ filled = Shard
    BY <1>1, <1>2, <1>6 DEF TaskOK
  <2>2. TaskOK'
    BY <1>1, <1>5, <2>1 DEF TaskOK
  <2>3. EntriesOK'
    <3>1. SameDues(KindOf, Net, Net') /\ Kept
      BY <1>4, <1>6 DEF SameDues, Kept
    <3> QED  BY <1>1, <1>2, <1>4, <3>1, SameDuesKeep
  <2> QED  BY <1>2, <1>3, <1>4, <2>2, <2>3, NothingSteered DEF IInv
<1>7. CASE task.phase = "delete"
  <2>1. Present = {} /\ filled = {}
    BY <1>1, <1>2, <1>7 DEF TaskOK
  <2>2. TaskOK'
    BY <1>1, <1>5, <2>1 DEF TaskOK
  <2>3. EntriesOK'
    BY <1>1, <1>7, <2>1, GoneKeeps
  <2> QED  BY <1>2, <1>3, <1>4, <2>2, <2>3, NothingSteered DEF IInv
<1> QED  BY <1>1, <1>6, <1>7

-----------------------------------------------------------------------------
(* Handling a message keeps the invariant *)

LEMMA AppliedTyped ==
    ASSUME NEW x \in PropertyIndex \cup {NoIndex}, NEW m
    PROVE  Applied(x, m) \in PropertyIndex \cup {NoIndex}
<1>1. CASE x = NoIndex
  BY <1>1 DEF Applied
<1>2. CASE x # NoIndex
  <2>1. \A e \in Entry : x[e] \in Nat
    BY <1>2 DEF PropertyIndex
  <2>2. \A e \in Entry : Counted(KindOf, x[e], m, e) \in Nat
    BY <2>1, CountedNat
  <2>3. Applied(x, m) = [e \in Entry |-> Counted(KindOf, x[e], m, e)]
    BY <1>2 DEF Applied
  <2>4. [e \in Entry |-> Counted(KindOf, x[e], m, e)] \in PropertyIndex
    BY <2>2 DEF PropertyIndex
  <2> QED  BY <2>3, <2>4
<1> QED  BY <1>1, <1>2

\* NodeIndexInsert and NodeIndexRemove.
LEMMA DeliverEntryKeeps ==
    ASSUME IInv, NEW s \in Shard, NEW d \in Shard, channel[s][d] # <<>>,
           NEW m, m = Head(channel[s][d]), IsWrite(m),
           index' = [index EXCEPT ![d] = Applied(@, m)], channel' = Rest(s, d),
           UNCHANGED <<nodes, column, task, filled, missed, early, misled, leftover>>
    PROVE  IInv'
<1>1. NetOK(Net) /\ AllSteered(task, Net) /\ StoresOK /\ TaskOK
  BY DEF IInv
<1>2. Net.index = index /\ Net.channel = channel /\ index \in [Shard -> PropertyIndex \cup {NoIndex}]
  BY <1>1, NetTyped
<1>3. Net'.index = index' /\ Net'.channel = channel' /\ Net' = [index |-> index', channel |-> channel']
  BY DEF Net
<1>4. index' \in [Shard -> PropertyIndex \cup {NoIndex}]
  BY <1>2, AppliedTyped
<1>5. Takes(Net, Net', s, d)
  BY <1>1, <1>3, <1>4, DeliverTakes
<1>6. /\ NetOK(Net') /\ SamePresence(Net, Net')
      /\ \A e \in Entry : Net.index[Home[e[1]]] # NoIndex => Due(KindOf, Net', e) = Due(KindOf, Net, e)
      /\ \A e \in Entry : Due(KindOf, Net', e) <= Due(KindOf, Net, e)
      /\ \A e \in Entry : Quiet(Net, e[2], e[3]) =>
            CountIn(Net', Home[e[1]], e) = CountIn(Net, Home[e[1]], e)
  <2>1. Net'.index = [Net.index EXCEPT ![d] = Applied(@, Head(Net.channel[s][d]))]
    BY <1>2, <1>3
  <2>2. Enters(Net, Net', s, d)
    BY <1>2, <2>1 DEF Enters
  <2> QED  BY <1>1, <1>5, <2>2, ApplyDoes
<1>7. /\ \A t \in Shard, i \in Slot : Quiet(Net, t, i) => Quiet(Net', t, i)
      /\ AllSteered(task, Net')
  BY <1>1, <1>5, RestDoes
<1>8. StoresOK' /\ KindOf' = KindOf
  BY <1>1, StoresStay
<1>9. TaskOK'
  <2>1. Present' = Present
    BY <1>6 DEF Present, SamePresence, Net
  <2> QED  BY <1>1, <2>1 DEF TaskOK
<1>10. ASSUME NEW v \in Value, NEW t \in Shard, NEW i \in Slot PROVE EntryOK(v, t, i)'
  <2>1. <<v, t, i>> \in Entry /\ <<v, t, i>>[1] = v /\ <<v, t, i>>[2] = t /\ <<v, t, i>>[3] = i
    BY DEF Entry
  <2>2. Kept /\ t \in filled => index[Home[v]] # NoIndex
    BY <1>1, FilledMeansPresent, PropertyIndexesAssumption
  <2>3. Kept' <=> Kept
    BY DEF Kept
  <2>4. Has(t, i, v)' <=> Has(t, i, v)
    BY <1>1, StoresStay
  <2>5. index'[t] = NoIndex => index[t] = NoIndex
    BY <1>2, <1>3, <1>6 DEF SamePresence
  <2>6. Quiet(Net, t, i) => CountIn(Net', Home[v], <<v, t, i>>) = CountIn(Net, Home[v], <<v, t, i>>)
    BY <1>6, <2>1
  <2>7. /\ Due(KindOf, Net', <<v, t, i>>) <= Due(KindOf, Net, <<v, t, i>>)
        /\ Kept /\ t \in filled => Due(KindOf, Net', <<v, t, i>>) = Due(KindOf, Net, <<v, t, i>>)
    BY <1>2, <1>6, <2>1, <2>2
  <2>8. Undisturbed(v, t, i)
    BY <1>6, <1>7, <1>8, <2>3, <2>4, <2>5, <2>6, <2>7 DEF Undisturbed
  <2> QED  BY <2>8, UndisturbedKeeps
<1> QED  BY <1>6, <1>7, <1>8, <1>9, <1>10 DEF IInv, EntriesOK

\* An order of the task reaches shard d: the task goes on without it.
LEMMA OrderIsObeyed ==
    ASSUME IInv, NEW s \in Shard, NEW d \in Shard, channel[s][d] # <<>>,
           ~IsWrite(Head(channel[s][d])), NEW net, net = [index |-> index, channel |-> Rest(s, d)]
    PROVE  /\ net \in NetType /\ NetOK(net) /\ SameDues(KindOf, Net, net)
           /\ Head(channel[s][d]).op = task.phase /\ d \in task.waiting
           /\ task # Idle
           /\ task \in [phase : {"create", "fill", "delete"}, at : Shard, waiting : SUBSET Shard, ok : BOOLEAN]
           /\ \A l : l.phase = task.phase /\ l.at = task.at /\ l.waiting = task.waiting \ {d} => AllSteered(l, net)
<1>1. NetOK(Net) /\ AllSteered(task, Net) /\ TaskOK
  BY DEF IInv
<1>2. /\ Net.index = index /\ Net.channel = channel /\ index \in [Shard -> PropertyIndex \cup {NoIndex}]
      /\ channel[s][d] \in Seq(Message)
  BY <1>1, NetTyped
<1>3. net.index = index /\ net.channel = Rest(s, d) /\ net = [index |-> net.index, channel |-> net.channel]
  OBVIOUS
<1>4. Takes(Net, net, s, d)
  BY <1>1, <1>2, <1>3, DeliverTakes
<1>5. net \in NetType
  BY <1>4 DEF Takes
<1>6. /\ NetOK(net) /\ SameDues(KindOf, Net, net)
      /\ Head(Net.channel[s][d]).op = task.phase /\ s = task.at /\ d \in task.waiting
      /\ \A l : l.phase = task.phase /\ l.at = task.at /\ l.waiting = task.waiting \ {d} => AllSteered(l, net)
  <2>1. ~IsWrite(Head(Net.channel[s][d])) /\ net.index = Net.index
    BY <1>2, <1>3
  <2>2. /\ NetOK(net) /\ SameDues(KindOf, Net, net)
        /\ Head(Net.channel[s][d]).op = task.phase /\ s = task.at /\ d \in task.waiting
    BY <1>1, <1>4, <2>1, ObeyDoes
  <2>3. ASSUME NEW l, l.phase = task.phase, l.at = task.at, l.waiting = task.waiting \ {d}
        PROVE  AllSteered(l, net)
    BY <1>1, <1>4, <2>1, <2>3, ObeyDoes
  <2> QED  BY <2>2, <2>3
<1>7. task # Idle
  <2> DEFINE messages == channel[s][d]
  <2>1. messages \in Seq(Message) /\ messages # <<>> /\ ~IsWrite(Head(messages))
    BY <1>2
  <2> HIDE DEF messages
  <2>2. Head(messages).op \in {"create", "fill", "delete"}
    BY <2>1, MessageTyped
  <2>3. task.phase \in {"create", "fill", "delete"}
    BY <1>2, <1>6, <2>2 DEF messages
  <2> QED  BY <2>3 DEF Idle
<1> QED  BY <1>1, <1>2, <1>5, <1>6, <1>7 DEF TaskOK

LEMMA DeliverCreateKeeps ==
    ASSUME IInv, NEW s \in Shard, NEW d \in Shard, channel[s][d] # <<>>,
           Head(channel[s][d]).op = "create", NodeIndexCreate(s, d), nodes' = nodes, column' = column
    PROVE  IInv'
<1> DEFINE net == [index |-> index, channel |-> Rest(s, d)]
<1>1. NetOK(Net) /\ StoresOK /\ TaskOK /\ Net.index = index /\ index \in [Shard -> PropertyIndex \cup {NoIndex}]
  BY NetTyped DEF IInv
<1>2. ~IsWrite(Head(channel[s][d]))
  BY DEF IsWrite
<1>3. net.index = index /\ net.channel = Rest(s, d)
  OBVIOUS
<1>4. /\ net \in NetType /\ NetOK(net) /\ SameDues(KindOf, Net, net)
      /\ task.phase = "create" /\ d \in task.waiting /\ task # Idle
      /\ task \in [phase : {"create", "fill", "delete"}, at : Shard, waiting : SUBSET Shard, ok : BOOLEAN]
      /\ \A l : l.phase = task.phase /\ l.at = task.at /\ l.waiting = task.waiting \ {d} => AllSteered(l, net)
  BY <1>2, OrderIsObeyed
<1> HIDE DEF net
<1>5. /\ index' = Created(index, d) /\ channel' = Rest(s, d)
      /\ task' = [task EXCEPT !.waiting = @ \ {d}, !.ok = @ /\ index[d] = NoIndex]
      /\ filled' = filled /\ missed' = missed /\ early' = early /\ misled' = misled /\ leftover' = leftover
  BY DEF NodeIndexCreate
<1>6. /\ task'.phase = "create" /\ task'.at = task.at /\ task'.waiting = task.waiting \ {d}
      /\ (task'.ok <=> task.ok /\ index[d] = NoIndex)
      /\ task' \in [phase : {"create", "fill", "delete"}, at : Shard, waiting : SUBSET Shard, ok : BOOLEAN]
  <2>1. (task.ok /\ index[d] = NoIndex) \in BOOLEAN
    OBVIOUS
  <2> QED  BY <1>4, <1>5, <2>1
<1>7. AllSteered(task', net)
  BY <1>4, <1>6
<1>8. Net' \in NetType /\ Net'.index = Created(net.index, d) /\ Net'.channel = net.channel
  <2>1. EmptyIndex \in PropertyIndex
    BY DEF EmptyIndex, PropertyIndex
  <2>2. Created(index, d) \in [Shard -> PropertyIndex \cup {NoIndex}]
    BY <1>1, <2>1 DEF Created
  <2>3. Net'.index = index' /\ Net'.channel = channel' /\ Net' = [index |-> index', channel |-> channel']
    BY DEF Net
  <2>4. channel' \in [Shard -> [Shard -> Seq(Message)]]
    BY <1>3, <1>4, <1>5 DEF NetType
  <2> QED  BY <1>3, <1>5, <2>2, <2>3, <2>4 DEF NetType
<1>9. /\ NetOK(Net') /\ SameDues(KindOf, net, Net') /\ AllSteered(task', Net')
      /\ Net'.index[d] # NoIndex /\ \A h \in Shard \ {d} : Net'.index[h] = net.index[h]
  BY <1>4, <1>7, <1>8, CreatedDoes
<1>10. index'[d] # NoIndex /\ \A h \in Shard \ {d} : index'[h] = index[h]
  BY <1>3, <1>9 DEF Net
<1>11. SameDues(KindOf, Net, Net')
  BY <1>4, <1>9 DEF SameDues
<1>12. EntriesOK'
  <2>1. \A h \in Shard : index'[h] = NoIndex => index[h] = NoIndex
    BY <1>10
  <2>2. Kept
    BY <1>4 DEF Kept
  <2> QED  BY <1>5, <1>9, <1>11, <2>1, <2>2, SameDuesKeep
<1>13. TaskOK'
  <2>1. Present' = Present \cup {d} /\ (index[d] = NoIndex <=> d \notin Present)
    BY <1>10 DEF Present
  <2>2. task.ok => Present = Shard \ task.waiting /\ filled = {}
    BY <1>1, <1>4 DEF TaskOK
  <2>3. ~task.ok => Present = Shard /\ filled = Shard
    BY <1>1, <1>4 DEF TaskOK
  <2>4. task'.ok <=> task.ok
    BY <1>4, <1>6, <2>1, <2>2
  <2>5. task' # Idle /\ filled' \subseteq Shard
    BY <1>5, <1>6, <2>2, <2>3 DEF Idle
  <2>6. task'.ok => Present' = Shard \ task'.waiting /\ filled' = {}
    BY <1>5, <1>6, <2>1, <2>2, <2>4
  <2>7. ~task'.ok => Present' = Shard /\ filled' = Shard
    BY <1>5, <2>1, <2>3, <2>4
  <2> QED  BY <1>6, <2>5, <2>6, <2>7 DEF TaskOK
<1>14. StoresOK'
  BY <1>1, StoresStay
<1> QED  BY <1>9, <1>12, <1>13, <1>14 DEF IInv

LEMMA DeliverDeleteKeeps ==
    ASSUME IInv, NEW s \in Shard, NEW d \in Shard, channel[s][d] # <<>>,
           Head(channel[s][d]).op = "delete", NodeIndexDelete(s, d), nodes' = nodes, column' = column
    PROVE  IInv'
<1> DEFINE net == [index |-> index, channel |-> Rest(s, d)]
<1>1. NetOK(Net) /\ StoresOK /\ TaskOK /\ Net.index = index /\ index \in [Shard -> PropertyIndex \cup {NoIndex}]
  BY NetTyped DEF IInv
<1>2. ~IsWrite(Head(channel[s][d]))
  BY DEF IsWrite
<1>3. net.index = index /\ net.channel = Rest(s, d)
  OBVIOUS
<1>4. /\ net \in NetType /\ NetOK(net) /\ SameDues(KindOf, Net, net)
      /\ task.phase = "delete" /\ d \in task.waiting /\ task # Idle
      /\ task \in [phase : {"create", "fill", "delete"}, at : Shard, waiting : SUBSET Shard, ok : BOOLEAN]
      /\ \A l : l.phase = task.phase /\ l.at = task.at /\ l.waiting = task.waiting \ {d} => AllSteered(l, net)
  BY <1>2, OrderIsObeyed
<1> HIDE DEF net
<1>5. /\ Deleted(d) /\ channel' = Rest(s, d) /\ task' = [task EXCEPT !.waiting = @ \ {d}]
      /\ index' = [index EXCEPT ![d] = NoIndex] /\ filled' = filled \ {d}
  BY DEF NodeIndexDelete, Deleted
<1>6. /\ task'.phase = "delete" /\ task'.at = task.at /\ task'.waiting = task.waiting \ {d}
      /\ task' \in [phase : {"create", "fill", "delete"}, at : Shard, waiting : SUBSET Shard, ok : BOOLEAN]
  BY <1>4, <1>5
<1>7. AllSteered(task', net)
  BY <1>4, <1>6
<1>8. Net' \in NetType /\ Net'.index = [net.index EXCEPT ![d] = NoIndex] /\ Net'.channel = net.channel
  <2>1. index' \in [Shard -> PropertyIndex \cup {NoIndex}]
    BY <1>1, <1>5
  <2>2. Net'.index = index' /\ Net'.channel = channel' /\ Net' = [index |-> index', channel |-> channel']
    BY DEF Net
  <2>3. channel' \in [Shard -> [Shard -> Seq(Message)]]
    BY <1>3, <1>4, <1>5 DEF NetType
  <2> QED  BY <1>3, <1>5, <2>1, <2>2, <2>3 DEF NetType
<1>9. /\ NetOK(Net') /\ AllSteered(task', Net')
      /\ \A t, i : Quiet(net, t, i) => Quiet(Net', t, i)
  BY <1>4, <1>7, <1>8, DeletedDoes
<1>10. EntriesOK'
  <2>1. \A t \in Shard, i \in Slot : Quiet(Net, t, i) => Quiet(Net', t, i)
    BY <1>4, <1>9 DEF SameDues
  <2> QED  BY <1>5, <1>6, <2>1, DeletedKeeps
<1>11. TaskOK'
  <2>1. Present \subseteq task.waiting \ {task.at} /\ filled \subseteq Present /\ filled \subseteq Shard
    BY <1>1, <1>4 DEF TaskOK
  <2>2. Present' = Present \ {d}
    BY <1>1, <1>5 DEF Present
  <2>3. task' # Idle
    BY <1>6 DEF Idle
  <2>4. Present' \subseteq task'.waiting \ {task'.at} /\ filled' \subseteq Present' /\ filled' \subseteq Shard
    BY <1>5, <1>6, <2>1, <2>2
  <2> QED  BY <1>6, <2>3, <2>4 DEF TaskOK
<1>12. StoresOK'
  BY <1>1, StoresStay
<1> QED  BY <1>9, <1>10, <1>11, <1>12 DEF IInv

LEMMA DeliverFillKeeps ==
    ASSUME IInv, NEW s \in Shard, NEW d \in Shard, channel[s][d] # <<>>,
           Head(channel[s][d]).op = "fill", NodeIndexFill(s, d), nodes' = nodes, column' = column
    PROVE  IInv'
<1> DEFINE net == [index |-> index, channel |-> Rest(s, d)]
<1>1. NetOK(Net) /\ StoresOK /\ TaskOK
  BY DEF IInv
<1>2. ~IsWrite(Head(channel[s][d]))
  BY DEF IsWrite
<1>3. net.index = index
  OBVIOUS
<1>4. /\ net \in NetType /\ NetOK(net) /\ SameDues(KindOf, Net, net)
      /\ task.phase = "fill" /\ d \in task.waiting /\ task # Idle
      /\ task \in [phase : {"create", "fill", "delete"}, at : Shard, waiting : SUBSET Shard, ok : BOOLEAN]
      /\ \A l : l.phase = task.phase /\ l.at = task.at /\ l.waiting = task.waiting \ {d} => AllSteered(l, net)
  BY <1>2, OrderIsObeyed
<1>5. /\ NetBecomes(Fill(net, d)) /\ Filled(d) /\ task' = [task EXCEPT !.waiting = @ \ {d}]
      /\ UNCHANGED <<early, misled, leftover>>
  BY DEF NodeIndexFill
<1> HIDE DEF net
<1>6. /\ task'.phase = "fill" /\ task'.at = task.at /\ task'.waiting = task.waiting \ {d}
      /\ task' \in [phase : {"create", "fill", "delete"}, at : Shard, waiting : SUBSET Shard, ok : BOOLEAN]
  BY <1>4, <1>5
<1>7. AllSteered(task', net)
  BY <1>4, <1>6
<1>8. Present = Shard /\ filled = Shard \ task.waiting /\ index[d] # NoIndex /\ d \notin filled
  BY <1>1, <1>4 DEF TaskOK, Present
<1>9. Kept /\ Kept'
  BY <1>4, <1>6 DEF Kept
<1>10. Net' = Fill(net, d) /\ NetOK(Net') /\ SamePresence(Net, Net') /\ EntriesOK'
  BY <1>3, <1>4, <1>5, <1>8, <1>9, FilledKeeps
<1>11. AllSteered(task', Net')
  BY <1>1, <1>3, <1>4, <1>7, <1>8, <1>10, FillDoes, FillReadsColumns
<1>12. TaskOK'
  <2>1. Present' = Present
    BY <1>10 DEF Present, SamePresence, Net
  <2>2. filled' = Shard \ task'.waiting
    BY <1>5, <1>6, <1>8 DEF Filled
  <2>3. task' # Idle
    BY <1>6 DEF Idle
  <2> QED  BY <1>6, <1>8, <2>1, <2>2, <2>3 DEF TaskOK
<1>13. StoresOK'
  BY <1>1, StoresStay
<1> QED  BY <1>10, <1>11, <1>12, <1>13 DEF IInv

LEMMA DeliverKeeps ==
    ASSUME IInv, NEW s \in Shard, NEW d \in Shard, Deliver(s, d)
    PROVE  IInv'
<1> DEFINE m == Head(channel[s][d])
<1>1. channel[s][d] # <<>> /\ nodes' = nodes /\ column' = column
  BY DEF Deliver
<1>2. CASE /\ m.op \in {"insert", "remove"}
           /\ index' = [index EXCEPT ![d] = Applied(@, m)]
           /\ channel' = Rest(s, d)
           /\ UNCHANGED <<task, filled, missed, early, misled, leftover>>
  BY <1>1, <1>2, DeliverEntryKeeps DEF IsWrite
<1>3. CASE m.op = "create" /\ NodeIndexCreate(s, d)
  BY <1>1, <1>3, DeliverCreateKeeps
<1>4. CASE m.op = "delete" /\ NodeIndexDelete(s, d)
  BY <1>1, <1>4, DeliverDeleteKeeps
<1>5. CASE m.op = "fill" /\ NodeIndexFill(s, d)
  BY <1>1, <1>5, DeliverFillKeeps
<1> QED  BY <1>2, <1>3, <1>4, <1>5 DEF Deliver

-----------------------------------------------------------------------------
(* The invariant holds *)

\* The nodes that were added to a shard before, listed once each.
LEMMA AllAddedWellFormed ==
    ASSUME NEW s \in Shard
    PROVE  WellFormed(AllAdded(s))
<1> DEFINE K == {k \in Key : KeyHome[k] = s}
           M == Cardinality(K)
           q == SetToSeq(K)
           slot == [k \in Key |-> IF KeyHome[k] # s THEN NoSlot ELSE (CHOOSE n \in DOMAIN q : q[n] = k) - 1]
<1>1. IsFiniteSet(K) /\ M <= MaxSlots
  BY NodeTypesAssumption, PropertyIndexesAssumption, FS_Subset
<1>2. M \in Nat /\ ExistsBijection(1 .. M, K)
  BY <1>1, FS_CardinalityType
<1>3. q \in [1 .. M -> K] /\ IsInjective(q)
  <2>1. \E f \in [1 .. M -> K] : IsInjective(f)
    BY <1>2 DEF ExistsBijection, Bijection, Injection
  <2> QED  BY <2>1 DEF SetToSeq
<1> HIDE DEF q
<1>4. \A k \in K : \E n \in 1 .. M : q[n] = k
  <2>1. q \in Injection(1 .. M, K)
    BY <1>3 DEF Injection
  <2>2. Cardinality(1 .. M) = M
    <3>1. 1 \in Int /\ M \in Int
      BY <1>2
    <3>2. Cardinality(1 .. M) = IF 1 > M THEN 0 ELSE M - 1 + 1
      BY <3>1, FS_Interval
    <3> QED  BY <1>2, <3>2
  <2>3. q \in Surjection(1 .. M, K)
    BY <1>1, <2>1, <2>2, FS_Injection
  <2> QED  BY <2>3 DEF Surjection
<1>5. AllAdded(s) = [keyToNodeId |-> slot, keys |-> q, deletedIds |-> {}]
  BY DEF AllAdded, q
<1>6. \A k \in K : k \in Key /\ KeyHome[k] = s
  OBVIOUS
<1>7. \A k \in Key : KeyHome[k] = s => k \in K
  OBVIOUS
<1>8. DOMAIN q = 1 .. M /\ Len(q) = M /\ q \in Seq(Key \cup {NoKey}) /\ \A n \in 1 .. M : q[n] \in K
  <2> HIDE DEF K, M
  <2>1. \A n \in 1 .. M : q[n] \in K /\ q[n] \in Key \cup {NoKey}
    BY <1>3, <1>6
  <2> QED  BY <1>2, <1>3, <2>1
<1>9. ASSUME NEW k \in Key, KeyHome[k] = s
      PROVE  slot[k] + 1 \in 1 .. M /\ q[slot[k] + 1] = k /\ slot[k] \in 0 .. M - 1
  <2> DEFINE n == CHOOSE n \in DOMAIN q : q[n] = k
  <2>1. \E j \in DOMAIN q : q[j] = k
    BY <1>4, <1>7, <1>8, <1>9
  <2>2. n \in DOMAIN q /\ q[n] = k
    BY <2>1
  <2>3. slot[k] = n - 1
    BY <1>9
  <2> HIDE DEF n, slot
  <2>4. n \in 1 .. M /\ M \in Nat
    BY <1>2, <1>8, <2>2
  <2> HIDE DEF M
  <2>5. slot[k] \in 0 .. M - 1 /\ slot[k] + 1 = n
    BY <2>3, <2>4
  <2> QED  BY <2>2, <2>4, <2>5
<1>10. \A k \in Key : KeyHome[k] # s => slot[k] = NoSlot
  OBVIOUS
<1>11. \A m, n \in 1 .. M : q[m] = q[n] => m = n
  BY <1>3, <1>8 DEF IsInjective
<1>12. \A j \in 0 .. M - 1 : j \in Slot /\ j # NoSlot
  BY <1>1, <1>2, NodeTypesAssumption DEF Slot, NoSlot
<1> DEFINE t == AllAdded(s)
<1>13. t.keyToNodeId = slot /\ t.keys = q /\ t.deletedIds = {} /\ DOMAIN slot = Key
  BY <1>5
<1>14. t = [keyToNodeId |-> t.keyToNodeId, keys |-> t.keys, deletedIds |-> t.deletedIds]
  BY <1>5
<1>15. slot \in [Key -> Slot \cup {NoSlot}]
  BY <1>9, <1>10, <1>12, <1>13
<1> HIDE DEF t, slot, M
<1>16. SlotsOf(t) = 0 .. M - 1 /\ LiveSlots(t) = 0 .. M - 1
  BY <1>8, <1>13 DEF SlotsOf, LiveSlots
<1>17. t \in NodeType /\ Len(t.keys) <= MaxSlots
  BY <1>1, <1>8, <1>13, <1>14, <1>15 DEF NodeType
<1>18. MapPointsIntoKeys(t)
  <2>1. ASSUME NEW k \in Key, slot[k] # NoSlot PROVE slot[k] \in 0 .. M - 1 /\ q[slot[k] + 1] = k
    BY <1>9, <1>10, <2>1
  <2> QED  BY <1>13, <1>16, <2>1 DEF MapPointsIntoKeys, KeysHeld, KeyOf
<1>19. LiveSlotsAreNamed(t)
  <2>1. ASSUME NEW i \in 0 .. M - 1 PROVE q[i + 1] \in Key /\ slot[q[i + 1]] = i
    <3>1. i + 1 \in 1 .. M /\ i \in Int
      BY <1>2, <2>1
    <3>2. q[i + 1] \in K /\ q[i + 1] \in Key /\ KeyHome[q[i + 1]] = s
      BY <1>6, <1>8, <3>1
    <3>3. slot[q[i + 1]] + 1 = i + 1
      BY <1>9, <1>11, <3>1, <3>2
    <3>4. slot[q[i + 1]] \in 0 .. M - 1
      BY <1>9, <3>2
    <3> QED  BY <3>1, <3>2, <3>3, <3>4
  <2> QED  BY <1>13, <1>16, <2>1 DEF LiveSlotsAreNamed, KeyOf
<1>20. DeletedSlotsAreCleared(t)
  BY <1>13 DEF DeletedSlotsAreCleared
<1> QED  BY <1>17, <1>18, <1>19, <1>20 DEF WellFormed, SlotsAgree, t

LEMMA InitHolds ==
    ASSUME Init
    PROVE  IInv
<1>1. PICK kind \in {"integer", "string"} :
        column = [s \in Shard |-> [setPropertyType(NoColumn, kind) EXCEPT !.gone = SlotsOf(AllAdded(s))]]
  BY DEF Init
<1>2. /\ nodes = [s \in Shard |-> AllAdded(s)] /\ index = [s \in Shard |-> NoIndex]
      /\ channel = [s \in Shard |-> [d \in Shard |-> <<>>]]
      /\ task = Idle /\ filled = {}
  BY DEF Init
<1>3. \A s \in Shard : column[s] = [kind |-> kind, vec |-> <<>>, gone |-> SlotsOf(AllAdded(s))]
  BY <1>1 DEF setPropertyType, NoColumn, ValueKind
<1>4. StoresOK
  <2>1. ASSUME NEW s \in Shard
        PROVE  /\ WellFormed(nodes[s]) /\ nodes[s] \in NodeType /\ ColumnOK(column[s], nodes[s])
               /\ column[s] \in [kind : {"integer", "string"}, vec : Seq(Value), gone : SUBSET Slot]
               /\ column[s].kind = KindOf
    <3> DEFINE t == AllAdded(s)
    <3>1. WellFormed(t) /\ t \in NodeType
      BY AllAddedWellFormed DEF WellFormed
    <3>2. SlotsOf(t) \subseteq Slot
      BY <3>1, SlotsAreSlots
    <3>3. nodes[s] = t
      BY <1>2
    <3>4. Len(t.keys) \in Nat
      BY <3>1 DEF NodeType
    <3> HIDE DEF t
    <3>5. column[s] = [kind |-> kind, vec |-> <<>>, gone |-> SlotsOf(t)]
      BY <1>3 DEF t
    <3>6. column[s] \in [kind : {"integer", "string"}, vec : Seq(Value), gone : SUBSET Slot]
      BY <3>2, <3>5
    <3>7. ColumnOK(column[s], t)
      BY <3>4, <3>5, <3>6 DEF ColumnOK
    <3>8. column[s].kind = KindOf
      <4>1. column[s].kind = kind
        BY <3>5
      <4>2. 0 \in Shard
        BY PropertyIndexesAssumption
      <4>3. ASSUME NEW z \in Shard  PROVE column[z].kind = kind
        <5> DEFINE gone == SlotsOf(AllAdded(z))
        <5>1. column[z] = [kind |-> kind, vec |-> <<>>, gone |-> gone]
          BY <1>3
        <5> HIDE DEF gone
        <5> QED  BY <5>1
      <4>4. column[0].kind = kind
        BY <4>2, <4>3
      <4> QED  BY <4>1, <4>4 DEF KindOf
    <3> QED  BY <3>1, <3>3, <3>6, <3>7, <3>8
  <2>2. DOMAIN nodes = Shard /\ DOMAIN column = Shard
        /\ nodes = [s \in Shard |-> nodes[s]] /\ column = [s \in Shard |-> column[s]]
    BY <1>1, <1>2
  <2> QED  BY <2>1, <2>2 DEF StoresOK
<1>5. \A s, d \in Shard : channel[s][d] = <<>> /\ Net.channel[s][d] = <<>>
  BY <1>2 DEF Net
<1>6. \A d \in Shard : index[d] = NoIndex /\ Net.index[d] = NoIndex
  BY <1>2 DEF Net
<1>7. NetOK(Net)
  <2>1. Net \in NetType
    BY <1>2 DEF Net, NetType
  <2> QED  BY <1>5, <1>6, <2>1 DEF NetOK, AtHome, Routed
<1>8. AllSteered(task, Net)
  BY <1>5 DEF AllSteered, Steered
<1>9. TaskOK
  <2>1. task.phase = "idle" /\ Present = {}
    BY <1>2, <1>6 DEF Idle, Present
  <2> QED  BY <1>2, <2>1 DEF TaskOK
<1>10. ASSUME NEW v \in Value, NEW s \in Shard, NEW i \in Slot PROVE EntryOK(v, s, i)
  <2>1. Quiet(Net, s, i)
    BY <1>5 DEF Quiet
  <2>2. CountIn(Net, Home[v], <<v, s, i>>) = 0
    BY <1>6, PropertyIndexesAssumption DEF CountIn
  <2> QED  BY <1>2, <1>6, <2>1, <2>2 DEF EntryOK
<1> QED  BY <1>4, <1>7, <1>8, <1>9, <1>10 DEF IInv, EntriesOK

LEMMA StutterKeeps ==
    ASSUME IInv, UNCHANGED vars
    PROVE  IInv'
<1>1. /\ nodes' = nodes /\ column' = column /\ index' = index /\ channel' = channel /\ task' = task
      /\ filled' = filled /\ missed' = missed /\ early' = early /\ misled' = misled /\ leftover' = leftover
  BY DEF vars
<1>2. Net' = Net /\ KindOf' = KindOf /\ StoresOK'
  BY <1>1, StoresStay DEF Net, IInv
<1>3. TaskOK'
  BY <1>1 DEF IInv, TaskOK, Present
<1>4. ASSUME NEW v \in Value, NEW s \in Shard, NEW i \in Slot PROVE EntryOK(v, s, i)'
  <2>1. EntryOK(v, s, i)
    BY InvariantFacts
  <2> QED  BY <1>1, <1>2, <2>1 DEF EntryOK, Unheard, Kept, Has
<1> QED  BY <1>1, <1>2, <1>3, <1>4 DEF IInv, EntriesOK

LEMMA NextKeeps ==
    ASSUME IInv, [Next]_vars
    PROVE  IInv'
<1>1. Caller \subseteq Shard
  BY PropertyIndexesAssumption
<1>2. CASE Write
  BY <1>2, WritesKeep
<1>3. ASSUME NEW c \in Caller, NodeIndexCreatePeered(c) PROVE IInv'
  BY <1>1, <1>3, CreatePeeredKeeps
<1>4. ASSUME NEW c \in Caller, NodeIndexDeletePeered(c) PROVE IInv'
  BY <1>1, <1>4, DeletePeeredKeeps
<1>5. CASE NodeIndexFillPeered
  BY <1>5, FillPeeredKeeps
<1>6. CASE NodeIndexAnswer
  BY <1>6, AnswerKeeps
<1>7. ASSUME NEW s \in Shard, NEW d \in Shard, Deliver(s, d) PROVE IInv'
  BY <1>7, DeliverKeeps
<1>8. CASE UNCHANGED vars
  BY <1>8, StutterKeeps
<1> QED  BY <1>2, <1>3, <1>4, <1>5, <1>6, <1>7, <1>8 DEF Next

\* What the index, the messages between the shards and the columns always agree on, from which the
\* properties of the index follow: nothing is on its way or entered for a slot the present index
\* has not been told of, and for the others one entry is due for each value held.
THEOREM IInvHolds == Spec => []IInv
<1>1. Init => IInv
  BY InitHolds
<1>2. IInv /\ [Next]_vars => IInv'
  BY NextKeeps
<1> QED  BY <1>1, <1>2, PTL DEF Spec

-----------------------------------------------------------------------------
(* What follows for the index *)

\* A shard whose nodes are in the index that all shards have: nothing is being deleted.
LEMMA IndexedIsKept ==
    ASSUME IInv, NEW s \in Shard, Indexed(s)
    PROVE  /\ s \in filled /\ Kept /\ index[s] # NoIndex
           /\ \A v \in Value, i \in Slot :
                 /\ EntryOK(v, s, i)
                 /\ Owed(s, i, v) = Due(KindOf, Net, <<v, s, i>>)
                 /\ Due(KindOf, Net, <<v, s, i>>) \in Nat
<1>1. s \in filled /\ Present = Shard
  BY DEF Indexed, Present
<1>2. Kept
  <2>1. SUFFICES ASSUME task.phase = "delete" PROVE FALSE
    BY DEF Kept
  <2>2. Present \subseteq task.waiting \ {task.at} /\ (task = Idle \/ task.at \in Shard)
    BY <2>1 DEF IInv, TaskOK
  <2>3. task # Idle
    BY <2>1 DEF Idle
  <2> QED  BY <1>1, <2>2, <2>3
<1>3. ASSUME NEW v \in Value, NEW i \in Slot
      PROVE  Owed(s, i, v) = Due(KindOf, Net, <<v, s, i>>)
  <2>1. index[Home[v]] # NoIndex
    BY PropertyIndexesAssumption DEF Indexed
  <2> QED  BY <2>1 DEF Owed, Due, CountIn, Net
<1> QED  BY <1>1, <1>2, <1>3, InvariantFacts DEF Indexed

\* Every value a filled shard holds has its entry, or a message on its way that leaves it there,
\* whatever writes, creations and deletions of the index interleave (shard/Node.cpp's calls of
\* node_index_add_helper and node_index_remove_helper, NodeIndexFill).
THEOREM NothingMissingHolds == Spec => []NothingMissing
<1>1. ASSUME IInv PROVE NothingMissing
  <2>1. SUFFICES ASSUME NEW s \in Shard, Indexed(s), NEW i \in LiveSlots(nodes[s]), NEW v \in Value,
                        getProperty(column[s], i) = v, <<s, i>> \notin missed \cup misled
                 PROVE  Owed(s, i, v) > 0
    BY DEF NothingMissing
  <2>2. i \in Slot
    <3>1. WellFormed(nodes[s])
      BY <1>1 DEF IInv, StoresOK
    <3> QED  BY <3>1, SlotsAreSlots
  <2>3. Has(s, i, v)
    BY <2>1 DEF Has
  <2>4. /\ s \in filled /\ Kept /\ EntryOK(v, s, i)
        /\ Owed(s, i, v) = Due(KindOf, Net, <<v, s, i>>)
    BY <1>1, <2>1, <2>2, IndexedIsKept
  <2> QED  BY <2>1, <2>3, <2>4 DEF EntryOK
<1>2. IInv => NothingMissing
  BY <1>1
<1> QED  BY <1>2, IInvHolds, PTL

\* No entry outlives the value it stands for, and none is there twice, but for the numbers written
\* between the creation and the fill and the slots an earlier index left messages of.
THEOREM NothingStaleHolds == Spec => []NothingStale
<1>1. ASSUME IInv PROVE NothingStale
  <2>1. SUFFICES ASSUME NEW s \in Shard, Indexed(s), NEW i \in Slot, NEW v \in Value,
                        <<s, i>> \notin misled \cup leftover, KindOf = "string" \/ <<s, i>> \notin early
                 PROVE  Owed(s, i, v) <= (IF Has(s, i, v) THEN 1 ELSE 0)
    BY DEF NothingStale, Has
  <2>2. /\ Kept /\ index[s] # NoIndex /\ EntryOK(v, s, i)
        /\ Owed(s, i, v) = Due(KindOf, Net, <<v, s, i>>)
    BY <1>1, <2>1, IndexedIsKept
  <2> QED  BY <2>1, <2>2 DEF EntryOK
<1>2. IInv => NothingStale
  BY <1>1
<1> QED  BY <1>2, IInvHolds, PTL

\* The comparisons mean the same for texts as for numbers.
LEMMA ComparisonHolds ==
    ASSUME NEW kind \in {"integer", "string"}, NEW op \in Comparison, NEW x, NEW y
    PROVE  Holds(kind, op, x, y) = Evaluate(op, x, y)
BY DEF Holds, ListKind, EvaluateString, TextTest, Comparison

\* A scan of the columns finds a slot that holds w exactly when w compares.
LEMMA ScanFinds ==
    ASSUME StoresOK, NEW op \in Comparison, NEW v \in Value, NEW w \in Value, NEW s \in Shard, NEW i \in Slot
    PROVE  (/\ i \in MatchingSlots(nodes[s], column[s], op, [value |-> v])
            /\ getProperty(column[s], i) = w)
           <=> Has(s, i, w) /\ Evaluate(op, w, v)
<1> DEFINE t == nodes[s]
           c == column[s]
<1>1. WellFormed(t) /\ ColumnOK(c, t)
  BY DEF StoresOK
<1>2. /\ c.kind \in {"integer", "string"} /\ Len(c.vec) \in Nat /\ Len(t.keys) \in Nat
      /\ Len(c.vec) <= Len(t.keys)
  BY <1>1 DEF ColumnOK, WellFormed, NodeType
<1>3. i \in Nat /\ w # NoValue
  BY NodeTypesAssumption, PropertyColumnsAssumption DEF Slot
<1>4. c.kind \in ValueKind /\ c.kind # "integer_list"
  BY <1>2 DEF ValueKind
<1>5. getProperty(c, i) = w <=> i \notin c.gone /\ Covers(c, i) /\ c.vec[i + 1] = w
  <2>1. getProperty(c, i) = getProperties(c, i)
    BY <1>4 DEF getProperty, getProperties
  <2> QED  BY <1>3, <1>4, <2>1 DEF getProperties
<1>6. Covers(c, i) => i \in SlotsOf(t) /\ i \in 0 .. Len(c.vec) - 1
  BY <1>2, <1>3 DEF Covers, SlotsOf
<1>7. \A x : Holds(c.kind, op, x, v) = Evaluate(op, x, v)
  BY <1>2, ComparisonHolds
<1> HIDE DEF t, c
<1>8. i \in MatchingSlots(t, c, op, [value |-> v])
        <=> i \in 0 .. Len(c.vec) - 1 /\ i \notin c.gone /\ i \notin t.deletedIds /\ Evaluate(op, c.vec[i + 1], v)
  BY <1>7 DEF MatchingSlots, getBlanks
<1>9. Has(s, i, w) <=> i \in SlotsOf(t) /\ i \notin t.deletedIds /\ getProperty(c, i) = w
  BY DEF Has, LiveSlots, t, c
<1>10. (i \in MatchingSlots(t, c, op, [value |-> v]) /\ getProperty(c, i) = w)
         <=> Has(s, i, w) /\ Evaluate(op, w, v)
  BY <1>5, <1>6, <1>8, <1>9
<1> QED  BY <1>10 DEF t, c

\* When nothing is on its way a search through the index (FindNodeIdsPeered, FindNodeCountPeered)
\* finds each node once that a scan of the columns finds, and no other.
THEOREM SearchesAgreeHolds == Spec => []SearchesAgree
<1>1. ASSUME IInv PROVE SearchesAgree
  <2>1. SUFFICES ASSUME AtRest, missed \cup misled \cup leftover = {}, KindOf = "string" \/ early = {},
                        NEW op \in Comparison, NEW v \in Value, NEW e \in Entry
                 PROVE  FindNodeIdsPeered(op, v, e) =
                            IF /\ e[3] \in MatchingSlots(nodes[e[2]], column[e[2]], op, [value |-> v])
                               /\ getProperty(column[e[2]], e[3]) = e[1]
                            THEN 1 ELSE 0
    BY DEF SearchesAgree
  <2> DEFINE w == e[1]
             s == e[2]
             i == e[3]
             due == Due(KindOf, Net, e)
             found == Has(s, i, w) /\ Evaluate(op, w, v)
  <2>2. e = <<w, s, i>> /\ w \in Value /\ s \in Shard /\ i \in Slot /\ Home[w] \in Shard
    BY EntryParts
  <2>3. Indexed(s) /\ (\A h \in Shard : index[h] # NoIndex) /\ (\A h, d \in Shard : channel[h][d] = <<>>)
    BY <2>1, <2>2 DEF AtRest, Indexed
  <2>4. NetOK(Net) /\ Net.index = index /\ Net.channel = channel /\ StoresOK
    BY <1>1, NetTyped DEF IInv
  <2>5. /\ s \in filled /\ Kept /\ index[s] # NoIndex /\ EntryOK(w, s, i)
        /\ Due(KindOf, Net, <<w, s, i>>) \in Nat
    BY <1>1, <2>2, <2>3, IndexedIsKept
  <2>6. due = IF Has(s, i, w) THEN 1 ELSE 0
    <3>1. Has(s, i, w) => Due(KindOf, Net, <<w, s, i>>) > 0
      BY <2>1, <2>5 DEF EntryOK
    <3>2. Due(KindOf, Net, <<w, s, i>>) <= (IF Has(s, i, w) THEN 1 ELSE 0)
      BY <2>1, <2>5 DEF EntryOK
    <3>3. due = Due(KindOf, Net, <<w, s, i>>)
      BY <2>2
    <3> HIDE DEF due, w, s, i
    <3> QED  BY <2>5, <3>1, <3>2, <3>3
  <2>7. index[Home[w]][e] = due
    <3>1. CountIn(Net, Home[w], e) = index[Home[w]][e] /\ CountIn(Net, Home[w], e) \in Nat
      BY <2>2, <2>3, <2>4, PartTyped DEF CountIn
    <3>2. After(KindOf, CountIn(Net, Home[w], e), <<>>, e) = CountIn(Net, Home[w], e)
      BY <3>1, AfterNothing
    <3> QED  BY <2>2, <2>3, <2>4, <3>1, <3>2 DEF Due
  <2>8. \A h \in Shard : h # Home[w] => index[h][e] = 0
    <3>1. SUFFICES ASSUME NEW h \in Shard, h # Home[w] PROVE index[h][e] = 0
      OBVIOUS
    <3>2. index[h] \in PropertyIndex /\ AtHome(index[h], h)
      BY <2>3, <2>4, PartTyped DEF NetOK
    <3>3. index[h][e] \in Nat /\ ~(index[h][e] > 0)
      BY <2>3, <3>1, <3>2 DEF AtHome, PropertyIndex
    <3> QED  BY <3>3
  <2>9. Asking(op, v) \subseteq Shard /\ (Evaluate(op, w, v) => Home[w] \in Asking(op, v))
    BY <2>2, PropertyIndexesAssumption DEF Asking, Evaluate
  <2> HIDE DEF due, w, s, i
  <2>10. UNION {{h} \X (1 .. lookup_range(h, op, v, e)) : h \in Asking(op, v)}
           = IF found THEN {<<Home[w], 1>>} ELSE {}
    <3>1. \A h \in Shard : lookup_range(h, op, v, e) = IF found /\ h = Home[w] THEN 1 ELSE 0
      BY <2>6, <2>7, <2>8 DEF lookup_range, w
    <3>2. \A h \in Shard : {h} \X (1 .. lookup_range(h, op, v, e))
                             = IF found /\ h = Home[w] THEN {<<Home[w], 1>>} ELSE {}
      <4>1. 1 .. 1 = {1} /\ 1 .. 0 = {}
        OBVIOUS
      <4>2. \A h : {h} \X {1} = {<<h, 1>>} /\ {h} \X {} = {}
        OBVIOUS
      <4> HIDE DEF found
      <4> QED  BY <3>1, <4>1, <4>2
    <3>3. CASE found
      <4>1. Home[w] \in Asking(op, v)
        BY <2>9, <3>3
      <4> HIDE DEF found
      <4> QED  BY <2>2, <2>9, <3>2, <3>3, <4>1
    <3>4. CASE ~found
      <4> HIDE DEF found
      <4> QED  BY <2>9, <3>2, <3>4
    <3> QED  BY <3>3, <3>4
  <2>11. FindNodeIdsPeered(op, v, e) = IF found THEN 1 ELSE 0
    <3>1. Cardinality({<<Home[w], 1>>}) = 1 /\ Cardinality({}) = 0
      BY FS_Singleton, FS_EmptySet
    <3> HIDE DEF found
    <3> QED  BY <2>10, <3>1 DEF FindNodeIdsPeered
  <2>12. (/\ i \in MatchingSlots(nodes[s], column[s], op, [value |-> v])
          /\ getProperty(column[s], i) = w) <=> found
    BY <2>2, <2>4, ScanFinds
  <2> QED  BY <2>11, <2>12 DEF w, s, i
<1>2. IInv => SearchesAgree
  BY <1>1
<1> QED  BY <1>2, IInvHolds, PTL

=============================================================================
