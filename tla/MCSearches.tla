------------------------------ MODULE MCSearches ------------------------------
(***************************************************************************)
(* An instance of Searches for TLC: a diamond 1-2-4, 1-3-4 with a bridge   *)
(* 2-3, a way back 4-1, a loop at 3 and a way 5-1 into it, on two shards.  *)
(* Each kind of search runs on the graphs that matter to it.               *)
(***************************************************************************)
EXTENDS Searches

FiveNodes == 1 .. 5

OddOrEven == [n \in FiveNodes |-> n % 2]

Ways == <<<<1, 2>>, <<1, 3>>, <<2, 4>>, <<3, 4>>, <<2, 3>>, <<4, 1>>, <<3, 3>>, <<5, 1>>>>

Base == [kind |-> "shortest", from |-> 1, to |-> 4, dir |-> "OUT", min |-> 1, max |-> 3, k |-> 2,
         which |-> "ALL", typed |-> TRUE, by |-> "function",
         concept |-> {}, sources |-> {}, targets |-> {}]

\* Those that ask only whether a relationship is there ...
Unpriced ==
    {[Base EXCEPT !.max = m, !.dir = d, !.to = t] : m \in 1 .. 3, d \in {"OUT", "IN", "BOTH"}, t \in {3, 4}}
        \cup {[Base EXCEPT !.kind = "paths", !.which = w, !.dir = "BOTH", !.min = m, !.to = t] :
                w \in {"ANY", "ALL", "K", "K_GROUP"}, m \in {0, 2}, t \in {1, 4}}
        \cup {[Base EXCEPT !.kind = "paths", !.typed = FALSE]}
        \cup {[Base EXCEPT !.kind = "khop", !.max = m, !.dir = d] : m \in 0 .. 3, d \in {"OUT", "BOTH"}}
        \cup {[Base EXCEPT !.kind = "analysis", !.dir = d] : d \in {"OUT", "BOTH"}}
        \cup {[Base EXCEPT !.kind = "analysis", !.concept = {2, 3}, !.sources = {1, 5, 7}, !.targets = {3, 4}]}

\* ... those that ask every relationship for its cost, and those that read the costs in batches,
\* or from further away.
PricedByFunction ==
    {[Base EXCEPT !.kind = w, !.dir = d] : w \in {"cheapest", "allCheapest"}, d \in {"OUT", "BOTH"}}
        \cup {[Base EXCEPT !.kind = "kCheapest", !.k = k] : k \in {2, 3}}

PricedByProperty == {[Base EXCEPT !.kind = "cheapest", !.by = "property", !.dir = d] : d \in {"OUT", "BOTH"}}

FromFar == {[Base EXCEPT !.kind = "cheapest", !.by = b, !.from = 5] : b \in {"function", "property"}}

Requests == Unpriced \cup PricedByFunction \cup PricedByProperty \cup FromFar

Among(rels, values) == {c \in [Rel -> values \cup {Gone}] : \A r \in Rel \ rels : c[r] = Gone}

Long == [s \in Shard |-> 8]

\* The graphs, with how far their columns reach.
Graphs ==
    (Among(1 .. 7, {3}) \X {Long})
        \cup (Among(1 .. 6, {0, 3}) \X {Long})
        \cup (Among(1 .. 5, {3, Unset}) \X {[s \in Shard |-> IF s = 1 THEN 2 ELSE 5], [s \in Shard |-> 4]})
        \cup (Among({1, 3, 4, 5, 8}, {0, 3}) \X {Long})

Suits(q) ==
    LET there == {r \in Rel : cost[r] # Gone}
    IN  CASE q \in Unpriced -> \A r \in there : r # 8 /\ cost[r] = 3
          [] q \in PricedByFunction -> there \subseteq 1 .. 6 /\ filled = Long
          [] q \in PricedByProperty -> there \subseteq 1 .. 5
          [] OTHER -> 7 \notin there /\ there \subseteq {1, 3, 4, 5, 8} /\ 8 \in there /\ filled = Long

MCInit ==
    /\ \E g \in Graphs : cost = g[1] /\ filled = g[2]
    /\ Init

MCNext ==
    \/ \E q \in Request : Suits(q) /\ Ask(q)
    \/ \E r \in Changing, c \in IF request \in Unpriced THEN {3, Gone} ELSE Cost \cup {Gone, Unset} : Change(r, c)
    \/ Step

MCSpec == MCInit /\ [][MCNext]_vars /\ WF_vars(Step)

=============================================================================
