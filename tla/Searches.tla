------------------------------- MODULE Searches -------------------------------
(***************************************************************************)
(* The path searches of src/src/graph/peered/ShortestPath.cpp and the      *)
(* neighbourhoods of peered/KHop.cpp.                                      *)
(*                                                                         *)
(* A search is a coroutine on one shard. Its maps, queue and levels are    *)
(* its own; the links of a node are read on the node's shard, the cost of  *)
(* a relationship on the relationship's, and while it waits for them       *)
(* other requests change the graph. One action is what happens between two *)
(* waits. The nodes stay; a relationship appears, disappears or changes    *)
(* its cost on both its ends at once (GraphShards has the steps between).  *)
(*                                                                         *)
(* Sets stand for the vectors of links: wherever the order of the links    *)
(* decides (which parent a node gets, where two searches meet), the model  *)
(* takes any. Relationship types are those asked for, or none named. A     *)
(* relationship lives on the shard of the node it leaves; costs are one    *)
(* property of one type, and ids of a shard follow the slots of its column.*)
(***************************************************************************)
EXTENDS Algorithms

CONSTANTS Node,        \* node ids
          Shard,       \* shard ids
          ShardOf,     \* the shard of a node
          Rel,         \* the relationships there can be
          Ends,        \* their starting and ending nodes
          Cost,        \* what a relationship costs
          Gone,        \* a relationship that is not there
          Unset,       \* a relationship without a number for its cost
          TraceLimit,  \* how far Dijkstra's parents are followed: 1000
          Request,     \* what is asked
          Changing,    \* the relationships that change while a search runs
          MaxChanges   \* bound of the model: changes while one search runs

ASSUME SearchesAssumption ==
    /\ Node \subseteq Nat \ {0} /\ IsFiniteSet(Node)
    /\ Rel \subseteq Nat \ {0}
    /\ ShardOf \in [Node -> Shard]
    /\ Ends \in [Rel -> Node \X Node]
    /\ Cost \subseteq Nat
    /\ Gone \notin Nat /\ Unset \notin Nat /\ Gone # Unset
    /\ TraceLimit \in Nat \ {0}
    /\ Changing \subseteq Rel
    /\ MaxChanges \in Nat
    /\ \A q \in Request : q.from \in Node /\ q.to \in Node /\ q.max \in Nat

VARIABLES cost,       \* cost[r]: the cost of relationship r, Unset without one, Gone when it is not there
          filled,     \* filled[s]: the last slot the shard's column of costs has been grown to
          changes,    \* changes since the search began
          request,    \* what is being searched
          work        \* the variables of the coroutine

vars == <<cost, filled, changes, request, work>>

Side == {"forward", "backward"}

Opposite(dir) == CASE dir = "OUT" -> "IN" [] dir = "IN" -> "OUT" [] OTHER -> "BOTH"

Other(side) == IF side = "forward" THEN "backward" ELSE "forward"

\* NodeGetLinks: the list of a direction, or both lists. A loop is in both; only the trails of
\* ShortestPathsPeered count it twice (Lists).
NodeGetLinks(n, dir) ==
    LET there == {r \in Rel : cost[r] # Gone}
    IN  {[node |-> Ends[r][2], rel |-> r] : r \in {r \in there : dir # "IN" /\ Ends[r][1] = n}}
            \cup
        {[node |-> Ends[r][1], rel |-> r] : r \in {r \in there : dir # "OUT" /\ Ends[r][2] = n}}

\* The lists of its starting node that hold a link.
Lists(l, dir) ==
    {list \in {"OUT", "IN"} :
        /\ dir # Opposite(list)
        /\ Ends[l.rel] = IF list = "OUT" THEN <<l.from, l.node>> ELSE <<l.node, l.from>>}

Home(r) == ShardOf[Ends[r][1]]

Root == [node |-> 0, rel |-> 0]

NoPath == [nodes |-> <<>>, rels |-> <<>>, weight |-> 0]

OneNode(n) == [nodes |-> <<n>>, rels |-> <<>>, weight |-> 0]

Idle == [at |-> "idle"]

Answered(a) == [at |-> "answered", answer |-> a]

Unread == [n \in {} |-> {}]

Init ==
    /\ cost \in [Rel -> Cost \cup {Gone, Unset}]
    /\ filled \in [Shard -> Nat]
    /\ \A r \in Rel : cost[r] \in Cost => r <= filled[Home(r)]
    /\ changes = 0
    /\ request = Idle
    /\ work = Idle

At(kinds, step) == work.at = step /\ request.kind \in kinds

-----------------------------------------------------------------------------
(* Waiting for links *)

\* The links of one of the nodes asked for arrive.
NodeGetLinksPeered(n) ==
    /\ work.at = "reading"
    /\ n \in work.pending
    /\ LET dir == IF "side" \in DOMAIN work /\ work.side = "backward"
                  THEN Opposite(request.dir)
                  ELSE request.dir
           links == IF request.kind = "paths" /\ ~request.typed THEN {} ELSE NodeGetLinks(n, dir)
       IN  work' = [work EXCEPT !.pending = @ \ {n},
                                !.read = [m \in DOMAIN @ \cup {n} |-> IF m = n THEN links ELSE @[m]]]
    /\ UNCHANGED <<cost, filled, changes, request>>

Reading(w, nodes) == [w EXCEPT !.at = "reading", !.pending = nodes, !.read = Unread]

LinksRead == UNION {{[from |-> n, node |-> l.node, rel |-> l.rel] : l \in work.read[n]} : n \in DOMAIN work.read}

RelsRead == {l.rel : l \in LinksRead}

HasRead(kinds) == At(kinds, "reading") /\ work.pending = {}

-----------------------------------------------------------------------------
(* ShortestPathPeered: one breadth-first search from each end *)

FromBothEnds(q) ==
    [at      |-> "level",
     side    |-> "forward",
     parent  |-> [s \in Side |-> [n \in {IF s = "forward" THEN q.from ELSE q.to} |-> Root]],
     level   |-> [s \in Side |-> {IF s = "forward" THEN q.from ELSE q.to}],
     hops    |-> [s \in Side |-> 0],
     pending |-> {}, read |-> Unread]

HopsSpent == work.hops["forward"] + work.hops["backward"]

GoesOn_OneTooFar ==
    /\ \A s \in Side : work.level[s] # {}
    /\ HopsSpent <= request.max

GoesOn ==
    /\ \A s \in Side : work.level[s] # {}
    /\ HopsSpent < request.max

\* The side with the smaller level takes the next hop.
ExpandLevel ==
    LET side == IF Cardinality(work.level["forward"]) <= Cardinality(work.level["backward"])
                THEN "forward" ELSE "backward"
    IN  /\ At({"shortest"}, "level")
        /\ GoesOn
        /\ work' = Reading([work EXCEPT !.side = side, !.hops[side] = @ + 1], work.level[side])
        /\ UNCHANGED <<cost, filled, changes, request>>

NotFound ==
    /\ At({"shortest"}, "level")
    /\ ~GoesOn
    /\ work' = Answered(NoPath)
    /\ UNCHANGED <<cost, filled, changes, request>>

NewLinks_SeenToo == LinksRead

NewLinks == {l \in LinksRead : l.node \notin DOMAIN work.parent[work.side]}

MeetingLinks == {l \in NewLinks : l.node \in DOMAIN work.parent[Other(work.side)]}

WithParents(parent, p) == [n \in DOMAIN parent \cup DOMAIN p |-> IF n \in DOMAIN p THEN p[n] ELSE parent[n]]

LinksTo(links, n) == {l \in links : l.node = n}

\* No new node has been seen from the other end: they are the next level.
NextLevel ==
    LET new == {l.node : l \in NewLinks}
    IN  /\ HasRead({"shortest"})
        /\ MeetingLinks = {}
        /\ \E p \in [new -> {[node |-> l.from, rel |-> l.rel] : l \in NewLinks}] :
              /\ \A n \in new : \E l \in LinksTo(NewLinks, n) : p[n] = [node |-> l.from, rel |-> l.rel]
              /\ work' = [work EXCEPT !.at = "level", !.read = Unread,
                                      !.level[work.side] = new,
                                      !.parent[work.side] = WithParents(@, p)]
        /\ UNCHANGED <<cost, filled, changes, request>>

\* The chain of parents from n, as far as it leads.
Chain(parent, n) ==
    LET up == [m \in Node \cup {0} |-> IF m \in DOMAIN parent THEN parent[m] ELSE Root]
        chain[i \in 1 .. Cardinality(Node) + 1] ==
            IF i = 1 THEN [node |-> n, rel |-> 0] ELSE up[chain[i - 1].node]
        length == Max({i \in DOMAIN chain : chain[i] # Root})
    IN  [i \in 1 .. length |-> chain[i]]

NodesOf(chain) == [i \in 1 .. Len(chain) |-> chain[i].node]

RelsOf(chain) == [i \in 1 .. Len(chain) - 1 |-> chain[i + 1].rel]

\* The first new node the other end has seen ends the search; the path is read off both maps.
Meet ==
    /\ HasRead({"shortest"})
    /\ \E l \in MeetingLinks :
          LET parent == [work.parent EXCEPT ![work.side] =
                            WithParents(@, [n \in {l.node} |-> [node |-> l.from, rel |-> l.rel]])]
          IN  \* Each chain is computed once.
              \E forth \in {Chain(parent["forward"], l.node)}, back \in {Chain(parent["backward"], l.node)} :
                 work' = [at     |-> "found",
                          nodes  |-> Reverse(NodesOf(forth)) \o Tail(NodesOf(back)),
                          rels   |-> Reverse(RelsOf(forth)) \o RelsOf(back),
                          weight |-> 0]
    /\ UNCHANGED <<cost, filled, changes, request>>

-----------------------------------------------------------------------------
(* ShortestWeightedPathPeered and AllCheapestWeightedPathsPeered: Dijkstra *)

Weighted == {"cheapest", "allCheapest"}

FromStart(q) ==
    [at        |-> "queue",
     distances |-> [n \in {q.from} |-> 0],
     parent    |-> [n \in {q.from} |-> {}],
     pq        |-> {<<0, q.from>>},
     top       |-> <<0, q.from>>,
     best      |-> Gone,                  \* min_cost_found
     pending   |-> {}, read |-> Unread]

Before(a, b) == a[1] < b[1] \/ (a[1] = b[1] /\ a[2] <= b[2])

Top == CHOOSE a \in work.pq : \A b \in work.pq : Before(a, b)

\* The search ends at an empty queue, at the end node, or, when all paths are asked for,
\* at the first entry that costs more than the end node did.
Arrives == work.pq # {} /\ Top[2] = request.to

BestSoFar == IF Arrives THEN Top[1] ELSE work.best

Ending ==
    \/ work.pq = {}
    \/ request.kind = "cheapest" /\ Arrives
    \/ request.kind = "allCheapest" /\ work.pq # {} /\ BestSoFar # Gone /\ Top[1] > BestSoFar

\* An entry that was overtaken by a shorter one is dropped; the others have their links read.
Pop_KeepsEntry ==
    /\ At(Weighted, "queue")
    /\ ~Ending
    /\ LET w == [work EXCEPT !.top = Top, !.best = BestSoFar]
       IN  work' = IF Top[1] > work.distances[Top[2]] THEN w ELSE Reading(w, {Top[2]})
    /\ UNCHANGED <<cost, filled, changes, request>>

Pop ==
    /\ At(Weighted, "queue")
    /\ ~Ending
    /\ LET w == [work EXCEPT !.pq = @ \ {Top}, !.top = Top, !.best = BestSoFar]
       IN  work' = IF Top[1] > work.distances[Top[2]] THEN w ELSE Reading(w, {Top[2]})
    /\ UNCHANGED <<cost, filled, changes, request>>

\* RelationshipsGetPropertyPeered: a shard reads the costs of those asked of it, or, when one of
\* them has gone or is beyond its column, none.
Legible(rels, r) ==
    \A o \in rels : Home(o) = Home(r) => cost[o] # Gone /\ o <= filled[Home(o)]

\* What has not been read, or is no number, costs 1. A cost function gets each relationship by
\* itself (RelationshipsGetPeered).
Charge(rels, r) ==
    IF cost[r] \in Cost /\ (request.by = "property" => Legible(rels, r)) THEN cost[r] ELSE 1

Improved(n, d) == n \notin DOMAIN work.distances \/ d < work.distances[n]

Ties(n, d) == request.kind = "allCheapest" /\ n \in DOMAIN work.distances /\ d = work.distances[n]

\* The costs arrive, and every link shortens the way to its node, ties it, or is left.
Relax ==
    LET links      == LinksRead
        reached    == {l.node : l \in links}
        dist(l)    == work.top[1] + Charge(RelsRead, l.rel)
        least(n)   == Min({dist(l) : l \in LinksTo(links, n)})
        nearest(n) == {[node |-> l.from, rel |-> l.rel] : l \in {k \in LinksTo(links, n) : dist(k) = least(n)}}
        better     == {n \in reached : Improved(n, least(n))}
        tied       == {n \in reached : Ties(n, least(n))}
        via(n, p)  == IF request.kind = "cheapest" THEN {p} ELSE nearest(n)
    IN  /\ HasRead(Weighted)
        /\ \E first \in [better -> {[node |-> l.from, rel |-> l.rel] : l \in links}] :
              /\ \A n \in better : first[n] \in nearest(n)
              /\ work' = [work EXCEPT
                    !.at = "queue", !.read = Unread,
                    !.distances = WithParents(@, [n \in better |-> least(n)]),
                    !.parent = WithParents(WithParents(@, [n \in tied |-> @[n] \cup nearest(n)]),
                                          [n \in better |-> via(n, first[n])]),
                    !.pq = @ \cup UNION {{<<dist(l), n>> : l \in {k \in LinksTo(links, n) : Improved(n, dist(k))}} :
                                         n \in better}]
        /\ UNCHANGED <<cost, filled, changes, request>>

Unreachable ==
    /\ At({"cheapest"}, "queue")
    /\ work.pq = {}
    /\ work' = Answered(NoPath)
    /\ UNCHANGED <<cost, filled, changes, request>>

\* A path of more relationships than the limit loses what follows its start.
Cut(p) ==
    LET over == Len(p.rels) - TraceLimit
    IN  IF over <= 0 THEN p
        ELSE [nodes |-> <<p.nodes[1]>> \o SubSeq(p.nodes, over + 2, Len(p.nodes)),
              rels  |-> SubSeq(p.rels, over + 1, Len(p.rels))]

\* "while (curr != id)": the parents lead back from the end node, until trace_count is over the limit.
TraceBack ==
    LET parent == [n \in DOMAIN work.parent |->
                     IF work.parent[n] = {} THEN Root ELSE CHOOSE p \in work.parent[n] : TRUE]
    IN  /\ At({"cheapest"}, "queue")
        /\ Arrives
        /\ \E chain \in {Chain(parent, request.to)} :
              LET p == Cut([nodes |-> Reverse(NodesOf(chain)), rels |-> Reverse(RelsOf(chain))])
              IN  work' = [at     |-> "found",
                           nodes  |-> p.nodes,
                           rels   |-> p.rels,
                           weight |-> work.distances[request.to]]
        /\ UNCHANGED <<cost, filled, changes, request>>

\* Every way back that repeats no node.
Backtracks ==
    LET step(c) == {Append(c, p) : p \in {p \in work.parent[Last(c).node] : \A i \in 1 .. Len(c) : c[i].node # p.node}}
        ways[i \in 1 .. Cardinality(Node)] ==
            IF i = 1 THEN {<<[node |-> request.to, rel |-> 0]>>}
            ELSE UNION {step(c) : c \in {c \in ways[i - 1] : Last(c).node # request.from}}
    IN  UNION {{c \in ways[i] : Last(c).node = request.from} : i \in 1 .. Cardinality(Node)}

Backtrack ==
    /\ At({"allCheapest"}, "queue")
    /\ Ending
    /\ work' = [at    |-> "found",
                paths |-> IF BestSoFar = Gone THEN {}
                          ELSE {[nodes |-> Reverse(NodesOf(c)), rels |-> Reverse(RelsOf(c)), weight |-> BestSoFar] :
                                c \in Backtracks}]
    /\ UNCHANGED <<cost, filled, changes, request>>
-----------------------------------------------------------------------------
(* ShortestPathsPeered: breadth first over trails *)

FromTrail(q) ==
    [at      |-> "level",
     paths   |-> {[nodes |-> <<q.from>>, rels |-> <<>>, lists |-> <<>>]},
     found   |-> {},
     groups  |-> 0,                   \* levels with a path found
     depth   |-> 1,
     done    |-> FALSE,
     pending |-> {}, read |-> Unread]

LevelsLeft == work.depth <= request.max /\ work.paths # {} /\ ~work.done

ExpandTrails ==
    /\ At({"paths"}, "level")
    /\ LevelsLeft
    /\ work' = Reading(work, {Last(p.nodes) : p \in work.paths})
    /\ UNCHANGED <<cost, filled, changes, request>>

Extends(p, l) == Last(p.nodes) = l.from /\ \A i \in 1 .. Len(p.rels) : p.rels[i] # l.rel

\* A link that is in both lists gives two paths.
Extended(p) ==
    {[nodes |-> Append(p.nodes, s[1].node), rels |-> Append(p.rels, s[1].rel), lists |-> Append(p.lists, s[2])] :
     s \in {s \in LinksRead \X {"OUT", "IN"} : Extends(p, s[1]) /\ s[2] \in Lists(s[1], request.dir)}}

\* Enough has been found for what was asked, when a level that found something ends.
Enough(found, groups) ==
    CASE request.which = "K"       -> Cardinality(found) >= request.k
      [] request.which = "K_GROUP" -> groups >= request.k
      [] OTHER                     -> TRUE

\* Paths that arrive within the bounds are found and not extended; the others go on.
TrailsLevel_ForgetsMin ==
    LET new  == UNION {Extended(p) : p \in work.paths}
        hits == {p \in new : Last(p.nodes) = request.to}
    IN  /\ HasRead({"paths"})
        /\ work' = [work EXCEPT !.at = "level", !.read = Unread,
                                !.paths = new \ hits, !.found = @ \cup hits, !.depth = @ + 1,
                                !.groups = IF hits = {} THEN @ ELSE @ + 1,
                                !.done = hits # {} /\ Enough(work.found \cup hits, work.groups + 1)]
        /\ UNCHANGED <<cost, filled, changes, request>>

TrailsLevel ==
    LET new  == UNION {Extended(p) : p \in work.paths}
        hits == {p \in new : Last(p.nodes) = request.to /\ work.depth >= request.min}
    IN  /\ HasRead({"paths"})
        /\ work' = [work EXCEPT !.at = "level", !.read = Unread,
                                !.paths = new \ hits, !.found = @ \cup hits, !.depth = @ + 1,
                                !.groups = IF hits = {} THEN @ ELSE @ + 1,
                                !.done = hits # {} /\ Enough(work.found \cup hits, work.groups + 1)]
        /\ UNCHANGED <<cost, filled, changes, request>>

\* found_paths.resize keeps the first, so the shorter ones.
Resized(found, k) ==
    {S \in SUBSET found :
        /\ Cardinality(S) = Min({k, Cardinality(found)})
        /\ \A p \in S, q \in found \ S : Len(p.rels) <= Len(q.rels)}

Resize ==
    /\ At({"paths"}, "level")
    /\ ~LevelsLeft
    /\ \E S \in CASE request.which = "K"   -> Resized(work.found, request.k)
                 [] request.which = "ANY" -> Resized(work.found, 1)
                 [] OTHER                 -> {work.found} :
          work' = [at |-> "found", paths |-> S]
    /\ UNCHANGED <<cost, filled, changes, request>>

-----------------------------------------------------------------------------
(* KHopIdsPeered, KHopCountsPeered *)

FromSeen(q) ==
    [at |-> "level", seen |-> {}, current |-> {q.from}, counts |-> <<>>, pending |-> {}, read |-> Unread]

HopsLeft == Len(work.counts) < request.max

ExpandHop ==
    /\ At({"khop"}, "level")
    /\ HopsLeft
    /\ work' = Reading([work EXCEPT !.current = @ \ work.seen, !.seen = @ \cup work.current],
                       work.current \ work.seen)
    /\ UNCHANGED <<cost, filled, changes, request>>

\* A hop that finds nothing ends the search: the counts that are missing repeat the last.
NextHop ==
    LET next  == {l.node : l \in LinksRead}
        count == Cardinality((work.seen \cup next) \ {request.from})
        left  == IF next = {} THEN request.max - Len(work.counts) ELSE 1
    IN  /\ HasRead({"khop"})
        /\ work' = [work EXCEPT !.at = "level", !.read = Unread, !.current = next,
                                !.counts = @ \o [i \in 1 .. left |-> count]]
        /\ UNCHANGED <<cost, filled, changes, request>>

HopsDone ==
    /\ At({"khop"}, "level")
    /\ ~HopsLeft
    /\ work' = Answered([ids    |-> (work.seen \cup work.current) \ {request.from},
                         counts |-> work.counts])
    /\ UNCHANGED <<cost, filled, changes, request>>

-----------------------------------------------------------------------------
(* What there is to find *)

\* The nodes at most i hops away, and from them the number of hops between two nodes.
Within(n, dir) ==
    LET within[i \in Nat] ==
            IF i = 0 THEN {n}
            ELSE LET near == within[i - 1]
                 IN  near \cup UNION {{l.node : l \in NodeGetLinks(m, dir)} : m \in near}
    IN  within

IsPath(p, q) ==
    /\ Len(p.nodes) = Len(p.rels) + 1
    /\ p.nodes[1] = q.from /\ Last(p.nodes) = q.to
    /\ \A i \in 1 .. Len(p.rels) :
          [node |-> p.nodes[i + 1], rel |-> p.rels[i]] \in NodeGetLinks(p.nodes[i], q.dir)

\* The trails that leave the start, by length.
TrailsFrom(q) ==
    LET onward(p) == {[nodes |-> Append(p.nodes, l.node), rels |-> Append(p.rels, l.rel)] :
                      l \in {l \in NodeGetLinks(Last(p.nodes), q.dir) : \A i \in 1 .. Len(p.rels) : p.rels[i] # l.rel}}
        trails[i \in Nat] ==
            IF i = 0 THEN {[nodes |-> <<q.from>>, rels |-> <<>>]}
            ELSE UNION {onward(p) : p \in trails[i - 1]}
    IN  trails

\* What the search for paths is charged for a relationship when it leaves node n by it.
PriceFrom(n, r) == Charge({l.rel : l \in NodeGetLinks(n, request.dir)}, r)

Weight(p) ==
    LET sum[i \in 0 .. Len(p.rels)] == IF i = 0 THEN 0 ELSE sum[i - 1] + PriceFrom(p.nodes[i], p.rels[i])
    IN  sum[Len(p.rels)]

SimplePaths(q) ==
    LET trails == TrailsFrom(q)
    IN  {p \in UNION {trails[i] : i \in 0 .. Cardinality(Node) - 1} :
            /\ Last(p.nodes) = q.to
            /\ \A i, j \in 1 .. Len(p.nodes) : i # j => p.nodes[i] # p.nodes[j]}

Cheapest(q) ==
    LET paths == SimplePaths(q)
    IN  {p \in paths : \A o \in paths : Weight(p) <= Weight(o)}

-----------------------------------------------------------------------------
(* KCheapestWeightedPathsPeered: the cheapest path, and then its deviations. Each of the *)
(* searches it starts is one step here; what it finds is what Dijkstra above finds.       *)

Priced(p) == [nodes |-> Cut(p).nodes, rels |-> Cut(p).rels, weight |-> Weight(p)]

FromFirst(q) == [at |-> "first", A |-> <<>>, B |-> {}, spur |-> 0]

FirstPath ==
    /\ At({"kCheapest"}, "first")
    /\ IF SimplePaths(request) = {} \/ request.k = 0
       THEN work' = Answered(<<>>)
       ELSE \E p \in Cheapest(request) : work' = [work EXCEPT !.at = "spur", !.A = <<Priced(p)>>, !.spur = 1]
    /\ UNCHANGED <<cost, filled, changes, request>>

LastPath == Last(work.A)

\* The relationships at position i of the paths found that visit the same nodes up to there.
ExcludedRels(i) ==
    {work.A[j].rels[i] : j \in {j \in 1 .. Len(work.A) :
        /\ Len(work.A[j].rels) >= i
        /\ SubSeq(work.A[j].nodes, 1, i) = SubSeq(LastPath.nodes, 1, i)}}

SpurPaths(i) ==
    LET q     == [request EXCEPT !.from = LastPath.nodes[i]]
        ok(p) == /\ \A j \in 1 .. i - 1 : \A m \in 1 .. Len(p.nodes) : p.nodes[m] # LastPath.nodes[j]
                 /\ \A m \in 1 .. Len(p.rels) : p.rels[m] \notin ExcludedRels(i)
        paths == {p \in SimplePaths(q) : ok(p)}
    IN  {p \in paths : \A o \in paths : Weight(p) <= Weight(o)}

\* The way to the i-th node of the last path, and from there a way not taken yet.
Deviation(i, p) ==
    LET root == [nodes |-> SubSeq(LastPath.nodes, 1, i), rels |-> SubSeq(LastPath.rels, 1, i - 1)]
        spur == Priced(p)
    IN  [nodes  |-> root.nodes \o Tail(spur.nodes),
         rels   |-> root.rels \o spur.rels,
         weight |-> Weight(root) + spur.weight]

Known(c) == \E p \in Range(work.A) \cup work.B : p.rels = c.rels

Spur ==
    LET i == work.spur
    IN  /\ At({"kCheapest"}, "spur")
        /\ Len(work.A) < request.k
        /\ i < Len(LastPath.nodes)
        /\ \/ /\ SpurPaths(i) = {}
              /\ work' = [work EXCEPT !.spur = i + 1]
           \/ \E p \in SpurPaths(i) :
                 work' = [work EXCEPT !.spur = i + 1,
                                      !.B = IF Known(Deviation(i, p)) THEN @ ELSE @ \cup {Deviation(i, p)}]
        /\ UNCHANGED <<cost, filled, changes, request>>

\* The cheapest deviation is the next path.
NextBest ==
    /\ At({"kCheapest"}, "spur")
    /\ Len(work.A) < request.k
    /\ work.spur >= Len(LastPath.nodes)
    /\ work.B # {} /\ Len(LastPath.nodes) >= 2
    /\ \E b \in {b \in work.B : \A c \in work.B : b.weight <= c.weight} :
          work' = [work EXCEPT !.A = Append(@, b), !.B = @ \ {b}, !.spur = 1]
    /\ UNCHANGED <<cost, filled, changes, request>>

NoMore ==
    /\ At({"kCheapest"}, "spur")
    /\ \/ Len(work.A) >= request.k
       \/ Len(LastPath.nodes) < 2
       \/ work.spur >= Len(LastPath.nodes) /\ work.B = {}
    /\ work' = Answered(work.A)
    /\ UNCHANGED <<cost, filled, changes, request>>

-----------------------------------------------------------------------------
(* The algorithms, which read all the edges and then compute: GetGraphEdges. What is      *)
(* computed from the edges is in Algorithms.                                              *)

\* The ids of the relationships are read before the relationships ...
AllRelationshipIds ==
    /\ At({"analysis"}, "level")
    /\ request.concept = {}
    /\ work' = [at |-> "ids", ids |-> SetToSortSeq({r \in Rel : cost[r] # Gone}, <)]
    /\ UNCHANGED <<cost, filled, changes, request>>

\* ... and one that has gone since is read as a Relationship between nodes 0 and 0.
EdgesOfIds ==
    /\ At({"analysis"}, "ids")
    /\ work' = Answered([i \in DOMAIN work.ids |-> IF cost[work.ids[i]] = Gone THEN <<0, 0>> ELSE Ends[work.ids[i]]])
    /\ UNCHANGED <<cost, filled, changes, request>>

\* Or nodes stand for the edges.
AllEdgeNodes ==
    /\ At({"analysis"}, "level")
    /\ request.concept # {}
    /\ work' = [at |-> "source", left |-> SetToSortSeq(request.concept, <), source |-> {}, edges |-> <<>>]
    /\ UNCHANGED <<cost, filled, changes, request>>

\* Where the first link of a node by some relationships can lead: the outgoing ones come first.
FirstNeighbours(n, rels) ==
    LET out == {l.node : l \in {l \in NodeGetLinks(n, "OUT") : l.rel \in rels}}
    IN  IF out # {} THEN out ELSE {l.node : l \in {l \in NodeGetLinks(n, "IN") : l.rel \in rels}}

SourceOfEdge ==
    /\ At({"analysis"}, "source")
    /\ work.left # <<>>
    /\ work' = [work EXCEPT !.at = "target", !.source = FirstNeighbours(Head(work.left), request.sources)]
    /\ UNCHANGED <<cost, filled, changes, request>>

\* A node without the one or the other end is no edge.
TargetOfEdge ==
    LET edges == work.source \X FirstNeighbours(Head(work.left), request.targets)
    IN  /\ At({"analysis"}, "target")
        /\ \E new \in IF edges = {} THEN {<<>>} ELSE {<<e>> : e \in edges} :
              work' = [work EXCEPT !.at = "source", !.left = Tail(@), !.edges = @ \o new]
        /\ UNCHANGED <<cost, filled, changes, request>>

EdgesOfNodes ==
    /\ At({"analysis"}, "source")
    /\ work.left = <<>>
    /\ work' = Answered(work.edges)
    /\ UNCHANGED <<cost, filled, changes, request>>

-----------------------------------------------------------------------------
(* The request, the graph, and the answer *)

Start(q) ==
    LET here == q.from = q.to
    IN  CASE q.kind = "khop" -> FromSeen(q)
          [] q.kind = "analysis" -> [at |-> "level"]
          [] q.kind = "paths" ->
                IF here /\ q.min = 0 THEN Answered(FromTrail(q).paths) ELSE FromTrail(q)
          [] q.kind = "allCheapest" -> IF here THEN Answered({OneNode(q.from)}) ELSE FromStart(q)
          [] q.kind = "kCheapest" -> FromFirst(q)
          [] q.kind = "shortest" -> IF here THEN Answered(OneNode(q.from)) ELSE FromBothEnds(q)
          [] OTHER -> IF here THEN Answered(OneNode(q.from)) ELSE FromStart(q)

Ask(q) ==
    /\ work = Idle
    /\ request' = q
    /\ work' = Start(q)
    /\ changes' = 0
    /\ UNCHANGED <<cost, filled>>

\* Another request adds or removes a relationship, or changes its cost; the column grows to the
\* slot that is written.
Change(r, c) ==
    /\ work.at \notin {"idle", "answered"}
    /\ changes < MaxChanges
    /\ cost[r] # c
    /\ cost' = [cost EXCEPT ![r] = c]
    /\ filled' = IF c \in Cost THEN [filled EXCEPT ![Home(r)] = Max({@, r})] ELSE filled
    /\ changes' = changes + 1
    /\ UNCHANGED <<request, work>>

\* Those of a list of relationships that are still there, in their order.
StillThere(rels) ==
    LET there == {i \in 1 .. Len(rels) : cost[rels[i]] # Gone}
    IN  [n \in 1 .. Cardinality(there) |->
            rels[CHOOSE i \in there : Cardinality({j \in there : j <= i}) = n]]

\* RelationshipsGetPeered: a relationship that has gone since is left out of a path ...
Collect ==
    /\ At({"shortest", "cheapest"}, "found")
    /\ work' = Answered([nodes |-> work.nodes, weight |-> work.weight,
                         rels  |-> StillThere(work.rels)])
    /\ UNCHANGED <<cost, filled, changes, request>>

\* ... or out of each of several ...
CollectEach ==
    /\ At({"allCheapest"}, "found")
    /\ work' = Answered({[p EXCEPT !.rels = StillThere(@)] : p \in work.paths})
    /\ UNCHANGED <<cost, filled, changes, request>>

\* ... and makes unordered_map::at throw when a list of paths is put together.
CollectAll ==
    /\ At({"paths"}, "found")
    /\ work' = Answered(IF \A p \in work.paths : \A i \in 1 .. Len(p.rels) : cost[p.rels[i]] # Gone
                        THEN work.paths ELSE {})
    /\ UNCHANGED <<cost, filled, changes, request>>

Reply ==
    /\ work.at = "answered"
    /\ request' = Idle
    /\ work' = Idle
    /\ changes' = 0
    /\ UNCHANGED <<cost, filled>>

Step ==
    \/ \E n \in Node : NodeGetLinksPeered(n)
    \/ ExpandLevel \/ NextLevel \/ Meet \/ NotFound
    \/ Pop \/ Relax \/ Unreachable \/ TraceBack \/ Backtrack
    \/ ExpandTrails \/ TrailsLevel \/ Resize
    \/ FirstPath \/ Spur \/ NextBest \/ NoMore
    \/ ExpandHop \/ NextHop \/ HopsDone
    \/ AllRelationshipIds \/ EdgesOfIds
    \/ AllEdgeNodes \/ SourceOfEdge \/ TargetOfEdge \/ EdgesOfNodes
    \/ Collect \/ CollectEach \/ CollectAll \/ Reply

Next ==
    \/ \E q \in Request : Ask(q)
    \/ \E r \in Changing, c \in Cost \cup {Gone, Unset} : Change(r, c)
    \/ Step

Spec == Init /\ [][Next]_vars

\* Seastar resumes a coroutine whose future is ready.
FairSpec == Spec /\ WF_vars(Step)

-----------------------------------------------------------------------------
(* What the answers mean *)

\* An answer of a search while which nothing changed.
Undisturbed(kinds) == At(kinds, "answered") /\ changes = 0

Unweighted(p) == [nodes |-> p.nodes, rels |-> p.rels]

ShortestExact ==
    LET p       == work.answer
        hops(k) == request.to \in Within(request.from, request.dir)[k]
    IN  IF hops(request.max)
        THEN IsPath(p, request) /\ (Len(p.rels) = 0 \/ ~hops(Len(p.rels) - 1))
        ELSE p = NoPath

CheapestExact ==
    IF SimplePaths(request) = {}
    THEN work.answer = NoPath
    ELSE \E p \in Cheapest(request) : Unweighted(work.answer) = Cut(p) /\ work.answer.weight = Weight(p)

\* While nothing changes, stopping where the two breadth-first searches first meet loses no
\* shorter path, and a path is found whenever there is one within max_hops; dropping queue
\* entries that were overtaken loses no cheaper path, at the costs the search can read. The
\* weight is that of the whole path, also when its middle is cut off.
BestPathExact ==
    /\ Undisturbed({"shortest"}) => ShortestExact
    /\ Undisturbed({"cheapest"}) => CheapestExact

\* A trail goes along a loop of its direction once, but there are two lists to take it from.
ListsOf(p) ==
    {lists \in [1 .. Len(p.rels) -> {"OUT", "IN"}] :
        \A i \in 1 .. Len(p.rels) :
            lists[i] \in Lists([from |-> p.nodes[i], node |-> p.nodes[i + 1], rel |-> p.rels[i]], request.dir)}

\* The paths a selector counts: trails that pass the end node at no depth where they could end.
Eligible ==
    UNION {{[nodes |-> p.nodes, rels |-> p.rels, lists |-> lists] : lists \in ListsOf(p)} :
           p \in {p \in UNION {TrailsFrom(request)[i] : i \in request.min .. Min({request.max, Cardinality(Rel)})} :
                    /\ Last(p.nodes) = request.to
                    /\ \A i \in request.min .. Len(p.rels) - 1 : p.nodes[i + 1] # request.to}}

ShorterThan(p) == {Len(o.rels) : o \in {o \in Eligible : Len(o.rels) < Len(p.rels)}}

Selected ==
    CASE request.which = "ANY"     -> Resized(Eligible, 1)
      [] request.which = "ALL"     -> {{p \in Eligible : ShorterThan(p) = {}}}
      [] request.which = "K"       -> Resized(Eligible, request.k)
      [] request.which = "K_GROUP" -> {{p \in Eligible : Cardinality(ShorterThan(p)) < request.k}}

Parallel == \E r, o \in Rel : r # o /\ Gone \notin {cost[r], cost[o]} /\ {Ends[r][1], Ends[r][2]} = {Ends[o][1], Ends[o][2]}

\* The k-th answer is as cheap as the k-th cheapest path.
InOrderOfCost(A) ==
    LET paths == SimplePaths(request)
    IN  /\ Len(A) = Min({request.k, Cardinality(paths)})
        /\ \A i \in 1 .. Len(A) :
              /\ Unweighted(A[i]) \in paths
              /\ \A p \in paths :
                    Weight(p) < Weight(A[i]) => \E j \in 1 .. i - 1 : Unweighted(A[j]) = p
              /\ \A j \in 1 .. i - 1 : A[j] # A[i]

\* Each relationship is an edge, or each node of the concept that is joined to both ends.
EdgesExact(edges) ==
    IF request.concept = {}
    THEN \A e \in Node \X Node : Cardinality({i \in DOMAIN edges : edges[i] = e}) =
                                 Cardinality({r \in Rel : cost[r] # Gone /\ Ends[r] = e})
    ELSE LET joined(n, rels) == {m \in Node : \E r \in rels : cost[r] # Gone /\ {n, m} = {Ends[r][1], Ends[r][2]}}
             whole == {n \in request.concept : joined(n, request.sources) # {} /\ joined(n, request.targets) # {}}
         IN  \E node \in [DOMAIN edges -> whole] :
                /\ \A n \in whole : \E i \in DOMAIN edges : node[i] = n
                /\ Len(edges) = Cardinality(whole)
                /\ \A i \in DOMAIN edges : edges[i] \in joined(node[i], request.sources) \X joined(node[i], request.targets)

\* The nodes at most i hops away over some edges.
WithinEdges(edges, directed, n) ==
    LET next(m) == {k \in Node : <<m, k>> \in edges \/ (~directed /\ <<k, m>> \in edges)}
        within[i \in 0 .. Cardinality(Node)] ==
            IF i = 0 THEN {n} ELSE within[i - 1] \cup UNION {next(m) : m \in within[i - 1]}
    IN  within

AnalysisExact ==
    LET edges    == work.answer
        directed == request.dir = "OUT"
        far      == Cardinality(Node)
        within   == [n \in Node |-> WithinEdges(Range(edges), directed, n)]
        around   == [n \in Node |-> WithinEdges(Range(edges), FALSE, n)[far]]
        hops     == {t \in Node \X Node \X (1 .. far) :
                        t[2] \in within[t[1]][t[3]] /\ t[2] \notin within[t[1]][t[3] - 1]}
    IN  /\ EdgesExact(edges)
        /\ Reachable(Node, edges, directed) = {<<t[1], t[2]>> : t \in hops}
        /\ Distance(Node, edges, directed) = hops
        /\ DiameterRange(Node, edges, directed) = Max({t[3] : t \in hops} \cup {0})
        /\ WeaklyConnectedComponents(Node, edges) = [n \in Node |-> Min(around[n])]
        /\ IsConnected(Node, edges) <=> \A n \in Node : around[n] = Node

\* The parents of no path are cut.
WithinLimit == \A p \in SimplePaths(request) : Len(p.rels) <= TraceLimit

\* While nothing changes, the searches for several paths, or several nodes, find all of them and
\* no others: the ways back of Dijkstra's ties are the cheapest paths, levels end with the paths
\* of that length, deviations miss no path (between nodes joined once, and no further than parents
\* are followed), and k hops reach the nodes at distance 1 to k; the edges are those of the graph,
\* and breadth-first distances and union-find components those of the edges.
EveryPathFound ==
    /\ Undisturbed({"allCheapest"}) => {Unweighted(p) : p \in work.answer} = Cheapest(request)
    /\ Undisturbed({"paths"}) /\ request.typed => work.answer \in Selected
    /\ Undisturbed({"kCheapest"}) /\ ~Parallel /\ WithinLimit => InOrderOfCost(work.answer)
    /\ Undisturbed({"analysis"}) => AnalysisExact
    /\ Undisturbed({"khop"}) =>
          LET near(i) == Within(request.from, request.dir)[i] \ {request.from}
          IN  /\ work.answer.ids = near(request.max)
              /\ work.answer.counts = [i \in 1 .. request.max |-> Cardinality(near(i))]

\* Whatever changes while a search waits, the parents it has noted lead from the end back to the
\* start, over nodes that do not repeat, in no more hops than were allowed.
TracesBack ==
    At({"shortest", "cheapest"}, "found") =>
        /\ work.nodes[1] = request.from /\ Last(work.nodes) = request.to
        /\ Len(work.nodes) = Len(work.rels) + 1
        /\ \A i, j \in 1 .. Len(work.nodes) : i # j => work.nodes[i] # work.nodes[j]
        /\ request.kind = "shortest" => Len(work.rels) <= request.max

\* Every search comes to an end: levels run out, no overtaken entry is taken up again, whatever
\* relationships appear meanwhile.
EverySearchEnds == []<>(work = Idle)

=============================================================================
