------------------------------ MODULE Algorithms ------------------------------
(***************************************************************************)
(* The graph algorithms of src/src/graph/algorithms/Connectivity.cpp and   *)
(* Distance.cpp: what they compute from the node ids and the edges they    *)
(* have read. Edges come as a sequence, in the order they were read.       *)
(***************************************************************************)
EXTENDS Integers, Sequences, FiniteSets, FiniteSetsExt, SequencesExt

\* adj: the lists of the neighbours, in the order of the edges.
Adjacent(edges, directed) ==
    LET both(e) == IF directed THEN <<e>> ELSE <<e, <<e[2], e[1]>>>>
        arcs    == FoldLeft(LAMBDA s, e : s \o both(e), <<>>, edges)
    IN  [u \in {a[1] : a \in Range(arcs)} |->
            LET leaving == SelectSeq(arcs, LAMBDA a : a[1] = u)
            IN  [i \in 1 .. Len(leaving) |-> leaving[i][2]]]

NeighboursIn(adj, u) == IF u \in DOMAIN adj THEN adj[u] ELSE <<>>

\* One neighbour of the node at the head of the queue: not counted yet, it is one hop further.
Visit(search, u, v) ==
    IF v \in DOMAIN search.dist
    THEN search
    ELSE [dist |-> [n \in DOMAIN search.dist \cup {v} |-> IF n = v THEN search.dist[u] + 1 ELSE search.dist[n]],
          Q    |-> Append(search.Q, v)]

\* The breadth-first search from one node: a round for each node that enters the queue.
BreadthFirst(nodes, adj, s) ==
    LET round(search) ==
            IF search.Q = <<>>
            THEN search
            ELSE FoldLeft(LAMBDA found, v : Visit(found, Head(search.Q), v),
                          [search EXCEPT !.Q = Tail(@)],
                          NeighboursIn(adj, Head(search.Q)))
    IN  FoldLeft(LAMBDA search, i : round(search),
                 [dist |-> [n \in {s} |-> 0], Q |-> <<s>>],
                 [i \in 1 .. Cardinality(nodes) |-> i]).dist

\* ReachablePeered: pairs; the visited set of the code is the domain of dist.
Reachable(nodes, edges, directed) ==
    LET adj == Adjacent(edges, directed)
    IN  UNION {{<<s, v>> : v \in DOMAIN BreadthFirst(nodes, adj, s) \ {s}} : s \in nodes}

\* DistancePeered and DiameterRangePeered.
Distance(nodes, edges, directed) ==
    LET adj == Adjacent(edges, directed)
    IN  UNION {LET dist == BreadthFirst(nodes, adj, s) IN {<<s, v, dist[v]>> : v \in DOMAIN dist \ {s}} : s \in nodes}

DiameterRange(nodes, edges, directed) == Max({t[3] : t \in Distance(nodes, edges, directed)} \cup {0})

-----------------------------------------------------------------------------
(* WeaklyConnectedComponentsPeered: a forest of parents *)

FindRoot(parent, i) ==
    LET up[k \in 0 .. Cardinality(DOMAIN parent)] == IF k = 0 THEN i ELSE parent[up[k - 1]]
    IN  up[Cardinality(DOMAIN parent)]

\* find_root: the nodes on the way to the root come to hang below it.
Compressed(parent, i) ==
    LET up[k \in 0 .. Cardinality(DOMAIN parent)] == IF k = 0 THEN i ELSE parent[up[k - 1]]
        root == FindRoot(parent, i)
        way  == {up[k] : k \in DOMAIN up}
    IN  [n \in DOMAIN parent |-> IF n \in way THEN root ELSE parent[n]]

\* union_sets: the smaller root becomes the parent of the other.
UnionSets(parent, i, j) ==
    LET roots == {FindRoot(parent, i), FindRoot(parent, j)}
    IN  [Compressed(Compressed(parent, i), j) EXCEPT ![Max(roots)] = Min(roots)]

WeaklyConnectedComponents(nodes, edges) ==
    LET forest == FoldLeft(LAMBDA parent, e : UnionSets(parent, e[1], e[2]), [n \in nodes |-> n], edges)
    IN  [u \in nodes |-> FindRoot(forest, u)]

IsConnected(nodes, edges) == Cardinality(Range(WeaklyConnectedComponents(nodes, edges))) <= 1

=============================================================================
