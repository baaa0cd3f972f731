----------------------------- MODULE GqlRewriters -----------------------------
(***************************************************************************)
(* The optimizer's passes that put another plan in the place of a          *)
(* statement: views, counts, degrees, joins, paths over relations with     *)
(* algebraic traits (GqlOptimizer.cpp, optimizer/ *.cpp).                   *)
(***************************************************************************)
EXTENDS GqlPruners, TLC

EveryMatch(q, Op(_)) == [q EXCEPT !.matches = [i \in DOMAIN @ |-> Op(@[i])]]

\* Some elements of a list, by a condition on them.
Kept(s, Keep(_)) == SelectSeq(s, Keep)

-----------------------------------------------------------------------------
(* Virtual views *)

ViewsOf(n, cat) == {v \in cat.views : n.label = {v.name}}

\* The node becomes the first pattern of the view, which takes over its conditions at its first node.
ViewExpanded(q, i, j, v) ==
    LET node   == q.matches[i].nodes[j]
        target == IF Named(node) THEN node.variable ELSE "_v_node_" \o v.name
        result == v.query.returns[1]
        map    == [x \in VariablesOf(v.query.matches) |->
                      IF result = Variable(x) THEN target ELSE "_v_" \o v.name \o "_" \o x]
        path   == RenamedMatch(v.query.matches[1], map)
        first  == [path.nodes[1] EXCEPT !.properties = node.properties @@ @,
                                        !.filters = @ \cup node.filters,
                                        !.where = @ \cup node.where]
        spliced(m) ==
            [m EXCEPT !.nodes = SubSeq(@, 1, j - 1) \o <<first>> \o Tail(path.nodes) \o SubSeq(@, j + 1, Len(@)),
                      !.edges = SubSeq(@, 1, j - 1) \o path.edges \o SubSeq(@, j, Len(@))]
    IN  [q EXCEPT !.matches[i] = spliced(@), !.where = @ \cup {rewrite_expr_vars(e, map) : e \in v.query.where}]

RECURSIVE expand_views_recursive(_, _)
expand_views_recursive(q, cat) ==
    LET places == UNION {{<<i, j, v>> : j \in DOMAIN q.matches[i].nodes, v \in cat.views} : i \in DOMAIN q.matches}
        views  == {p \in places : p[3] \in ViewsOf(q.matches[p[1]].nodes[p[2]], cat)}
    IN  IF views = {} THEN q
        ELSE LET p == CHOOSE p \in views : TRUE
             IN  expand_views_recursive(ViewExpanded(q, p[1], p[2], p[3]), cat)

-----------------------------------------------------------------------------
(* AlgebraicRewriter *)

CountOf(x) == Aggregate("COUNT", Variable(x), FALSE)
CountStar  == Aggregate("COUNT", None, FALSE)

\* Hops of one type in one direction, from a named start to a named end that only a COUNT may mention.
PathCounted(q) ==
    LET m     == q.matches[1]
        n     == Len(m.nodes)
        inner == ToSet(SubSeq(m.nodes, 2, n - 1))
    IN  /\ Len(q.matches) = 1 /\ ~m.optional /\ n > 1
        /\ Named(m.nodes[1]) /\ Named(m.nodes[n])
        /\ \A e \in ToSet(m.edges) : Plain(e)
        /\ \/ /\ n = 2
              /\ m.edges[1].varlen /\ m.edges[1].min = m.edges[1].max /\ m.edges[1].min > 1
              /\ m.nodes[2].label = AnyLabel /\ Plain(m.nodes[2])
           \/ /\ n > 2
              /\ m.nodes[1].variable # m.nodes[n].variable
              /\ \A x \in inner : x.label = AnyLabel /\ Plain(x)
              /\ \A e \in ToSet(m.edges) :
                    ~e.varlen /\ e.label = m.edges[1].label /\ e.direction = m.edges[1].direction
        /\ \A x \in {m.nodes[n]} \cup inner \cup ToSet(m.edges) : ~ReferencedOutsideCount(q, x.variable)
        /\ ~query_has_distinct_aggregate(q)

CountedPaths(q) ==
    LET m    == q.matches[1]
        end  == m.nodes[Len(m.nodes)].variable
        hops == IF Len(m.nodes) = 2 THEN m.edges[1].min ELSE Len(m.edges)
    IN  [ProjectionsReplaced(q, [e \in {CountStar, CountOf(end)} |-> Variable(end)])
            EXCEPT !.matches[1] =
                [OnlyStart(m) EXCEPT !.count = [target |-> end, hops |-> hops, types |-> m.edges[1].label,
                                                direction |-> m.edges[1].direction]]]

\* SUM(a * b) with a the same for the whole group is a * SUM(b).
SumFactored(e, grouping) ==
    LET same(x) == \A s \in SubExpressions(x) :
                      /\ s.kind = "VARIABLE" => s.name \in grouping
                      /\ IsLookup(s) => s.variable \in grouping
        times(a, b) == Binary("MUL", a, Aggregate("SUM", b, FALSE))
    IN  IF /\ e.kind = "AGGREGATION" /\ e.fn = "SUM" /\ ~e.distinct
           /\ e.expr.kind = "BINARY_OP" /\ e.expr.op = "MUL"
        THEN IF same(e.expr.left) THEN times(e.expr.left, e.expr.right)
             ELSE IF same(e.expr.right) THEN times(e.expr.right, e.expr.left) ELSE e
        ELSE e

algebraic_rewriter_pass(q) ==
    LET counted  == IF PathCounted(q) THEN CountedPaths(q) ELSE q
        returned == ToSet(counted.returns)
        grouping == {e.name : e \in {e \in returned : e.kind = "VARIABLE"}}
                    \cup {e.variable : e \in {e \in returned : IsLookup(e)}}
    IN  [counted EXCEPT !.returns = [i \in DOMAIN @ |-> SumFactored(@[i], grouping)]]

-----------------------------------------------------------------------------
(* FunctionalDependencyPruner *)

\* A constraint against two nodes that agree in x and differ in y: x determines y within the label, the
\* left node's or, when it has none, the right one's.  One comparison of each kind is kept for a pair.
Dependencies(cat) ==
    LET compared(c, op) == {e \in c.where : /\ IsComparison(e) /\ e.op = op /\ IsLookup(e.left) /\ IsLookup(e.right)
                                            /\ e.left.property = e.right.property
                                            /\ e.left.variable # e.right.variable}
        pair(e) == {e.left.variable, e.right.variable}
        pairs(c, op) == {pair(e) : e \in compared(c, op)}
        kept(c, op, vs) == CHOOSE e \in compared(c, op) : pair(e) = vs
        literal(c, x) == UNION {n.label : n \in {n \in AllNodes(c) : n.variable = x /\ IsLiteralLabel(n.label)}}
        label(c, e) == IF literal(c, e.left.variable) # AnyLabel THEN literal(c, e.left.variable)
                       ELSE literal(c, e.right.variable)
        found(c) == {[label |-> label(c, kept(c, "EQ", vs)), by |-> kept(c, "EQ", vs).left.property,
                      given |-> kept(c, "NE", vs).left.property] : vs \in pairs(c, "EQ") \cap pairs(c, "NE")}
    IN  {d \in UNION {found(c) : c \in cat.constraints} : d.label # AnyLabel}

\* Counting what the group determines is counting its rows.
functional_dependency_pass(q, cat) ==
    LET determined ==
            {Aggregate("COUNT", Lookup(n.variable, d.given), FALSE) :
                <<n, d>> \in {p \in AllNodes(q) \X Dependencies(cat) :
                    /\ p[1].label = p[2].label
                    /\ Lookup(p[1].variable, p[2].by) \in ToSet(q.returns)}}
        map == [e \in determined |-> CountStar]
    IN  [ProjectionsReplaced(q, map) EXCEPT !.where = {Substituted(e, map) : e \in @}]

-----------------------------------------------------------------------------
(* AutomorphicSymmetryOptimizer *)

Places(q) == FlattenSeq([i \in DOMAIN q.matches |-> [j \in DOMAIN q.matches[i].nodes |-> <<i, j>>]])

VariableAt(q, place) == q.matches[place[1]].nodes[place[2]].variable

\* A condition is put on the first node at which the variables it compares have both been met.
InjectedWhenSeen(q, x, y) ==
    LET places == Places(q)
        seen(k) == {x, y} \subseteq {VariableAt(q, places[i]) : i \in 1 .. k}
        at == places[Min({k \in DOMAIN places : seen(k)})]
    IN  [q EXCEPT !.matches[at[1]].nodes[at[2]].where = @ \cup {Binary("LT", Variable(x), Variable(y))}]

\* Three nodes of one label, all joined by relationships of one type.
Triangle(q) ==
    LET nodes == AllNodes(q)
        edges == AllEdges(q)
        vars  == {n.variable : n \in nodes}
        labels(x) == {n.label : n \in {n \in nodes : n.variable = x}} \ {AnyLabel}
        joined == UNION {{{m.nodes[i].variable, m.nodes[i + 1].variable} : i \in DOMAIN m.edges} : m \in ToSet(q.matches)}
    IN  /\ Len(q.returns) = 1 /\ q.returns[1].kind = "AGGREGATION"
        /\ q.returns[1].fn = "COUNT" /\ ~q.returns[1].distinct
        /\ q.where = {}
        /\ \A m \in ToSet(q.matches) : m.count = NoCount
        /\ \A n \in nodes : Named(n) /\ Unfiltered(n)
        /\ \E l \in {n.label : n \in nodes} : IsLiteralLabel(l) /\ \A x \in vars : labels(x) = {l}
        /\ \A e \in edges : Unfiltered(e) /\ ~e.varlen /\ IsLiteralLabel(e.label) /\ e.direction # "ANY"
        /\ Cardinality({e.label : e \in edges}) = 1
        /\ Cardinality(vars) = 3
        /\ FoldSeq(LAMBDA m, n : Len(m.edges) + n, 0, q.matches) = 3
        /\ {s \in SUBSET vars : Cardinality(s) = 2} \subseteq joined

\* Of the three rotations of a triangle only the one that begins with its least node is counted, three times.
automorphic_symmetry_pass(q) ==
    IF ~Triangle(q) THEN q
    ELSE LET vars  == {n.variable : n \in AllNodes(q)}
             least == CHOOSE x \in vars : TRUE
             order == SetToSeq(vars \ {least})
         IN  [InjectedWhenSeen(InjectedWhenSeen(q, least, order[1]), least, order[2]) EXCEPT !.factor = 3]

-----------------------------------------------------------------------------
(* SchemaReachabilityPruner *)

\* The label a node states, or the one its variable states elsewhere.
KnownLabel(q, n) ==
    IF IsLiteralLabel(n.label) THEN n.label
    ELSE UNION {o.label : o \in {o \in AllNodes(q) : Named(o) /\ o.variable = n.variable /\ IsLiteralLabel(o.label)}}

\* The schema, where one is declared, allows no relationship of this type between these labels.
Impossible(q, m, i, cat) ==
    LET left  == KnownLabel(q, m.nodes[i])
        right == KnownLabel(q, m.nodes[i + 1])
        edge  == m.edges[i]
    IN  /\ cat.allowed # {} /\ IsLiteralLabel(edge.label) /\ AnyLabel \notin {left, right}
        /\ edge.direction # "LEFT"  => <<left, edge.label, right>> \notin cat.allowed
        /\ edge.direction # "RIGHT" => <<right, edge.label, left>> \notin cat.allowed

schema_reachability_pass(q, cat) ==
    Unsatisfiable(q, \E m \in ToSet(q.matches) : \E i \in DOMAIN m.edges : Impossible(q, m, i, cat))

-----------------------------------------------------------------------------
(* OptionalMatchPromoter *)

RECURSIVE is_null_rejecting(_, _)
is_null_rejecting(e, x) ==
    CASE e.kind = "VARIABLE"        -> e.name = x
      [] e.kind = "PROPERTY_LOOKUP" -> e.variable = x
      [] e.kind = "IS_NULL_CHECK"   -> e.not /\ is_null_rejecting(e.expr, x)
      [] e.kind = "NOT"             -> is_null_rejecting(e.expr, x)
      [] e.kind = "BINARY_OP"       ->
            IF e.op = "OR" THEN is_null_rejecting(e.left, x) /\ is_null_rejecting(e.right, x)
            ELSE is_null_rejecting(e.left, x) \/ is_null_rejecting(e.right, x)
      [] OTHER                      -> FALSE

optional_match_promotion_pass(q) ==
    LET rejected(m) == \E x \in VariablesOf(<<m>>) \ {m.nodes[1].variable} :
                          \E e \in q.where : is_null_rejecting(e, x)
    IN  EveryMatch(q, LAMBDA m : IF m.optional /\ rejected(m) THEN [m EXCEPT !.optional = FALSE] ELSE m)

-----------------------------------------------------------------------------
(* DegreeConstraintPruner *)

Degree(name, types, direction) == [property |-> name, types |-> types, direction |-> direction]

WithDegrees(q, place, degrees) == [q EXCEPT !.matches[place[1]].nodes[place[2]].degree = @ \cup degrees]

OneStep(m) == Len(m.nodes) = 2 /\ ~m.edges[1].varlen

\* size() of one step from a node of the statement is read as a degree the scan of that node fills in.
degree_constraint_pruning_pass(q) ==
    LET sizes == {e \in UNION {SubExpressions(e) : e \in AllConditions(q) \cup ToSet(q.returns)} :
                    /\ e.kind = "SIZE_OP" /\ OneStep(e.matches[1])
                    /\ e.matches[1].nodes[1].variable \in {n.variable : n \in {n \in AllNodes(q) : Named(n)}}}
        start(e) == e.matches[1].nodes[1].variable
        edge(e)  == e.matches[1].edges[1]
        types(e) == IF IsLiteralLabel(edge(e).label) THEN edge(e).label ELSE AnyLabel
        name(e)  == "_deg_" \o ToString(types(e)) \o edge(e).direction
        map      == [e \in sizes |-> Lookup(start(e), name(e))]
        replaced(conditions) == {Substituted(e, map) : e \in conditions}
        inlined  == [i \in DOMAIN q.matches |->
                        [q.matches[i] EXCEPT
                            !.nodes = [j \in DOMAIN @ |-> [@[j] EXCEPT !.where = replaced(@)]],
                            !.edges = [j \in DOMAIN @ |-> [@[j] EXCEPT !.where = replaced(@)]]]]
        first(x) == LET places == Places(q)
                    IN  places[Min({k \in DOMAIN places : VariableAt(q, places[k]) = x})]
    IN  FoldSet(LAMBDA e, r : WithDegrees(r, first(start(e)), {Degree(name(e), types(e), edge(e).direction)}),
                [q EXCEPT !.where = replaced(@),
                          !.returns = [i \in DOMAIN @ |-> Substituted(@[i], map)],
                          !.matches = inlined],
                sizes)

-----------------------------------------------------------------------------
(* UniqueJoinEliminator and LimitPushdownOptimizer *)

\* One step to the right between literal labels.
Stated(m) ==
    /\ OneStep(m) /\ m.edges[1].direction = "RIGHT"
    /\ \A l \in {m.nodes[1].label, m.edges[1].label, m.nodes[2].label} : IsLiteralLabel(l)

Triple(m) == <<m.nodes[1].label, m.edges[1].label, m.nodes[2].label>>

\* The one target there may be is not used, and is there or may be missing.
unique_join_elimination_pass(q, cat) ==
    LET unique(m) == \E b \in CardinalityBounds(cat) :
                        /\ b.most = 1 /\ b.direction = "RIGHT"
                        /\ <<b.source, b.type, b.target>> = Triple(m)
        used(x) == /\ Named(x)
                   /\ \E e \in UNION {SubExpressions(p) : p \in Projections(q) \cup q.where} : References(e, x.variable)
        redundant(m) == /\ Stated(m) /\ unique(m)
                        /\ m.optional \/ Triple(m) \in find_mandatory_relations(cat)
                        /\ \A x \in {m.nodes[2], m.edges[1]} : Unfiltered(x) /\ ~used(x)
    IN  EveryMatch(q, LAMBDA m : IF redundant(m) THEN OnlyStart(m) ELSE m)

\* Something is left to be decided after the scan of the first node of the first match.
has_post_scan_residual_predicate(q) ==
    LET places == Places(q)
        node(p) == q.matches[p[1]].nodes[p[2]]
    IN  \/ q.where # {} \/ q.distinct
        \/ \E p \in ToSet(places) : node(p).where # {} \/ Cardinality(node(p).label) > 1
        \/ \E p \in ToSet(Tail(places)) : ~Plain(node(p))
        \/ /\ ~Plain(node(places[1]))
           /\ \/ ~IsLiteralLabel(node(places[1]).label)
              \/ Cardinality(DOMAIN node(places[1]).properties) + Cardinality(node(places[1]).filters) > 1
        \/ \E e \in AllEdges(q) : ~Unfiltered(e) \/ Cardinality(e.label) > 1

\* Each later match adds exactly what a constraint says is there.
limit_pushdown_pass(q, cat) ==
    LET reached(i) == {n.variable : n \in ToSet(q.matches[1].nodes)}
                      \cup {q.matches[j].nodes[2].variable : j \in 2 .. i - 1}
        certain(i) == LET m == q.matches[i]
                      IN  /\ ~m.optional /\ Stated(m) /\ m.nodes[1].variable \in reached(i) \ {Anon}
                          /\ Triple(m) \in find_mandatory_relations(cat)
    IN  IF /\ q.limit # Null /\ q.order = <<>>
           /\ ~has_post_scan_residual_predicate(q)
           /\ \A i \in 2 .. Len(q.matches) : certain(i)
        THEN [q EXCEPT !.matches[1].limit = q.limit]
        ELSE q

-----------------------------------------------------------------------------
(* TransitiveFilterPropagator *)

\* The variables whose value of a property is said to be that of x.
EqualInProperty(q, x, p) ==
    LET equal(y, z) == \E e \in AllConditions(q) :
            /\ IsComparison(e) /\ e.op = "EQ"
            /\ \/ {e.left, e.right} = {Variable(y), Variable(z)}
               \/ {e.left, e.right} = {Lookup(y, p), Lookup(z, p)}
        vars == VariablesOf(q.matches)
        class[i \in 0 .. Cardinality(vars)] ==
            IF i = 0 THEN {x} ELSE class[i - 1] \cup {z \in vars : \E y \in class[i - 1] : equal(y, z)}
    IN  class[Cardinality(vars)]

transitive_filter_propagation_pass(q) ==
    LET constants == {e \in AllConditions(q) : FilterOf(e) # {}}
        filter(e) == CHOOSE f \in FilterOf(e) : TRUE
        copies(e) == {rewrite_expr_vars(e, filter(e).variable :> y) :
                         y \in EqualInProperty(q, filter(e).variable, filter(e).property) \ {filter(e).variable}}
    IN  [q EXCEPT !.where = @ \cup (UNION {copies(e) : e \in constants} \ AllConditions(q))]

-----------------------------------------------------------------------------
(* AntiSemiJoinPromoter and EqualityJoinEliminator *)

\* An optional match that is asked to have failed becomes a NOT EXISTS.
RECURSIVE AntiJoinedFrom(_, _)
AntiJoinedFrom(q, i) ==
    IF i > Len(q.matches) THEN q
    ELSE LET m      == q.matches[i]
             missed == {IsNull(Variable(x), FALSE) : x \in VariablesOf(<<m>>)} \cap q.where
             absent == NotExpr(Exists(<<[m EXCEPT !.optional = FALSE]>>, {}))
         IN  IF m.optional /\ missed # {}
             THEN AntiJoinedFrom([q EXCEPT !.matches = WithoutIndex(@, i), !.where = (@ \ missed) \cup {absent}], i)
             ELSE AntiJoinedFrom(q, i + 1)

optional_match_to_antisemijoin_pass(q) == AntiJoinedFrom(q, 1)

Equating(x, y) ==
    {Binary("EQ", Variable(x), Variable(y)), Binary("EQ", Variable(y), Variable(x)),
     Binary("EQ", Lookup(x, "id"), Lookup(y, "id")), Binary("EQ", Lookup(y, "id"), Lookup(x, "id"))}

Target(m) == m.nodes[Len(m.nodes)]

are_matches_isomorphic_except_target(m1, m2) ==
    LET shape(e) == <<e.label, e.direction, e.varlen, e.min, e.max>>
    IN  /\ m1.optional = m2.optional
        /\ Len(m1.nodes) = Len(m2.nodes)
        /\ Named(m1.nodes[1]) /\ m1.nodes[1].variable = m2.nodes[1].variable
        /\ \A i \in 2 .. Len(m1.nodes) - 1 :
              <<m1.nodes[i].variable, m1.nodes[i].label>> = <<m2.nodes[i].variable, m2.nodes[i].label>>
        /\ \A i \in DOMAIN m1.edges : shape(m1.edges[i]) = shape(m2.edges[i])
        /\ Target(m1).label = Target(m2).label
        /\ Named(Target(m1)) /\ Named(Target(m2)) /\ Target(m1).variable # Target(m2).variable

\* Two matches from one start to targets that are said to be equal are one.
RECURSIVE equality_join_elimination_pass(_)
equality_join_elimination_pass(q) ==
    LET merges == {p \in (DOMAIN q.matches) \X (DOMAIN q.matches) :
                      /\ are_matches_isomorphic_except_target(q.matches[p[2]], q.matches[p[1]])
                      /\ Equating(Target(q.matches[p[2]]).variable, Target(q.matches[p[1]]).variable)
                         \cap AllConditions(q) # {}}
    IN  IF merges = {} THEN q
        ELSE LET erased  == Min({p[1] : p \in merges})
                 kept    == Min({p[2] : p \in {p \in merges : p[1] = erased}})
                 keep    == Target(q.matches[kept]).variable
                 prune   == Target(q.matches[erased]).variable
                 without == [q EXCEPT !.where = @ \ Equating(keep, prune)]
             IN  equality_join_elimination_pass(
                    [RenamedQuery(without, prune :> keep) EXCEPT !.matches = WithoutIndex(@, erased)])

-----------------------------------------------------------------------------
(* DisjointConceptPruner *)

AncestorsIn(edges, v) ==
    LET within[i \in 0 .. Cardinality(edges)] ==
            IF i = 0 THEN {v} ELSE within[i - 1] \cup {e.high : e \in {e \in edges : e.low \in within[i - 1]}}
    IN  within[Cardinality(edges)]

DisjointEnds(q, cat, m, i) ==
    LET left  == m.nodes[i]
        right == m.nodes[i + 1]
        graphOf(key) == {t \in Taxonomy(cat) : HierarchyKey(t) = key}
        disjointIn(key) ==
            \E a, b \in Equalities(q) :
               /\ a.variable = left.variable /\ b.variable = right.variable
               /\ a.property = key[4] /\ b.property = key[4]
               /\ (AncestorsIn(graphOf(key), a.value) \X AncestorsIn(graphOf(key), b.value))
                     \cap cat.disjoint_values # {}
    IN  /\ m.edges[i].varlen /\ IsLiteralLabel(m.edges[i].label)
        /\ \/ <<left.label, right.label>> \in cat.disjoint_labels
           \/ \E key \in {HierarchyKey(t) : t \in Taxonomy(cat)} : key[1] = m.edges[i].label /\ disjointIn(key)

disjoint_concept_pruning_pass(q, cat) ==
    Unsatisfiable(q, \E m \in ToSet(q.matches) : \E i \in DOMAIN m.edges : DisjointEnds(q, cat, m, i))

-----------------------------------------------------------------------------
(* DirectionSwapOptimizer, and the reversal for an index *)

\* 1 for one value of the key, 2 for a bounded property, 3 for a scan.
estimate_selectivity(q, n) ==
    LET intervals == Intervals(BoundsOf(n, q))
    IN  IF ~Named(n) \/ DOMAIN intervals = {} THEN 3
        ELSE IF "id" \in DOMAIN intervals /\ \E v \in 0 .. MaxValue : intervals["id"] = {2 * v} THEN 1
        ELSE 2

direction_swap_pass(q) ==
    LET better(m) == /\ ~m.optional /\ Len(m.nodes) > 1
                     /\ estimate_selectivity(q, Target(m)) < estimate_selectivity(q, m.nodes[1])
    IN  EveryMatch(q, LAMBDA m : IF better(m) THEN Reverse_path(m) ELSE m)

has_index_seek(x, indexes) ==
    /\ IsLiteralLabel(x.label)
    /\ \E p \in DOMAIN x.properties \cup {f.property : f \in {f \in x.filters : f.op = "EQ"}} : <<x.label, p>> \in indexes

index_seek_reversal(q, cat) ==
    LET seeks(x) == has_index_seek(x, cat.indexes)
        better(m) == /\ Len(m.nodes) > 1 /\ ~seeks(m.nodes[1])
                     /\ \/ seeks(Target(m))
                        \/ seeks(m.edges[Len(m.edges)]) /\ ~seeks(m.edges[1])
    IN  EveryMatch(q, LAMBDA m : IF better(m) THEN Reverse_path(m) ELSE m)

-----------------------------------------------------------------------------
(* Relations with algebraic traits: EquivalenceClass-, TransitivePathOptimizer *)

\* The traits of the one type an edge may have.
TraitsOf(e, cat) ==
    IF IsLiteralLabel(e.label) THEN {t[2] : t \in {t \in cat.traits : {t[1]} = e.label}} ELSE {}

Equivalence == {"reflexive", "symmetric", "transitive"}

Unbound(e) == ~Named(e) /\ Unfiltered(e)

\* A path of one hop or more to the right, of which nothing but its ends is asked.
is_simple_unbounded_right_hop(m) ==
    /\ ~m.optional /\ Len(m.nodes) = 2
    /\ m.edges[1].varlen /\ m.edges[1].direction = "RIGHT"
    /\ m.edges[1].min = 1 /\ m.edges[1].max = MaxHops
    /\ Unbound(m.edges[1])

LookedUp(m, kind) ==
    [m EXCEPT !.lookup = kind, !.edges[1].varlen = FALSE, !.edges[1].min = 1, !.edges[1].max = 1]

equivalence_class_pass(q, cat) ==
    EveryMatch(q, LAMBDA m : IF is_simple_unbounded_right_hop(m) /\ Equivalence \subseteq TraitsOf(m.edges[1], cat)
                             THEN LookedUp(m, "EQUIVALENCE") ELSE m)

\* The steps over transitive types between named nodes, and the way from one variable to another over
\* two of them or more.
TransitiveSteps(q, cat) ==
    {[match |-> m, type |-> m.edges[1].label,
      from |-> m.nodes[IF m.edges[1].direction = "RIGHT" THEN 1 ELSE 2].variable,
      to |-> m.nodes[IF m.edges[1].direction = "RIGHT" THEN 2 ELSE 1].variable] :
        m \in {m \in ToSet(q.matches) :
                 /\ ~m.optional /\ OneStep(m) /\ m.edges[1].direction # "ANY"
                 /\ Named(m.nodes[1]) /\ Named(m.nodes[2])
                 /\ "transitive" \in TraitsOf(m.edges[1], cat)}}

RECURSIVE is_reachable_min_depth_2(_, _, _, _)
is_reachable_min_depth_2(steps, path, target, depth) ==
    LET at == path[Len(path)]
    IN  \/ depth >= 2 /\ at = target
        \/ \E s \in {s \in steps : s.from = at /\ s.to \notin ToSet(path)} :
              is_reachable_min_depth_2(steps, Append(path, s.to), target, depth + 1)

transitive_path_pass(q, cat) ==
    LET rewritten == EveryMatch(q, LAMBDA m :
            IF /\ is_simple_unbounded_right_hop(m)
               /\ "transitive" \in TraitsOf(m.edges[1], cat) /\ ~(Equivalence \subseteq TraitsOf(m.edges[1], cat))
            THEN LookedUp(m, "TRANSITIVE") ELSE m)
        steps == TransitiveSteps(rewritten, cat)
        open(n) == n.label = AnyLabel /\ Unfiltered(n)
        shortcut(m) == \E s \in steps :
            /\ s.match = m
            /\ open(m.nodes[1]) /\ open(m.nodes[2]) /\ Unbound(m.edges[1])
            /\ is_reachable_min_depth_2({t \in steps : t.type = s.type}, <<s.from>>, s.to, 0)
    IN  [rewritten EXCEPT !.matches = Kept(@, LAMBDA m : ~shortcut(m))]

-----------------------------------------------------------------------------
(* IrreflexiveContradictionPruner and AntisymmetricLoopCollapser *)

irreflexive_contradiction_pass(q, cat) ==
    LET required == SelectSeq(q.matches, LAMBDA m : ~m.optional)
        conditions == q.where \cup UNION {x.where : x \in UNION {Elements(m) : m \in ToSet(required)}}
        vars == VariablesOf(q.matches)
        class[x \in vars, i \in 0 .. Cardinality(vars)] ==
            IF i = 0 THEN {x}
            ELSE class[x, i - 1] \cup
                 {z \in vars : \E y \in class[x, i - 1] : Equating(y, z) \cap conditions # {}}
        loop(m, i) == /\ ~m.edges[i].varlen /\ "irreflexive" \in TraitsOf(m.edges[i], cat)
                      /\ Named(m.nodes[i]) /\ Named(m.nodes[i + 1])
                      /\ m.nodes[i + 1].variable \in class[m.nodes[i].variable, Cardinality(vars)]
    IN  Unsatisfiable(q, \E m \in ToSet(required) : \E i \in DOMAIN m.edges : loop(m, i))

\* The directed, unconstrained steps over antisymmetric types, in the order of the statement.
LoopRefs(q, cat) ==
    LET refs(k) == LET m == q.matches[k]
                       ref(i) == LET right == m.edges[i].direction = "RIGHT"
                                 IN  [match |-> k, edge |-> i, type |-> m.edges[i].label,
                                      src |-> m.nodes[IF right THEN i ELSE i + 1].variable,
                                      tgt |-> m.nodes[IF right THEN i + 1 ELSE i].variable]
                   IN  SelectSeq([i \in DOMAIN m.edges |-> ref(i)],
                          LAMBDA r : /\ ~m.optional /\ Anon \notin {r.src, r.tgt} /\ r.src # r.tgt
                                     /\ ~m.edges[r.edge].varlen /\ m.edges[r.edge].direction # "ANY"
                                     /\ Unbound(m.edges[r.edge])
                                     /\ "antisymmetric" \in TraitsOf(m.edges[r.edge], cat))
    IN  FlattenSeq([k \in DOMAIN q.matches |-> refs(k)])

\* Both labels are asked for: no label is literally two of them.
BothLabels(l1, l2) ==
    IF AnyLabel \in {l1, l2} THEN l1 \cup l2
    ELSE IF l1 \cap l2 # {} THEN l1 \cap l2 ELSE {"_neither", "_nor"}

\* The edge goes and its right end is folded into its left end.
delete_edge_at(q, k, i) ==
    LET m      == q.matches[k]
        left   == m.nodes[i]
        right  == m.nodes[i + 1]
        merged == [left EXCEPT !.label = BothLabels(@, right.label),
                               !.properties = right.properties @@ @,
                               !.filters = @ \cup right.filters,
                               !.where = @ \cup right.where,
                               !.degree = @ \cup right.degree]
    IN  [q EXCEPT !.matches[k] = [m EXCEPT !.nodes = WithoutIndex([@ EXCEPT ![i] = merged], i + 1),
                                           !.edges = WithoutIndex(@, i)],
                  !.where = @ \cup m.edges[i].where]

\* x -> y and y -> x are x = y and a loop, which a reflexive type has at every node.
RECURSIVE CollapsedLoops(_, _)
CollapsedLoops(q, cat) ==
    LET refs  == LoopRefs(q, cat)
        loops == {p \in (DOMAIN refs) \X (DOMAIN refs) :
                    /\ p[1] < p[2] /\ refs[p[1]].type = refs[p[2]].type
                    /\ refs[p[1]].src = refs[p[2]].tgt /\ refs[p[1]].tgt = refs[p[2]].src}
    IN  IF loops = {} THEN q
        ELSE LET i      == Min({p[1] : p \in loops})
                 j      == Min({p[2] : p \in {p \in loops : p[1] = i}})
                 traits == TraitsOf(q.matches[refs[i].match].edges[refs[i].edge], cat)
                 one    == RenamedQuery(q, refs[i].tgt :> refs[i].src)
                 later  == delete_edge_at(one, refs[j].match, refs[j].edge)
             IN  IF "irreflexive" \in traits /\ "reflexive" \notin traits THEN ShortCircuited(q)
                 ELSE IF "reflexive" \in traits
                      THEN CollapsedLoops(delete_edge_at(later, refs[i].match, refs[i].edge), cat)
                      ELSE CollapsedLoops(later, cat)

prune_redundant_single_node_matches(q) ==
    LET bound == {n.variable : n \in UNION {ToSet(m.nodes) : m \in {m \in ToSet(q.matches) : ~m.optional /\ m.edges # <<>>}}}
        redundant(m) == /\ ~m.optional /\ Len(m.nodes) = 1
                        /\ m.nodes[1].label = AnyLabel /\ Unfiltered(m.nodes[1])
                        /\ Named(m.nodes[1]) /\ m.nodes[1].variable \in bound
    IN  [q EXCEPT !.matches = Kept(@, LAMBDA m : ~redundant(m))]

antisymmetric_loop_pass(q, cat) ==
    LET collapsed == CollapsedLoops(q, cat)
    IN  IF collapsed.noop \/ cat.traits = {} THEN collapsed ELSE prune_redundant_single_node_matches(collapsed)

=============================================================================
