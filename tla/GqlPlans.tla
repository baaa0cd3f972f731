------------------------------- MODULE GqlPlans -------------------------------
(***************************************************************************)
(* The last phases of the optimizer: subqueries become optional matches,   *)
(* equal patterns are merged, counts of one step become sums of degrees,   *)
(* comparisons go down to the elements they are about, and the matches     *)
(* are put in the order that looks cheapest (GqlOptimizer.cpp).            *)
(***************************************************************************)
EXTENDS GqlRewriters

-----------------------------------------------------------------------------
(* Filters *)

AsFilters(fs) == {[property |-> f.property, op |-> f.op, value |-> f.value] : f \in fs}

\* extract_filters and rebuild_expression_without_pushed_predicates: the comparisons, and what is left.
Comparisons(conditions) == UNION {FilterOf(e) : e \in conditions}

Residual(conditions) == {e \in conditions : FilterOf(e) = {}}

PushedTo(x, fs) == [x EXCEPT !.filters = @ \cup AsFilters({f \in fs : Named(x) /\ f.variable = x.variable})]

PushedInto(m, fs) == [m EXCEPT !.nodes = [i \in DOMAIN @ |-> PushedTo(@[i], fs)],
                               !.edges = [i \in DOMAIN @ |-> PushedTo(@[i], fs)]]

-----------------------------------------------------------------------------
(* Subqueries *)

\* The first relationship without a variable gets the name, or the first node without one.
WithTemporary(matches, name) ==
    LET open(s) == {j \in DOMAIN s : ~Named(s[j])}
        byEdge == {i \in DOMAIN matches : open(matches[i].edges) # {}}
        byNode == {i \in DOMAIN matches : open(matches[i].nodes) # {}}
        edge(i) == Min(open(matches[i].edges))
        node(i) == Min(open(matches[i].nodes))
    IN  IF byEdge # {} THEN [matches EXCEPT ![Min(byEdge)].edges[edge(Min(byEdge))].variable = name]
        ELSE IF byNode # {} THEN [matches EXCEPT ![Min(byNode)].nodes[node(Min(byNode))].variable = name]
        ELSE matches

\* An EXISTS is true of a row to which its pattern, made an optional match, bound something.
RECURSIVE Unnested(_, _, _), UnnestedAll(_, _, _)
Unnested(e, outer, n) ==
    CASE e.kind = "EXISTS" /\ e.target = Anon ->
            LET fresh   == VariablesOf(e.matches) \ outer
                matches == IF fresh # {} THEN e.matches ELSE WithTemporary(e.matches, "_exists_var_" \o ToString(n))
                new     == VariablesOf(matches) \ outer
                inner   == UnnestedAll(Residual(e.where), outer, n + 1)
                pushed  == [i \in DOMAIN matches |-> PushedInto(matches[i], Comparisons(e.where))]
            IN  IF new = {} THEN [expr |-> e, matches |-> <<>>, next |-> n + 1]
                ELSE [expr |-> [e EXCEPT !.matches = pushed, !.where = inner.exprs, !.target = CHOOSE x \in new : TRUE],
                      matches |-> inner.matches \o [i \in DOMAIN pushed |-> [pushed[i] EXCEPT !.optional = TRUE]],
                      next |-> inner.next]
      [] e.kind \in {"NOT", "AGGREGATION"} ->
            LET inner == Unnested(e.expr, outer, n) IN [inner EXCEPT !.expr = [e EXCEPT !.expr = inner.expr]]
      [] e.kind = "BINARY_OP" ->
            LET left  == Unnested(e.left, outer, n)
                right == Unnested(e.right, outer, left.next)
            IN  [expr |-> Binary(e.op, left.expr, right.expr), matches |-> left.matches \o right.matches,
                 next |-> right.next]
      [] OTHER -> [expr |-> e, matches |-> <<>>, next |-> n]

UnnestedAll(conditions, outer, n) ==
    FoldSet(LAMBDA c, r : LET u == Unnested(c, outer, r.next)
                          IN  [exprs |-> r.exprs \cup {u.expr}, matches |-> r.matches \o u.matches, next |-> u.next],
            [exprs |-> {}, matches |-> <<>>, next |-> n], conditions)

UnnestedEach(projections, outer, n) ==
    FoldLeft(LAMBDA r, e : LET u == Unnested(e, outer, r.next)
                           IN  [exprs |-> Append(r.exprs, u.expr), matches |-> r.matches \o u.matches, next |-> u.next],
             [exprs |-> <<>>, matches |-> <<>>, next |-> n], projections)

unnest_subqueries(q) ==
    LET outer   == VariablesOf(q.matches)
        where   == UnnestedAll(q.where, outer, 0)
        returns == UnnestedEach(q.returns, outer, where.next)
        order   == UnnestedEach(q.order, outer, returns.next)
        added   == where.matches \o returns.matches \o order.matches
    IN  [q EXCEPT !.where = where.exprs, !.returns = returns.exprs, !.order = order.exprs,
                  !.matches = @ \o added,
                  !.outer = IF added = <<>> THEN @ ELSE outer]

-----------------------------------------------------------------------------
(* Patterns that are equal but for their filters *)

\* is_equivalent_pattern
Outline(m) ==
    <<[i \in DOMAIN m.nodes |-> <<m.nodes[i].variable, m.nodes[i].label, m.nodes[i].properties>>],
      [i \in DOMAIN m.edges |-> LET e == m.edges[i]
                                IN  <<e.variable, e.label, e.properties, e.direction, e.varlen, e.min, e.max>>]>>

merge_equal_patterns(q) ==
    LET same(i)  == {j \in DOMAIN q.matches : Outline(q.matches[j]) = Outline(q.matches[i])}
        first(i) == [q.matches[i] EXCEPT !.optional = \A j \in same(i) : q.matches[j].optional]
        firsts   == SelectSeq([i \in DOMAIN q.matches |-> i], LAMBDA i : i = Min(same(i)))
    IN  [q EXCEPT !.matches = [k \in DOMAIN firsts |-> first(firsts[k])]]

-----------------------------------------------------------------------------
(* Counts of one step *)

\* Only the start of the one step is used, and counts of the rows.
DegreeSummed(q) ==
    LET m == q.matches[1]
    IN  /\ Len(q.matches) = 1 /\ ~m.optional /\ OneStep(m)
        /\ Named(m.nodes[1]) /\ m.nodes[1].variable # m.nodes[2].variable
        /\ m.nodes[2].label = AnyLabel /\ Plain(m.nodes[2]) /\ Plain(m.edges[1])
        /\ \A x \in {m.nodes[2], m.edges[1]} : ~ReferencedOutsideCount(q, x.variable)
        /\ ~query_has_distinct_aggregate(q)

rewrite_count_to_sum_degree(q) ==
    LET m      == q.matches[1]
        degree == "_degree_" \o m.nodes[1].variable
        counts == {CountStar} \cup {CountOf(x.variable) : x \in {x \in {m.nodes[2], m.edges[1]} : Named(x)}}
        used   == counts \cap UNION {SubExpressions(e) : e \in Projections(q)}
        sum    == [Aggregate("SUM", Lookup(m.nodes[1].variable, degree), FALSE) EXCEPT !.count_to_sum = TRUE]
    IN  IF ~DegreeSummed(q) \/ used = {} THEN q
        ELSE LET summed == [ProjectionsReplaced(q, [e \in counts |-> sum]) EXCEPT !.matches[1] = OnlyStart(@)]
             IN  WithDegrees(summed, <<1, 1>>, {Degree(degree, m.edges[1].label, m.edges[1].direction)})

-----------------------------------------------------------------------------
(* Comparisons go down to the elements *)

InlinePushed(x) ==
    IF Named(x) /\ \E f \in Comparisons(x.where) : f.variable = x.variable
    THEN [PushedTo(x, Comparisons(x.where)) EXCEPT !.where = Residual(@)]
    ELSE x

inline_filter_pushdown(q) ==
    EveryMatch(q, LAMBDA m : [m EXCEPT !.nodes = [i \in DOMAIN @ |-> InlinePushed(@[i])],
                                       !.edges = [i \in DOMAIN @ |-> InlinePushed(@[i])]])

filter_pushdown(q) ==
    [EveryMatch(q, LAMBDA m : PushedInto(m, Comparisons(q.where))) EXCEPT !.where = Residual(@)]

-----------------------------------------------------------------------------
(* The order of the matches *)

\* Whatever the estimates say: any order, unless a match has to stay where it was written.
reorder_matches_by_cost(q) ==
    LET n == Len(q.matches)
        orders == {p \in [1 .. n -> 1 .. n] : \A i, j \in 1 .. n : p[i] = p[j] => i = j}
    IN  IF n < 2 \/ n > 6 \/ \E m \in ToSet(q.matches) : m.optional THEN {q}
        ELSE {[q EXCEPT !.matches = [i \in 1 .. n |-> q.matches[p[i]]]] : p \in orders}

=============================================================================
