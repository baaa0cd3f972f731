------------------------------ MODULE GqlMeaning ------------------------------
(***************************************************************************)
(* What the executor answers to a statement on a graph: rows are found     *)
(* match by match, filtered, grouped and projected (GqlExecutor.cpp,       *)
(* executor/PathTraverser.cpp, GqlValue.cpp).  What the optimizer noted on *)
(* a match is done as the executor does it; an EXISTS or a size() that no  *)
(* pass has rewritten means its pattern, and a view the nodes it returns.  *)
(*                                                                         *)
(* A graph has a label and properties for every element, the ends of every *)
(* relationship and the nodes of every view.  A row binds variables to     *)
(* elements and numbers; -1 is null, -2 a property that is not there, -3    *)
(* true and -4 false.                                                      *)
(***************************************************************************)
EXTENDS GqlPlans

Missing == -2

NodesOf(g) == (DOMAIN g.label) \ (DOMAIN g.from)

RECURSIVE Sorted(_)
Sorted(S) == IF S = {} THEN <<>> ELSE <<Min(S)>> \o Sorted(S \ {Min(S)})

InSomeOrder(S) == FoldSet(LAMBDA x, s : Append(s, x), <<>>, S)

IsElement(g, row, x) == x \in DOMAIN row /\ row[x] \in DOMAIN g.label

Bind(row, x, v) == IF x = Anon THEN row ELSE (x :> v) @@ row

-----------------------------------------------------------------------------
(* Elements *)

LabelFits(g, v, l) ==
    l = AnyLabel \/ g.label[v] \in l \/ \E name \in l \cap DOMAIN g.views : v \in g.views[name]

Compare(op, l, r) ==
    CASE op = "EQ" -> l = r
      [] op = "NE" -> l # r
      [] op = "LT" -> l < r
      [] op = "LE" -> l <= r
      [] op = "GT" -> l > r
      [] op = "GE" -> l >= r

\* matches_label_expr, matches_properties and matches_filters: what is not there satisfies no filter.
Fits(g, x, v) ==
    /\ LabelFits(g, v, x.label)
    /\ \A p \in DOMAIN x.properties : p \in DOMAIN g.props[v] /\ g.props[v][p] = x.properties[p]
    /\ \A f \in x.filters : f.property \in DOMAIN g.props[v] /\ Compare(f.op, g.props[v][f.property], f.value)

\* NodeGetRelationshipsPeered: first those that leave the node, then those that arrive at it; only as
\* many as the plan allows.
Listed(g, v, e) ==
    LET wanted == {r \in DOMAIN g.from : LabelFits(g, r, e.label)}
        out == Sorted({r \in wanted : e.direction # "LEFT" /\ g.from[r] = v})
        in  == Sorted({r \in wanted : e.direction # "RIGHT" /\ g.to[r] = v})
        all == out \o in
    IN  IF e.atMost = Null THEN all ELSE SubSeq(all, 1, Min({Len(all), e.atMost}))

OtherEnd(g, r, v) == IF g.from[r] = v THEN g.to[r] ELSE g.from[r]

\* NodeGetDegreePeered
DegreeOf(g, v, d) == Len(Listed(g, v, EdgeP(Anon, d.types, d.direction)))

-----------------------------------------------------------------------------
(* Rows.  A partial path has a row, the node it is at and the relationships it has used. *)

Truth(condition) == IF condition THEN Yes ELSE No

RECURSIVE ValueOf(_, _, _), RowsFrom(_, _, _, _)

AllTruthy(conditions, row, g) == \A e \in conditions : ValueOf(e, row, g) \notin {Null, No}

\* A node with a filled in degree has it as a property.
PropertyOf(g, row, x, p) ==
    LET d == {d \in g.degrees : d.variable = x /\ d.property = p}
    IN  IF p \in DOMAIN g.props[row[x]] THEN g.props[row[x]][p]
        ELSE IF d = {} THEN Missing ELSE DegreeOf(g, row[x], CHOOSE e \in d : TRUE)

Combined(op, l, r) ==
    CASE op = "AND" -> Truth({l, r} \cap {Null, No} = {})
      [] op = "OR"  -> Truth({l, r} \ {Null, No} # {})
      [] OTHER      -> IF Null \in {l, r} THEN Null ELSE IF op = "MUL" THEN l * r ELSE Truth(Compare(op, l, r))

\* An EXISTS or a size() from the rows of its pattern.
OfPattern(e, rows, g) ==
    IF e.kind = "SIZE_OP" THEN Len(rows) ELSE Truth(\E r \in ToSet(rows) : AllTruthy(e.where, r, g))

\* An EXISTS that a pass has made an optional match is true when the match has bound its variable.
OfTarget(e, row, g) == Truth(e.target \in DOMAIN row /\ row[e.target] # Null /\ AllTruthy(e.where, row, g))

\* evaluate_expression
ValueOf(e, row, g) ==
    CASE e.kind = "LITERAL"         -> e.value
      [] e.kind = "VARIABLE"        -> IF e.name \in DOMAIN row THEN row[e.name] ELSE Null
      [] e.kind = "PROPERTY_LOOKUP" ->
            IF IsElement(g, row, e.variable) THEN PropertyOf(g, row, e.variable, e.property) ELSE Null
      [] e.kind = "NOT"             -> Truth(ValueOf(e.expr, row, g) \in {Null, No})
      [] e.kind = "IS_NULL_CHECK"   -> Truth((ValueOf(e.expr, row, g) \in {Null, Missing}) # e.not)
      [] e.kind = "BINARY_OP"       -> Combined(e.op, ValueOf(e.left, row, g), ValueOf(e.right, row, g))
      [] e.kind = "EXISTS" /\ e.target # Anon -> OfTarget(e, row, g)
      [] e.kind \in {"EXISTS", "SIZE_OP"} -> OfPattern(e, RowsFrom(g, e.matches, 1, <<row>>), g)
      [] OTHER                      -> Null

\* The relationships of a node that an edge of a pattern can stand for, the used ones left out.
Passable(g, e, v, used) == SelectSeq(Listed(g, v, e), LAMBDA r : r \notin used /\ Fits(g, e, r))

Passed(g, at, r) == [node |-> OtherEnd(g, r, at.node), used |-> at.used \cup {r}, depth |-> at.depth + 1]

\* traverse_var_len_async: the ends of the trails along an edge, and what each has used.
RECURSIVE Trails(_, _, _)
Trails(g, e, at) ==
    LET Further(next) == [i \in DOMAIN next |-> Trails(g, e, Passed(g, at, next[i]))]
        Open(r)       == AllTruthy(e.where, Bind(<<>>, e.variable, r), g)
    IN  (IF at.depth >= e.min THEN <<at>> ELSE <<>>)
        \o (IF at.depth >= e.max THEN <<>>
            ELSE FlattenSeq(Further(SelectSeq(Passable(g, e, at.node, at.used), Open))))

Trailed(p, n, trails) ==
    [i \in DOMAIN trails |-> [row |-> Bind(p.row, n.variable, trails[i].node), at |-> trails[i].node, used |-> trails[i].used]]

Stepped(g, p, e, n, steps) ==
    [i \in DOMAIN steps |->
        LET v == OtherEnd(g, steps[i], p.at)
        IN  [row |-> Bind(Bind(p.row, e.variable, steps[i]), n.variable, v), at |-> v, used |-> p.used \cup {steps[i]}]]

\* traverse_step: the ways on from a partial path along an edge to a node.
Onward(g, p, e, n) ==
    LET Fitting(v) == Fits(g, n, v) /\ (IsElement(g, p.row, n.variable) => p.row[n.variable] = v)
    IN  IF e.varlen
        THEN Trailed(p, n, SelectSeq(Trails(g, e, [node |-> p.at, used |-> p.used, depth |-> 0]), LAMBDA t : Fitting(t.node)))
        ELSE SelectSeq(Stepped(g, p, e, n, SelectSeq(Passable(g, e, p.at, p.used), LAMBDA r : Fitting(OtherEnd(g, r, p.at)))),
                       LAMBDA o : AllTruthy(e.where \cup n.where, o.row, g))

Bounded(s, limit) == IF limit = Null THEN s ELSE SubSeq(s, 1, Min({Len(s), limit}))

\* traverse_path_pattern_iterative: after each step no more rows than the plan wants.
RECURSIVE Extended(_, _, _, _)
Extended(g, m, i, partials) ==
    IF i > Len(m.edges) THEN [k \in DOMAIN partials |-> partials[k].row]
    ELSE Extended(g, m, i + 1,
                  Bounded(FlattenSeq([k \in DOMAIN partials |-> Onward(g, partials[k], m.edges[i], m.nodes[i + 1])]), m.limit))

\* The nodes a pattern can begin at, the bound one if there is one.
Candidates(g, n, row) ==
    SelectSeq(IF IsElement(g, row, n.variable) THEN <<row[n.variable]>> ELSE Sorted(NodesOf(g)),
              LAMBDA v : Fits(g, n, v))

\* traverse_path_pattern: a pattern of which only the last node is bound is walked from there.
Walked(m, row) ==
    IF /\ Len(m.nodes) > 1
       /\ m.nodes[1].variable \notin DOMAIN row /\ m.nodes[Len(m.nodes)].variable \in DOMAIN row
    THEN Reverse_path(m) ELSE m

Begun(g, n, row, starts) ==
    SelectSeq([i \in DOMAIN starts |-> [row |-> Bind(row, n.variable, starts[i]), at |-> starts[i], used |-> {}]],
              LAMBDA p : AllTruthy(n.where, p.row, g))

RowsAlong(g, m, row) ==
    Extended(g, m, 1, Bounded(Begun(g, m.nodes[1], row, Candidates(g, m.nodes[1], row)),
                              IF m.edges = <<>> THEN m.limit ELSE Null))

PatternRows(g, m, row) == RowsAlong(g, Walked(m, row), row)

\* The pairs a closure of the type relates: the components, or what can be reached from another node.
Closure(g, m) ==
    LET undirected == m.lookup = "EQUIVALENCE"
        steps == {<<g.from[r], g.to[r]>> : r \in {r \in DOMAIN g.from : LabelFits(g, r, m.edges[1].label)}}
        both  == IF undirected THEN steps \cup {<<s[2], s[1]>> : s \in steps} ELSE steps
        reach[v \in NodesOf(g), i \in 0 .. Cardinality(NodesOf(g))] ==
            IF i = 0 THEN {v} ELSE reach[v, i - 1] \cup {s[2] : s \in {s \in both : s[1] \in reach[v, i - 1]}}
        inside == UNION {{s[1], s[2]} : s \in steps}
    IN  {p \in inside \X inside : p[2] \in reach[p[1], Cardinality(NodesOf(g))] /\ (undirected \/ p[1] # p[2])}

\* The conditions of the ends are looked at, their WHERE is not.
LookupRows(g, m, row) ==
    LET starts == Candidates(g, m.nodes[1], row)
        ends   == Candidates(g, m.nodes[2], row)
        pairs  == FlattenSeq([i \in DOMAIN starts |-> [j \in DOMAIN ends |-> <<starts[i], ends[j]>>]])
        found  == SelectSeq(pairs, LAMBDA p : p \in Closure(g, m))
    IN  [i \in DOMAIN found |-> Bind(Bind(row, m.nodes[1].variable, found[i][1]), m.nodes[2].variable, found[i][2])]

\* propagate_path_counts: the walks of so many hops over distinct neighbours.
Walks(g, v, c) ==
    LET walks[u \in NodesOf(g), h \in 0 .. c.hops] ==
            IF h = 0 THEN 1
            ELSE LET listed == Listed(g, u, EdgeP(Anon, c.types, c.direction))
                     beyond == {OtherEnd(g, r, u) : r \in ToSet(listed)}
                 IN  FoldSet(LAMBDA w, n : walks[w, h - 1] + n, 0, beyond)
    IN  walks[v, c.hops]

CountRows(g, m, row) ==
    LET starts == Candidates(g, m.nodes[1], row)
    IN  [i \in DOMAIN starts |-> Bind(Bind(row, m.nodes[1].variable, starts[i]), m.count.target, Walks(g, starts[i], m.count))]

\* An optional match that finds nothing leaves its variables null.
Padded(m, row, found) ==
    IF found = <<>> /\ m.optional THEN <<row @@ [x \in VariablesOf(<<m>>) |-> Null]>> ELSE found

\* traverse_match_statement
MatchRows(g, m, row) ==
    Padded(m, row, IF m.count # NoCount THEN CountRows(g, m, row)
                   ELSE IF m.lookup # "NONE" THEN LookupRows(g, m, row)
                   ELSE PatternRows(g, m, row))

RowsFrom(g, matches, i, rows) ==
    IF i > Len(matches) THEN rows
    ELSE RowsFrom(g, matches, i + 1, FlattenSeq([k \in DOMAIN rows |-> MatchRows(g, matches[i], rows[k])]))

-----------------------------------------------------------------------------
(* Answers *)

Generated(x) == SubSeq(x, 1, 1) = "_"

\* No relationship stands for two variables of relationships, the ones a pass has made up left aside.
DifferentEdges(q, row) ==
    LET vars == {e.variable : e \in {e \in AllEdges(q) : Named(e) /\ ~e.varlen /\ ~Generated(e.variable)}} \cap DOMAIN row
    IN  \A x, y \in vars : x # y /\ row[x] # Null => row[x] # row[y]

\* Of an unnested statement one row for each binding of its own variables.
Distinguished(outer, rows) ==
    LET Key(row) == [x \in outer \cap DOMAIN row |-> row[x]]
        firsts == SelectSeq([i \in DOMAIN rows |-> i], LAMBDA i : \A j \in 1 .. i - 1 : Key(rows[j]) # Key(rows[i]))
    IN  IF outer = {} THEN rows ELSE [k \in DOMAIN firsts |-> rows[firsts[k]]]

\* The graph with the degrees the executor fills in for a statement.
Filled(q, g) ==
    [degrees |-> UNION {{[variable |-> m.nodes[1].variable] @@ d : d \in m.nodes[1].degree} : m \in ToSet(q.matches)}] @@ g

RowsOn(q, g) ==
    Distinguished(q.outer, SelectSeq(RowsFrom(g, q.matches, 1, <<<<>>>>),
                                     LAMBDA row : DifferentEdges(q, row) /\ AllTruthy(q.where, row, g)))

\* The rows that pass the WHERE.
Rows(q, plain) == RowsOn(q, Filled(q, plain))

IsAggregate(e) == \E s \in SubExpressions(e) : s.kind = "AGGREGATION"

\* The value of an aggregate from those of a group's rows; what is null is not counted and only numbers are summed.
Folded(e, factor, values) ==
    LET present == SelectSeq(values, LAMBDA v : v # Null)
        numbers == SelectSeq(values, LAMBDA v : v >= 0)
    IN  IF e.fn = "COUNT"
        THEN factor * (IF e.distinct THEN Cardinality(ToSet(present)) ELSE Len(present))
        ELSE IF numbers = <<>> THEN (IF e.count_to_sum THEN 0 ELSE Null)
        ELSE FoldSeq(LAMBDA a, b : a + b, 0, numbers)

RECURSIVE GroupValue(_, _, _, _)
GroupValue(e, rows, q, g) ==
    CASE e.kind = "AGGREGATION" ->
            Folded(e, q.factor, [i \in DOMAIN rows |-> IF e.expr = None THEN i ELSE ValueOf(e.expr, rows[i], g)])
      [] e.kind = "BINARY_OP" /\ IsAggregate(e) -> GroupValue(e.left, rows, q, g) * GroupValue(e.right, rows, q, g)
      [] OTHER -> IF rows = <<>> THEN Null ELSE ValueOf(e, rows[1], g)

Values(items, row, g) == [i \in DOMAIN items |-> ValueOf(items[i], row, g)]

\* One answer for each group of rows, a row being given with the values it is grouped by.
Grouped(q, items, keyed, groups, g) ==
    [n \in DOMAIN groups |->
        LET group == SelectSeq(keyed, LAMBDA k : k.key = groups[n])
            rows  == [i \in DOMAIN group |-> group[i].row]
        IN  [i \in DOMAIN items |-> GroupValue(items[i], rows, q, g)]]

Keyed(keys, rows, g) == [i \in DOMAIN rows |-> [row |-> rows[i], key |-> Values(keys, rows[i], g)]]

GroupsOf(q, items, keys, keyed, g) ==
    Grouped(q, items, keyed, InSomeOrder(IF keys = <<>> THEN {<<>>} ELSE {k.key : k \in ToSet(keyed)}), g)

Projected(q, items, rows, g) ==
    IF \E e \in ToSet(items) : IsAggregate(e)
    THEN LET keys == SelectSeq(q.returns, LAMBDA e : ~IsAggregate(e)) IN GroupsOf(q, items, keys, Keyed(keys, rows, g), g)
    ELSE [i \in DOMAIN rows |-> Values(items, rows[i], g)]

\* One answer a row, or one a group: the values of what is returned and of what is ordered by.
AnswersOn(q, g) ==
    LET All(rows) == IF q.distinct THEN InSomeOrder(ToSet(rows)) ELSE rows
    IN  Bounded(All(Projected(q, q.returns \o q.order, RowsOn(q, g), g)), q.limit)

Answers(q, plain) == AnswersOn(q, Filled(q, plain))

Times(s, x) == Cardinality({i \in DOMAIN s : s[i] = x})

Within(s, t) == \A x \in ToSet(s) : Times(s, x) <= Times(t, x)

SameBag(s, t) == Len(s) = Len(t) /\ Within(s, t)

=============================================================================
