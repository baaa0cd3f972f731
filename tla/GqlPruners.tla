------------------------------ MODULE GqlPruners ------------------------------
(***************************************************************************)
(* The optimizer's passes that find a statement unsatisfiable or a match   *)
(* redundant from what the catalog declares.  A constraint of the catalog  *)
(* is a statement that must have no answer.                                *)
(***************************************************************************)
EXTENDS GqlQueries

ShortCircuited(q) == [q EXCEPT !.noop = TRUE]

Unsatisfiable(q, proved) == IF proved THEN ShortCircuited(q) ELSE q

-----------------------------------------------------------------------------
(* ContradictionPruner *)

\* Some interval of the statement is empty, or lies in one that a constraint forbids.
EmptyInterval(vars) == \E vi \in vars : \E p \in DOMAIN vi.intervals : vi.intervals[p] = {}

Forbidden_Overlap(qv, cv) ==
    \E p \in DOMAIN qv.intervals \cap DOMAIN cv.intervals : qv.intervals[p] \cap cv.intervals[p] # {}

Forbidden(qv, cv) ==
    \E p \in DOMAIN qv.intervals \cap DOMAIN cv.intervals : qv.intervals[p] \subseteq cv.intervals[p]

ForbiddenVars(qvars, cvars) ==
    \E cv \in cvars, qv \in qvars : cv.label # AnyLabel /\ cv.label = qv.label /\ Forbidden(qv, cv)

semantic_pruning_pass(q, cat) ==
    LET vars == collect_query_vars(q)
    IN  Unsatisfiable(q, \/ EmptyInterval(vars)
                         \/ \E c \in cat.constraints : ForbiddenVars(vars, collect_query_vars(c)))

edge_contradiction_pruning_pass(q, cat) ==
    LET vars == collect_edge_vars(q)
    IN  Unsatisfiable(q, \/ EmptyInterval(vars)
                         \/ \E c \in cat.constraints : ForbiddenVars(vars, collect_edge_vars(c)))

\* a < b, a <= b and a = b between properties, as the edges of a graph.
InequalityEdges(e) ==
    IF ~(IsComparison(e) /\ IsLookup(e.left) /\ IsLookup(e.right)) THEN {}
    ELSE CASE e.op \in {"LT", "LE"} -> {[from |-> e.left, to |-> e.right, strict |-> e.op = "LT"]}
           [] e.op \in {"GT", "GE"} -> {[from |-> e.right, to |-> e.left, strict |-> e.op = "GT"]}
           [] e.op = "EQ" -> {[from |-> e.left, to |-> e.right, strict |-> FALSE],
                              [from |-> e.right, to |-> e.left, strict |-> FALSE]}
           [] OTHER -> {}

\* A cycle with a strict edge: Floyd and Warshall's closure, strict if one of its halves is.
has_inequality_contradiction(edges) ==
    LET vertices == {e.from : e \in edges} \cup {e.to : e \in edges}
        closure[i \in 0 .. Cardinality(vertices)] ==
            IF i = 0 THEN edges
            ELSE closure[i - 1] \cup
                 {[from |-> p[1].from, to |-> p[2].to, strict |-> p[1].strict \/ p[2].strict] :
                  p \in {p \in closure[i - 1] \X closure[i - 1] : p[1].to = p[2].from}}
    IN  \E e \in closure[Cardinality(vertices)] : e.strict /\ e.from = e.to

relational_pruning_pass(q) ==
    Unsatisfiable(q, has_inequality_contradiction(UNION {InequalityEdges(e) : e \in AllConditions(q)}))

-----------------------------------------------------------------------------
(* DomainConstraintReasoner *)

Leaf(x, p, op, v) == [kind |-> "LEAF", pred |-> [variable |-> x, property |-> p, op |-> op, value |-> v]]

\* Comparisons are brought down to EQ, LT and LE, negated where needed.
Canonical(f) ==
    CASE f.op \in {"EQ", "LT", "LE"} -> Leaf(f.variable, f.property, f.op, f.value)
      [] f.op = "NE" -> NotExpr(Leaf(f.variable, f.property, "EQ", f.value))
      [] f.op = "GT" -> NotExpr(Leaf(f.variable, f.property, "LE", f.value))
      [] f.op = "GE" -> NotExpr(Leaf(f.variable, f.property, "LT", f.value))

\* A property by itself says that it is true, and negated that it is false.  What else is no
\* comparison with a literal is left out of the formula; a connective with one operand left is that operand.
RECURSIVE parse_expression_to_logic(_)
parse_expression_to_logic(e) ==
    CASE IsLookup(e) -> Leaf(e.variable, e.property, "EQ", Yes)
      [] e.kind = "NOT" /\ IsLookup(e.expr) -> Leaf(e.expr.variable, e.expr.property, "EQ", No)
      [] e.kind = "NOT" /\ ~IsLookup(e.expr) ->
            LET child == parse_expression_to_logic(e.expr) IN IF child = None THEN None ELSE NotExpr(child)
      [] e.kind = "BINARY_OP" /\ e.op \in {"AND", "OR"} ->
            LET left  == parse_expression_to_logic(e.left)
                right == parse_expression_to_logic(e.right)
            IN  IF None \in {left, right} THEN (IF left = None THEN right ELSE left) ELSE Binary(e.op, left, right)
      [] OTHER -> IF FilterOf(e) = {} THEN None ELSE Canonical(CHOOSE f \in FilterOf(e) : TRUE)

Parsed(conditions) == {parse_expression_to_logic(e) : e \in conditions} \ {None}

\* The conditions a pattern element writes inline.
InlineLogic(x) ==
    {Leaf(x.variable, p, "EQ", x.properties[p]) : p \in DOMAIN x.properties}
    \cup {Canonical([variable |-> x.variable, property |-> f.property, op |-> f.op, value |-> f.value]) :
          f \in x.filters}

RECURSIVE RenamedLogic(_, _, _), PredicatesOf(_), TrueUnder(_, _)
RenamedLogic(e, x, y) ==
    CASE e.kind = "LEAF" -> IF e.pred.variable = x THEN [e EXCEPT !.pred.variable = y] ELSE e
      [] e.kind = "NOT"  -> NotExpr(RenamedLogic(e.expr, x, y))
      [] OTHER           -> Binary(e.op, RenamedLogic(e.left, x, y), RenamedLogic(e.right, x, y))

PredicatesOf(e) ==
    CASE e.kind = "LEAF" -> {e.pred}
      [] e.kind = "NOT"  -> PredicatesOf(e.expr)
      [] OTHER           -> PredicatesOf(e.left) \cup PredicatesOf(e.right)

TrueUnder(e, yes) ==
    CASE e.kind = "LEAF" -> e.pred \in yes
      [] e.kind = "NOT"  -> ~TrueUnder(e.expr, yes)
      [] OTHER           -> IF e.op = "AND" THEN TrueUnder(e.left, yes) /\ TrueUnder(e.right, yes)
                            ELSE TrueUnder(e.left, yes) \/ TrueUnder(e.right, yes)

\* check_theory_consistency: one number within all bounds (being unequal to a number is no
\* bound), one string, not among the excluded ones, one truth value.
Consistent(preds, yes) ==
    \A x \in {[variable |-> p.variable, property |-> p.property] : p \in preds} :
        LET of    == {p \in preds : p.variable = x.variable /\ p.property = x.property}
            texts == {p.value : p \in {p \in of : p.value >= Text /\ p.op = "EQ" /\ p \in yes}}
            truths == {(p.value = Yes) <=> (p \in yes) : p \in {p \in of : p.value \in {Yes, No} /\ p.op = "EQ"}}
        IN  /\ \E point \in Points : \A p \in of :
                  Numeric(p.value) =>
                      IF p \in yes THEN PointHolds(p.op, point, p.value)
                      ELSE p.op = "EQ" \/ PointHolds(Negated[p.op], point, p.value)
            /\ Cardinality(texts) <= 1
            /\ Cardinality(truths) <= 1

\* DPLL over the clauses of the formulas.
Satisfiable(formulas) ==
    LET preds == UNION {PredicatesOf(f) : f \in formulas}
    IN  \E yes \in SUBSET preds : Consistent(preds, yes) /\ \A f \in formulas : TrueUnder(f, yes)

Conjunction(formulas) == FoldSet(LAMBDA f, g : IF g = None THEN f ELSE Binary("AND", f, g), None, formulas)

\* A constraint on one labelled node is negated for every node of that label.
NegatedConstraints(q, cat) ==
    UNION {LET cnode == c.matches[1].nodes[1]
               logic == Conjunction(Parsed(c.where \cup cnode.where) \cup InlineLogic(cnode))
           IN  {NotExpr(RenamedLogic(logic, cnode.variable, n.variable)) :
                n \in {n \in AllNodes(q) : logic # None /\ n.variable # Anon /\ n.label = cnode.label}} :
           c \in {c \in cat.constraints :
                    /\ Len(c.matches) = 1 /\ Len(c.matches[1].nodes) = 1
                    /\ IsLiteralLabel(c.matches[1].nodes[1].label)}}

domain_constraint_reasoning_pass(q, cat) ==
    LET named  == {x \in AllNodes(q) \cup AllEdges(q) : x.variable # Anon}
        logics == Parsed(q.where) \cup UNION {Parsed(x.where) \cup InlineLogic(x) : x \in named}
    IN  Unsatisfiable(q, ~Satisfiable(logics \cup NegatedConstraints(q, cat)))

-----------------------------------------------------------------------------
(* TransitiveReachabilityPruner *)

\* collect_query_equalities: the values that properties of variables are said to have.
Equalities(q) ==
    {[variable |-> f.variable, property |-> f.property, value |-> f.value] :
        f \in {f \in UNION {FilterOf(e) : e \in AllConditions(q)} : f.op = "EQ"}}
    \cup UNION {{[variable |-> x.variable, property |-> p, value |-> x.properties[p]] : p \in DOMAIN x.properties} :
                x \in {x \in AllNodes(q) \cup AllEdges(q) : x.variable # Anon}}

\* The labelled steps of a statement whose ends differ in what a property of theirs is said to be.
Steps(q) ==
    UNION {UNION {LET right  == m.edges[i].direction = "RIGHT"
                      child  == m.nodes[IF right THEN i ELSE i + 1]
                      parent == m.nodes[IF right THEN i + 1 ELSE i]
                  IN  {[type |-> m.edges[i].label, child |-> child.label, parent |-> parent.label,
                        property |-> t[1].property, low |-> t[1].value, high |-> t[2].value,
                        edge |-> m.edges[i]] :
                       t \in {t \in Equalities(q) \X Equalities(q) :
                                /\ t[1].variable = child.variable /\ t[2].variable = parent.variable
                                /\ t[1].property = t[2].property /\ t[1].value # t[2].value
                                /\ m.edges[i].direction # "ANY"
                                /\ \A l \in {m.edges[i].label, child.label, parent.label} : IsLiteralLabel(l)}} :
                  i \in 1 .. Len(m.edges)} :
           m \in ToSet(q.matches)}

HierarchyKey(s) == <<s.type, s.child, s.parent, s.property>>

\* build_taxonomy_graphs: a constraint of one such step is read as an edge of a hierarchy.
Taxonomy(cat) ==
    UNION {Steps(c) : c \in {c \in cat.constraints : Len(c.matches) = 1 /\ Len(c.matches[1].edges) = 1}}

\* find_shortest_path_hops
HopsBetween(edges, low, high) ==
    LET within[i \in 0 .. Cardinality(edges)] ==
            IF i = 0 THEN {low} ELSE within[i - 1] \cup {e.high : e \in {e \in edges : e.low \in within[i - 1]}}
        all == {i \in 0 .. Cardinality(edges) : high \in within[i]}
    IN  IF all = {} THEN Null ELSE Min(all)

transitive_reachability_pruning_pass(q, cat) ==
    LET above(s) == {t \in Taxonomy(cat) : HierarchyKey(t) = HierarchyKey(s)}
        proved(s) ==
            LET hops == HopsBetween(above(s), s.low, s.high)
            IN  /\ above(s) # {}
                /\ hops \notin (IF s.edge.varlen THEN s.edge.min .. s.edge.max ELSE {1})
    IN  Unsatisfiable(q, \E s \in Steps(q) : proved(s))

-----------------------------------------------------------------------------
(* JoinEliminator *)

\* Constraints that say: there is no node of this label without such a relationship.
find_mandatory_relations(cat) ==
    UNION {{<<c.matches[1].nodes[1].label, e.expr.matches[1].edges[1].label, e.expr.matches[1].nodes[2].label>> :
            e \in {e \in c.where :
                    /\ e.kind = "NOT" /\ e.expr.kind = "EXISTS"
                    /\ Len(e.expr.matches) = 1 /\ Len(e.expr.matches[1].nodes) = 2
                    /\ e.expr.matches[1].nodes[1].variable = c.matches[1].nodes[1].variable
                    /\ e.expr.matches[1].edges[1].direction = "RIGHT"}} :
           c \in {c \in cat.constraints :
                    Len(c.matches) = 1 /\ Len(c.matches[1].nodes) = 1 /\ Cardinality(c.where) = 1}}

ReferencedOutsideMatches(q, x) == x # Anon /\ AnyReferences(Projections(q) \cup q.where, x)

Mandatory_FiltersForgotten(m, q, cat) ==
    /\ ~m.optional /\ Len(m.nodes) = 2
    /\ m.edges[1].direction = "RIGHT"
    /\ <<m.nodes[1].label, m.edges[1].label, m.nodes[2].label>> \in find_mandatory_relations(cat)
    /\ \A x \in {m.nodes[2], m.edges[1]} : ~ReferencedOutsideMatches(q, x.variable)

Mandatory(m, q, cat) ==
    /\ ~m.optional /\ Len(m.nodes) = 2
    /\ m.edges[1].direction = "RIGHT"
    /\ <<m.nodes[1].label, m.edges[1].label, m.nodes[2].label>> \in find_mandatory_relations(cat)
    /\ \A x \in {m.nodes[2], m.edges[1]} : Unfiltered(x) /\ ~ReferencedOutsideMatches(q, x.variable)

OnlyStart(m) == [m EXCEPT !.nodes = <<@[1]>>, !.edges = <<>>]

semantic_join_elimination_pass(q, cat) ==
    [q EXCEPT !.matches = [i \in DOMAIN @ |-> IF Mandatory(@[i], q, cat) THEN OnlyStart(@[i]) ELSE @[i]]]

-----------------------------------------------------------------------------
(* SubsumptionPruner *)

is_label_subsumed(l1, l2) == l2 = AnyLabel \/ l1 = l2

\* The variable is used by one match only, and elsewhere in comparisons with numbers only.
DeadEnd(q, m, x) ==
    \/ x.variable = Anon
    \/ /\ ~AnyReferences(Projections(q), x.variable)
       /\ \A o \in ToSet(q.matches) : o.id # m.id => x.variable \notin VariablesOf(<<o>>)
       /\ \A v \in {x.properties[p] : p \in DOMAIN x.properties} \cup {f.value : f \in x.filters} : Numeric(v)
       /\ \A e \in x.where \cup q.where :
             References(e, x.variable) =>
                 \E f \in FilterOf(e) : f.variable = x.variable /\ Numeric(f.value)

are_filters_subsumed(v1, v2) ==
    /\ v2.label = AnyLabel \/ v1.label = v2.label
    /\ DOMAIN v2.intervals \subseteq DOMAIN v1.intervals
    /\ \A p \in DOMAIN v2.intervals : v1.intervals[p] \subseteq v2.intervals[p]

\* m1 asks at least what m2 asks, of the same start, and m2 binds nothing that is used.
Subsumed(q, m1, m2) ==
    LET named(x, y) == x.variable # Anon /\ y.variable # Anon
        less(x, y)  == named(x, y) => are_filters_subsumed(VarInfo(x, q), VarInfo(y, q))
    IN  /\ m1.id # m2.id /\ ~m1.optional /\ ~m2.optional
        /\ Len(m1.nodes) = Len(m2.nodes)
        /\ m1.nodes[1].variable # Anon /\ m1.nodes[1].variable = m2.nodes[1].variable
        /\ \A i \in 2 .. Len(m1.nodes) :
              /\ is_label_subsumed(m1.nodes[i].label, m2.nodes[i].label)
              /\ DeadEnd(q, m2, m2.nodes[i])
              /\ less(m1.nodes[i], m2.nodes[i])
        /\ \A i \in DOMAIN m1.edges :
              /\ is_label_subsumed(m1.edges[i].label, m2.edges[i].label)
              /\ m1.edges[i].direction = m2.edges[i].direction
              /\ <<m1.edges[i].min, m1.edges[i].max>> = <<m2.edges[i].min, m2.edges[i].max>>
              /\ DeadEnd(q, m2, m2.edges[i])
              /\ less(m1.edges[i], m2.edges[i])

\* The match goes, and the conditions on its variables go with it; the start stays, as it is m1's too.
Dropped(q, i) ==
    LET m    == q.matches[i]
        dead == {x.variable : x \in ToSet(Tail(m.nodes)) \cup ToSet(m.edges)} \ {Anon}
    IN  [q EXCEPT !.matches = WithoutIndex(@, i),
                  !.where = {e \in @ : \A x \in dead : ~References(e, x)}]

RECURSIVE semantic_subsumption_pass(_)
semantic_subsumption_pass(q) ==
    LET redundant == {i \in DOMAIN q.matches : \E o \in ToSet(q.matches) : Subsumed(q, o, q.matches[i])}
    IN  IF redundant = {} THEN q ELSE semantic_subsumption_pass(Dropped(q, Min(redundant)))

-----------------------------------------------------------------------------
(* CardinalityShortCircuiter *)

\* Constraints of several steps from one node to targets that all differ: one fewer is the most there are.
CardinalityBounds(cat) ==
    UNION {LET steps == ToSet(c.matches)
               labels(i) == {m.nodes[i].label : m \in steps} \ {AnyLabel}
               differ(x, y) == \E e \in c.where : /\ e.kind = "BINARY_OP" /\ e.op = "NE"
                                                  /\ {e.left, e.right} = {Variable(x), Variable(y)}
               targets == {m.nodes[2].variable : m \in steps}
           IN  IF /\ Len(c.matches) > 1
                  /\ \A m \in steps : Len(m.nodes) = 2 /\ m.edges[1].direction # "ANY" /\ IsLiteralLabel(m.edges[1].label)
                  /\ Cardinality({<<m.nodes[1].variable, m.edges[1].label, m.edges[1].direction>> : m \in steps}) = 1
                  /\ Cardinality(labels(1)) <= 1 /\ Cardinality(labels(2)) <= 1
                  /\ \A x, y \in targets : x # y => differ(x, y)
               THEN {[source |-> UNION labels(1), type |-> c.matches[1].edges[1].label,
                      direction |-> c.matches[1].edges[1].direction, target |-> UNION labels(2),
                      most |-> Len(c.matches) - 1]}
               ELSE {} :
           c \in cat.constraints}

semantic_cardinality_limit_pass(q, cat) ==
    LET bounds(m, i) ==
            {b.most : b \in {b \in CardinalityBounds(cat) :
                /\ b.source = m.nodes[i].label /\ IsLiteralLabel(b.source)
                /\ b.type = m.edges[i].label /\ b.direction = m.edges[i].direction
                /\ b.target = AnyLabel \/ b.target = m.nodes[i + 1].label}}
        limited(m) == [m EXCEPT !.edges = [i \in DOMAIN @ |->
                          IF bounds(m, i) = {} THEN @[i] ELSE [@[i] EXCEPT !.atMost = Min(bounds(m, i))]]]
    IN  [q EXCEPT !.matches = [i \in DOMAIN @ |-> limited(@[i])]]

=============================================================================
