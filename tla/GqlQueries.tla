------------------------------ MODULE GqlQueries ------------------------------
(***************************************************************************)
(* Statements of the query language as records, and what the optimizer's   *)
(* passes read off them (GqlAst.h, optimizer/OptimizerUtils.cpp).          *)
(*                                                                         *)
(* A condition that is a chain of ANDs is the set of its conjuncts, and    *)
(* the empty set is the condition that is not there.  Values are numbers;  *)
(* those from Text on stand for strings, which have no intervals.          *)
(***************************************************************************)
EXTENDS Integers, Sequences, FiniteSets, SequencesExt, FiniteSetsExt, Functions

CONSTANTS
    MaxValue,   \* the largest number in a statement or a graph
    Text,       \* the first of the values that stand for strings
    MaxHops     \* the number of hops of a path that has no bound

ASSUME ValueAssumption == MaxValue \in Nat /\ Text \in Nat /\ Text > MaxValue /\ MaxHops \in Nat

Null == -1

Numeric(v) == v \in 0 .. MaxValue

\* Conditions evaluate to one of these, which is_truthy tells apart; any other value but null is true.
Yes == -3

No == -4

Anon == ""      \* an element without a variable

-----------------------------------------------------------------------------
(* Expressions *)

None == [kind |-> "NONE"]

Literal(v) == [kind |-> "LITERAL", value |-> v]

Variable(x) == [kind |-> "VARIABLE", name |-> x]

Lookup(x, p) == [kind |-> "PROPERTY_LOOKUP", variable |-> x, property |-> p]

NotExpr(e) == [kind |-> "NOT", expr |-> e]

Binary(op, l, r) == [kind |-> "BINARY_OP", op |-> op, left |-> l, right |-> r]

IsNull(e, isNot) == [kind |-> "IS_NULL_CHECK", expr |-> e, not |-> isNot]

Exists(matches, where) == [kind |-> "EXISTS", matches |-> matches, where |-> where, target |-> Anon]

Size(match) == [kind |-> "SIZE_OP", matches |-> <<match>>]

\* COUNT(*) has no operand; a sum that stands for a count is 0 where there is nothing to sum.
Aggregate(fn, e, distinct) ==
    [kind |-> "AGGREGATION", fn |-> fn, expr |-> e, distinct |-> distinct, count_to_sum |-> FALSE]

Comparison == {"EQ", "NE", "LT", "LE", "GT", "GE"}

IsComparison(e) == e.kind = "BINARY_OP" /\ e.op \in Comparison

\* A comparison with its sides exchanged, and with its meaning turned round.
Reversed == [EQ |-> "EQ", NE |-> "NE", LT |-> "GT", LE |-> "GE", GT |-> "LT", GE |-> "LE"]

Negated == [EQ |-> "NONE", NE |-> "NE", LT |-> "GE", LE |-> "GT", GT |-> "LE", GE |-> "LT"]

IsLookup(e) == e.kind = "PROPERTY_LOOKUP"

IsLiteral(e) == e.kind = "LITERAL"

\* The comparison of a property with a literal an expression is, as a filter on a variable.
FilterOf(e) ==
    IF ~IsComparison(e) THEN {}
    ELSE IF IsLookup(e.left) /\ IsLiteral(e.right)
         THEN {[variable |-> e.left.variable, property |-> e.left.property, op |-> e.op, value |-> e.right.value]}
    ELSE IF IsLookup(e.right) /\ IsLiteral(e.left)
         THEN {[variable |-> e.right.variable, property |-> e.right.property, op |-> Reversed[e.op],
                value |-> e.left.value]}
    ELSE {}

\* The operands the walks of the passes go down into, and those none of them sees.
Operands(e) ==
    CASE e.kind = "NOT"         -> {e.expr}
      [] e.kind = "BINARY_OP"   -> {e.left, e.right}
      [] e.kind = "AGGREGATION" -> {e.expr}
      [] OTHER                  -> {}

RECURSIVE References(_, _)
References(e, x) ==
    CASE e.kind = "VARIABLE"        -> e.name = x
      [] e.kind = "PROPERTY_LOOKUP" -> e.variable = x
      [] OTHER                      -> \E o \in Operands(e) : References(o, x)

AnyReferences(conditions, x) == \E e \in conditions : References(e, x)

\* A COUNT refers to nothing outside itself.
RECURSIVE is_variable_referenced_outside_count(_, _)
is_variable_referenced_outside_count(e, x) ==
    IF e.kind = "AGGREGATION" /\ e.fn = "COUNT" THEN FALSE
    ELSE CASE e.kind = "VARIABLE"        -> e.name = x
           [] e.kind = "PROPERTY_LOOKUP" -> e.variable = x
           [] OTHER -> \E o \in Operands(e) : is_variable_referenced_outside_count(o, x)

\* The expressions an expression is built from, itself included.
RECURSIVE SubExpressions(_)
SubExpressions(e) ==
    {e} \cup (IF e.kind = "IS_NULL_CHECK" THEN SubExpressions(e.expr)
             ELSE UNION {SubExpressions(o) : o \in Operands(e)})

\* The expression with the subexpressions that are keys of map replaced.
RECURSIVE Substituted(_, _)
Substituted(e, map) ==
    IF e \in DOMAIN map THEN map[e]
    ELSE CASE e.kind = "BINARY_OP" -> Binary(e.op, Substituted(e.left, map), Substituted(e.right, map))
           [] e.kind \in {"NOT", "AGGREGATION", "IS_NULL_CHECK"} -> [e EXCEPT !.expr = Substituted(@, map)]
           [] OTHER -> e

Mapped(x, map) == IF x \in DOMAIN map THEN map[x] ELSE x

\* Variables renamed in an expression and in the patterns it holds; size() patterns are left alone.
RECURSIVE rewrite_expr_vars(_, _), RenamedMatch(_, _)
rewrite_expr_vars(e, map) ==
    CASE e.kind = "VARIABLE"        -> Variable(Mapped(e.name, map))
      [] e.kind = "PROPERTY_LOOKUP" -> Lookup(Mapped(e.variable, map), e.property)
      [] e.kind = "BINARY_OP" ->
            Binary(e.op, rewrite_expr_vars(e.left, map), rewrite_expr_vars(e.right, map))
      [] e.kind \in {"NOT", "AGGREGATION"} -> [e EXCEPT !.expr = rewrite_expr_vars(@, map)]
      [] e.kind = "EXISTS" ->
            [e EXCEPT !.matches = [i \in DOMAIN @ |-> RenamedMatch(@[i], map)],
                      !.where = {rewrite_expr_vars(w, map) : w \in @},
                      !.target = Mapped(@, map)]
      [] OTHER -> e

RenamedMatch(m, map) ==
    LET renamed(x) == [x EXCEPT !.variable = Mapped(@, map), !.where = {rewrite_expr_vars(w, map) : w \in @}]
    IN  [m EXCEPT !.nodes = [i \in DOMAIN @ |-> renamed(@[i])], !.edges = [i \in DOMAIN @ |-> renamed(@[i])]]

-----------------------------------------------------------------------------
(* Patterns and statements *)

AnyLabel == {}      \* no label expression; otherwise the labels, one of which is wanted

IsLiteralLabel(l) == Cardinality(l) = 1

NoProps == [p \in {} |-> Null]

NodeP(x, l) == [variable |-> x, label |-> l, properties |-> NoProps, filters |-> {}, where |-> {}, degree |-> {}]

EdgeP(x, l, dir) ==
    [variable |-> x, label |-> l, direction |-> dir, properties |-> NoProps, filters |-> {}, where |-> {},
     varlen |-> FALSE, min |-> 1, max |-> 1, atMost |-> Null]

\* What the plan notes on a match: a bound of its scan, a lookup in a closure of its type, a count of the
\* paths of so many hops that is bound to target.
NoCount == [target |-> Anon, hops |-> 0, types |-> AnyLabel, direction |-> "ANY"]

Match(id, nodes, edges) ==
    [id |-> id, optional |-> FALSE, nodes |-> nodes, edges |-> edges, limit |-> Null, lookup |-> "NONE",
     count |-> NoCount]

Query(matches, where, returns) ==
    [matches |-> matches, where |-> where, returns |-> returns, order |-> <<>>, distinct |-> FALSE,
     limit |-> Null, noop |-> FALSE, factor |-> 1, outer |-> {}]

Elements(m) == ToSet(m.nodes) \cup ToSet(m.edges)

AllNodes(q) == UNION {ToSet(m.nodes) : m \in ToSet(q.matches)}

AllEdges(q) == UNION {ToSet(m.edges) : m \in ToSet(q.matches)}

VariablesOf(matches) ==
    {x.variable : x \in UNION {Elements(m) : m \in ToSet(matches)}} \ {Anon}

Projections(q) == ToSet(q.returns) \cup ToSet(q.order)

AllConditions(q) == q.where \cup UNION {x.where : x \in AllNodes(q) \cup AllEdges(q)}

RenamedQuery(q, map) ==
    [q EXCEPT !.matches = [i \in DOMAIN @ |-> RenamedMatch(@[i], map)],
              !.where = {rewrite_expr_vars(e, map) : e \in @},
              !.returns = [i \in DOMAIN @ |-> rewrite_expr_vars(@[i], map)],
              !.order = [i \in DOMAIN @ |-> rewrite_expr_vars(@[i], map)]]

\* The projections with subexpressions replaced.
ProjectionsReplaced(q, map) ==
    [q EXCEPT !.returns = [i \in DOMAIN @ |-> Substituted(@[i], map)],
              !.order = [i \in DOMAIN @ |-> Substituted(@[i], map)]]

ReverseDirection == [RIGHT |-> "LEFT", LEFT |-> "RIGHT", ANY |-> "ANY"]

Reverse_path(m) ==
    [m EXCEPT !.nodes = Reverse(@),
              !.edges = Reverse([i \in 1 .. Len(@) |-> [@[i] EXCEPT !.direction = ReverseDirection[@]]])]

\* No inline property and no filter; the element's own WHERE is looked at by Unfiltered only.
Plain(x) == x.properties = NoProps /\ x.filters = {}

Unfiltered(x) == Plain(x) /\ x.where = {}

Named(x) == x.variable # Anon

WithoutIndex(s, i) == SubSeq(s, 1, i - 1) \o SubSeq(s, i + 1, Len(s))

ReferencedOutsideCount(q, x) ==
    x # Anon /\ \E e \in q.where \cup Projections(q) : is_variable_referenced_outside_count(e, x)

query_has_distinct_aggregate(q) == \E e \in Projections(q) : e.kind = "AGGREGATION" /\ e.distinct

-----------------------------------------------------------------------------
(* Intervals: the sets of points of a line on which a number has a point in front of, between and behind *)

Points == -1 .. 2 * MaxValue + 1

PointHolds(op, point, v) ==
    CASE op = "EQ" -> point = 2 * v
      [] op = "LT" -> point < 2 * v
      [] op = "LE" -> point <= 2 * v
      [] op = "GT" -> point > 2 * v
      [] op = "GE" -> point >= 2 * v
      [] OTHER     -> TRUE          \* NE leaves an interval that has no bounds

\* extract_intervals_from_expr: what an expression says of the properties of a variable.
RECURSIVE Bounds(_, _, _)
Bounds(e, x, negate) ==
    CASE e.kind = "NOT" -> Bounds(e.expr, x, ~negate)
      [] e.kind = "BINARY_OP" /\ e.op = (IF negate THEN "OR" ELSE "AND") ->
            Bounds(e.left, x, negate) \cup Bounds(e.right, x, negate)
      [] OTHER -> {[property |-> f.property, op |-> IF negate THEN Negated[f.op] ELSE f.op, value |-> f.value] :
                   f \in {f \in FilterOf(e) : f.variable = x /\ Numeric(f.value) /\ ~(negate /\ f.op = "EQ")}}

Intervals(bounds) ==
    [p \in {b.property : b \in bounds} |->
        {point \in Points : \A b \in bounds : b.property = p => PointHolds(b.op, point, b.value)}]

BoundsOf(x, q) ==
    {[property |-> p, op |-> "EQ", value |-> x.properties[p]] :
        p \in {p \in DOMAIN x.properties : Numeric(x.properties[p])}}
    \cup {f \in x.filters : Numeric(f.value)}
    \cup UNION {Bounds(e, x.variable, FALSE) : e \in x.where \cup q.where}

VarInfo(x, q) ==
    [variable |-> x.variable,
     label |-> IF IsLiteralLabel(x.label) THEN x.label ELSE AnyLabel,
     intervals |-> Intervals(BoundsOf(x, q))]

collect_query_vars(q) == {VarInfo(x, q) : x \in {x \in AllNodes(q) : x.variable # Anon}}

collect_edge_vars(q) == {VarInfo(x, q) : x \in {x \in AllEdges(q) : x.variable # Anon}}

collect_all_query_vars(q) == collect_query_vars(q) \cup collect_edge_vars(q)

=============================================================================
