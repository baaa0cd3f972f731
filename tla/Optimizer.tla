------------------------------- MODULE Optimizer -------------------------------
(***************************************************************************)
(* GqlOptimizer::optimize: the passes one after the other, in the order    *)
(* the code runs them, each on the statement the one before it left.  A    *)
(* pass that finds the statement unsatisfiable ends the optimization.      *)
(*                                                                         *)
(* A family is a catalog and the graphs that keep to what it declares.     *)
(***************************************************************************)
EXTENDS GqlMeaning

CONSTANTS
    Catalogs,       \* the catalog of every family
    Graphs,         \* the graphs that keep to it
    Statements      \* the statements asked, with the family they are asked of

VARIABLES
    family,         \* the family of the statement
    asked,          \* the statement as it was parsed
    query,          \* the statement as the passes so far have left it
    stage           \* the pass that is next

vars == <<family, asked, query, stage>>

-----------------------------------------------------------------------------

Order ==
    <<"views", "semantic_pruning", "domain_constraints", "transitive_reachability", "join_elimination",
      "subsumption", "relational", "cardinality", "algebraic", "functional_dependency", "symmetry",
      "schema", "optional", "degree", "unique_join", "limit", "transitive_filter", "edge_contradiction",
      "antisemijoin", "equality_join", "disjoint_concept", "direction_swap", "equivalence_class",
      "transitive_path", "irreflexive", "antisymmetric_loop", "unnest", "duplicates", "degree_sum",
      "inline_pushdown", "pushdown", "reorder", "index_reversal">>

After(name) ==
    LET i == CHOOSE i \in DOMAIN Order : Order[i] = name
    IN  IF i = Len(Order) THEN "done" ELSE Order[i + 1]

Catalog == Catalogs[family]

Init ==
    /\ \E s \in Statements : family = s.family /\ asked = s.query
    /\ query = asked
    /\ stage = Order[1]

Pass(name, rewritten) ==
    /\ stage = name
    /\ query' = rewritten
    /\ stage' = IF query'.noop THEN "done" ELSE After(name)
    /\ UNCHANGED <<family, asked>>

ExpandViews           == Pass("views", expand_views_recursive(query, Catalog))
SemanticPruning       == Pass("semantic_pruning", semantic_pruning_pass(query, Catalog))
DomainConstraints     == Pass("domain_constraints", domain_constraint_reasoning_pass(query, Catalog))
TransitiveReachability == Pass("transitive_reachability", transitive_reachability_pruning_pass(query, Catalog))
JoinElimination       == Pass("join_elimination", semantic_join_elimination_pass(query, Catalog))
Subsumption           == Pass("subsumption", semantic_subsumption_pass(query))
RelationalPruning     == Pass("relational", relational_pruning_pass(query))
CardinalityLimit      == Pass("cardinality", semantic_cardinality_limit_pass(query, Catalog))
AlgebraicRewrite      == Pass("algebraic", algebraic_rewriter_pass(query))
FunctionalDependency  == Pass("functional_dependency", functional_dependency_pass(query, Catalog))
AutomorphicSymmetry   == Pass("symmetry", automorphic_symmetry_pass(query))
SchemaReachability    == Pass("schema", schema_reachability_pass(query, Catalog))
OptionalPromotion     == Pass("optional", optional_match_promotion_pass(query))
DegreeConstraint      == Pass("degree", degree_constraint_pruning_pass(query))
UniqueJoin            == Pass("unique_join", unique_join_elimination_pass(query, Catalog))
LimitPushdown         == Pass("limit", limit_pushdown_pass(query, Catalog))
TransitiveFilter      == Pass("transitive_filter", transitive_filter_propagation_pass(query))
EdgeContradiction     == Pass("edge_contradiction", edge_contradiction_pruning_pass(query, Catalog))
AntiSemiJoin          == Pass("antisemijoin", optional_match_to_antisemijoin_pass(query))
EqualityJoin          == Pass("equality_join", equality_join_elimination_pass(query))
DisjointConcept       == Pass("disjoint_concept", disjoint_concept_pruning_pass(query, Catalog))
DirectionSwap         == Pass("direction_swap", direction_swap_pass(query))
EquivalenceClass      == Pass("equivalence_class", equivalence_class_pass(query, Catalog))
TransitivePath        == Pass("transitive_path", transitive_path_pass(query, Catalog))
IrreflexiveContradiction == Pass("irreflexive", irreflexive_contradiction_pass(query, Catalog))
AntisymmetricLoop     == Pass("antisymmetric_loop", antisymmetric_loop_pass(query, Catalog))
UnnestSubqueries      == Pass("unnest", unnest_subqueries(query))
MergeDuplicates       == Pass("duplicates", merge_equal_patterns(query))
CountToSum            == Pass("degree_sum", rewrite_count_to_sum_degree(query))
InlinePushdown        == Pass("inline_pushdown", inline_filter_pushdown(query))
FilterPushdown        == Pass("pushdown", filter_pushdown(query))
Reorder               == \E q \in reorder_matches_by_cost(query) : Pass("reorder", q)
IndexReversal         == Pass("index_reversal", index_seek_reversal(query, Catalog))

Next ==
    \/ ExpandViews \/ SemanticPruning \/ DomainConstraints \/ TransitiveReachability \/ JoinElimination
    \/ Subsumption \/ RelationalPruning \/ CardinalityLimit \/ AlgebraicRewrite \/ FunctionalDependency
    \/ AutomorphicSymmetry \/ SchemaReachability \/ OptionalPromotion \/ DegreeConstraint \/ UniqueJoin
    \/ LimitPushdown \/ TransitiveFilter \/ EdgeContradiction \/ AntiSemiJoin \/ EqualityJoin
    \/ DisjointConcept \/ DirectionSwap \/ EquivalenceClass \/ TransitivePath
    \/ IrreflexiveContradiction \/ AntisymmetricLoop \/ UnnestSubqueries \/ MergeDuplicates \/ CountToSum
    \/ InlinePushdown \/ FilterPushdown \/ Reorder \/ IndexReversal

Spec == Init /\ [][Next]_vars

-----------------------------------------------------------------------------
(* Properties *)

\* The passes that drop a join or look a closure up, and so say nothing of how often an answer comes.
SetSemantics ==
    {"views", "join_elimination", "subsumption", "unique_join", "equality_join", "equivalence_class",
     "transitive_path", "antisymmetric_loop", "unnest", "duplicates"}

Unlimited(q) == [EveryMatch(q, LAMBDA m : [m EXCEPT !.limit = Null]) EXCEPT !.limit = Null]

Agreeing(q, all, new) ==
    IF q.limit # Null THEN Len(new) = Min({q.limit, Len(all)}) /\ Within(new, all)
    ELSE IF stage \in SetSemantics THEN ToSet(new) = ToSet(all)
    ELSE SameBag(new, all)

SameAnswers(q, r, g) == Agreeing(q, Answers(Unlimited(q), g), Answers(r, g))

\* No pass changes what a statement answers on a graph that keeps to the catalog: the same rows as often,
\* or the same rows where a pass only promises that; and with a LIMIT as many of them as there can be.
AnswersKept ==
    [][query' # query /\ ~query'.noop =>
        \A g \in Graphs[family] : SameAnswers(query, query', g)]_vars

\* A statement that is short-circuited as unsatisfiable has no rows on any graph that keeps to the catalog.
ShortCircuitSound ==
    query.noop => \A g \in Graphs[family] : Rows(asked, g) = <<>>

=============================================================================
