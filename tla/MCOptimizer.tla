------------------------------ MODULE MCOptimizer ------------------------------
(***************************************************************************)
(* Statements that each make some pass change something, and all the small *)
(* graphs that keep to the catalog the pass reads.                         *)
(***************************************************************************)
EXTENDS Optimizer

NoCatalog ==
    [views |-> {}, constraints |-> {}, traits |-> {}, allowed |-> {}, disjoint_labels |-> {},
     disjoint_values |-> {}, indexes |-> {}]

-----------------------------------------------------------------------------
(* Graphs *)

Empty == [x \in {} |-> {}]

\* A graph from the labels and properties of its nodes and the set of its <<from, type, to>>, of one type.
GraphOf(label, props, steps) ==
    LET id(s) == 10 * s[1] + s[3]
        rels  == {id(s) : s \in steps}
        of    == [r \in rels |-> CHOOSE s \in steps : id(s) = r]
    IN  [label |-> label @@ [r \in rels |-> of[r][2]],
         props |-> props @@ [r \in rels |-> [since |-> 1]],
         from  |-> [r \in rels |-> of[r][1]],
         to    |-> [r \in rels |-> of[r][3]],
         views |-> Empty]

\* All the graphs with these labels and some of these steps, every node having a value of the property.
GraphsOf(label, property, values, steps) ==
    {GraphOf(label, [v \in DOMAIN label |-> property :> value[v]], some) :
        value \in [DOMAIN label -> values], some \in SUBSET steps}

Two(l) == (101 :> l) @@ (102 :> l)
Three(l) == Two(l) @@ (103 :> l)

Between(S, T, type) == {<<a, type, b>> : a \in S, b \in T}

-----------------------------------------------------------------------------
(* Statements *)

N(x) == NodeP(x, AnyLabel)
L(x, l) == NodeP(x, {l})
To(type) == EdgeP(Anon, {type}, "RIGHT")
ToBy(x, type) == EdgeP(x, {type}, "RIGHT")
From(type) == EdgeP(Anon, {type}, "LEFT")
Hops(type, dir, min, max) == [EdgeP(Anon, {type}, dir) EXCEPT !.varlen = TRUE, !.min = min, !.max = max]
P1(id, n) == Match(id, <<n>>, <<>>)
Step(id, n, e, m) == Match(id, <<n, m>>, <<e>>)
Optionally(m) == [m EXCEPT !.optional = TRUE]

Is(op, x, p, v) == Binary(op, Lookup(x, p), Literal(v))
V(x) == Variable(x)
With(n, p, v) == [n EXCEPT !.properties = p :> v]
Where(n, e) == [n EXCEPT !.where = {e}]
Limited(q, k) == [q EXCEPT !.limit = k]

-----------------------------------------------------------------------------
(* People who know each other: no age and no year is below 1. *)

Adult == [name |-> "Adult", query |-> Query(<<P1(1, L("p", "Person"))>>, {Is("GT", "p", "age", 1)}, <<V("p")>>)]

PeopleCatalog ==
    [NoCatalog EXCEPT !.views = {Adult},
                      !.constraints = {Query(<<P1(1, L("x", "Person"))>>, {Is("LT", "x", "age", 1)}, <<V("x")>>),
                                       Query(<<Step(1, N("x"), ToBy("k", "KNOWS"), N("y"))>>,
                                             {Is("LT", "k", "since", 1)}, <<V("x")>>)},
                      !.indexes = {<<{"Person"}, "age">>},
                      !.allowed = {<<{"Person"}, {"KNOWS"}, {"Person"}>>}]

PeopleGraphs ==
    {[g EXCEPT !.views = "Adult" :> {v \in {101, 102} : g.props[v].age > 1}] :
        g \in GraphsOf(Two("Person"), "age", 1 .. 2, Between({101, 102}, {101, 102}, "KNOWS"))}

KnowsPQ == Step(1, L("p", "Person"), To("KNOWS"), N("q"))

PeopleStatements ==
    {Query(<<P1(1, L("p", "Person"))>>, {Is("LT", "p", "age", 1)}, <<V("p")>>),
     Query(<<P1(1, L("p", "Person"))>>, {Is("LT", "p", "age", 2)}, <<V("p")>>),
     Query(<<P1(1, L("p", "Person"))>>, {Is("GT", "p", "age", 1), Is("LT", "p", "age", 1)}, <<V("p")>>),
     Query(<<P1(1, L("p", "Person"))>>, {Lookup("p", "age"), NotExpr(Lookup("p", "age"))}, <<V("p")>>),
     Query(<<P1(1, L("p", "Person"))>>,
           {Binary("OR", Is("EQ", "p", "age", 1), Is("GE", "p", "age", 3)), Is("EQ", "p", "age", 2)}, <<V("p")>>),
     Query(<<KnowsPQ>>, {Binary("LT", Lookup("p", "age"), Lookup("q", "age")),
                         Binary("LE", Lookup("q", "age"), Lookup("p", "age"))}, <<V("p")>>),
     Query(<<Step(1, L("p", "Person"), Where(ToBy("k", "KNOWS"), Is("LT", "k", "since", 1)), N("q"))>>, {}, <<V("p")>>),
     Query(<<Step(1, L("p", "Person"), Where(ToBy("k", "KNOWS"), Is("LT", "k", "since", 2)), N("q"))>>, {}, <<V("p"), V("q")>>),
     Query(<<KnowsPQ>>, {Binary("EQ", Lookup("p", "age"), Lookup("q", "age")), Is("EQ", "p", "age", 1)}, <<V("p"), V("q")>>),
     Query(<<Step(1, Where(L("p", "Person"), Is("LE", "p", "age", 1)), To("KNOWS"), N("q"))>>, {}, <<V("p"), V("q")>>),
     Query(<<P1(1, L("p", "Person"))>>, {Exists(<<Step(2, N("p"), To("KNOWS"), N(Anon))>>, {})}, <<V("p")>>),
     Query(<<P1(1, L("p", "Person"))>>,
           {NotExpr(Exists(<<Step(2, N("p"), To("KNOWS"), N("x"))>>, {Is("EQ", "x", "age", 1)}))}, <<V("p")>>),
     Query(<<Step(1, L("p", "Person"), ToBy("k", "KNOWS"), N("q")), Step(2, L("p", "Person"), ToBy("k", "KNOWS"), N("q"))>>,
           {}, <<V("p"), V("k")>>),
     Query(<<KnowsPQ>>, {}, <<CountOf("q")>>),
     Limited(Query(<<P1(1, L("p", "Person"))>>, {}, <<V("p")>>), 1),
     Limited(Query(<<KnowsPQ>>, {}, <<V("p"), V("q")>>), 1),
     Limited(Query(<<KnowsPQ>>, {Is("GT", "q", "age", 1)}, <<V("p"), V("q")>>), 1),
     Query(<<KnowsPQ, Step(2, N("q"), To("KNOWS"), N("r"))>>, {}, <<V("p"), V("q"), V("r")>>),
     Query(<<Step(1, N("p"), To("KNOWS"), With(L("q", "Person"), "age", 1))>>, {}, <<V("p"), V("q")>>),
     Query(<<Step(1, N("p"), From("KNOWS"), With(L(Anon, "Person"), "age", 1))>>, {}, <<V("p")>>),
     Query(<<P1(1, L("p", "Person")), Optionally(Step(2, N("p"), To("KNOWS"), N("q")))>>,
           {Is("EQ", "q", "age", 1)}, <<V("p"), V("q")>>),
     Query(<<P1(1, L("p", "Person")), Optionally(Step(2, N("p"), To("KNOWS"), N("q")))>>,
           {IsNull(V("q"), FALSE)}, <<V("p")>>),
     Query(<<KnowsPQ, Step(2, L("p", "Person"), To("KNOWS"), N("r"))>>, {Binary("EQ", V("q"), V("r"))}, <<V("p"), V("q"), V("r")>>),
     Query(<<P1(1, L("p", "Person"))>>, {}, <<V("p"), Size(Step(2, N("p"), To("KNOWS"), N(Anon)))>>),
     Query(<<Step(1, L("p", "Person"), To("KNOWS"), L("q", "Person")), Step(2, L("p", "Person"), To("KNOWS"), N("r"))>>,
           {Is("LT", "q", "age", 2), Is("LE", "r", "age", 2)}, <<V("p"), V("q")>>),
     Query(<<KnowsPQ>>, {}, <<V("p"), Aggregate("SUM", Binary("MUL", Lookup("p", "age"), Lookup("q", "age")), FALSE)>>),
     Query(<<Step(1, NodeP("a", {"Adult"}), To("KNOWS"), N("b"))>>, {}, <<V("a"), V("b")>>),
     Query(<<Step(1, L("p", "Person"), To("KNOWS"), NodeP("b", {"Adult"}))>>, {Is("EQ", "b", "age", 2)}, <<V("p"), V("b")>>)}

-----------------------------------------------------------------------------
(* People who each live in one town, whose zip code tells its size. *)

Lives(x, c) == Step(1, L(x, "Person"), To("LIVES_IN"), L(c, "Town"))

TownCatalog ==
    [NoCatalog EXCEPT
        !.constraints =
            {Query(<<P1(1, L("p", "Person"))>>,
                   {NotExpr(Exists(<<Step(2, N("p"), To("LIVES_IN"), L(Anon, "Town"))>>, {}))}, <<V("p")>>),
             Query(<<Lives("p", "c"), Step(2, L("p", "Person"), To("LIVES_IN"), L("d", "Town"))>>,
                   {Binary("NE", V("c"), V("d"))}, <<V("p")>>),
             Query(<<P1(1, L("c", "Town")), P1(2, L("d", "Town"))>>,
                   {Binary("EQ", Lookup("c", "zip"), Lookup("d", "zip")),
                    Binary("NE", Lookup("c", "size"), Lookup("d", "size"))}, <<V("c")>>)},
        !.allowed = {<<{"Person"}, {"LIVES_IN"}, {"Town"}>>}]

TownGraphs ==
    {GraphOf((101 :> "Person") @@ (102 :> "Person") @@ (103 :> "Town") @@ (104 :> "Town"),
             [v \in 101 .. 104 |-> [zip |-> IF v < 103 THEN 1 ELSE zip[v], size |-> IF v < 103 THEN 1 ELSE zip[v] + shift]],
             {<<p, "LIVES_IN", home[p]>> : p \in {101, 102}}) :
        zip \in [103 .. 104 -> 1 .. 2], shift \in {0, 1}, home \in [101 .. 102 -> 103 .. 104]}

TownStatements ==
    {Query(<<Lives("p", Anon)>>, {}, <<V("p")>>),
     Query(<<Step(1, With(L("p", "Person"), "size", 1), To("LIVES_IN"), With(L("c", "Town"), "size", 1))>>, {}, <<V("p")>>),
     Limited(Query(<<P1(1, L("p", "Person")), Lives("p", "c")>>, {}, <<V("c")>>), 1),
     Query(<<P1(1, L("p", "Person")), Optionally(Lives("p", "c"))>>, {}, <<V("p")>>),
     Query(<<Lives("p", "c")>>, {}, <<Lookup("c", "zip"), Aggregate("COUNT", Lookup("c", "size"), FALSE)>>),
     Query(<<Step(1, L("c", "Town"), To("LIVES_IN"), L("p", "Person"))>>, {}, <<V("p")>>),
     Query(<<Step(1, L("p", "Person"), To("LIVES_IN"), N("c")), P1(2, L("c", "Person"))>>, {}, <<V("p")>>)}

-----------------------------------------------------------------------------
(* A ring of friends: nobody is his own friend, and everybody has one. *)

RingGraphs ==
    {g \in GraphsOf(Three("Person"), "age", {1}, {s \in Between(101 .. 103, 101 .. 103, "FRIEND") : s[1] # s[3]}) :
        \A v \in 101 .. 103 : \E r \in DOMAIN g.from : g.from[r] = v}

RingStatements ==
    {Query(<<Match(1, <<N("a"), N(Anon), N("c")>>, <<To("FRIEND"), To("FRIEND")>>)>>, {}, <<V("a"), CountStar>>),
     Query(<<Match(1, <<L("a", "Person"), N("c")>>, <<Hops("FRIEND", "RIGHT", 2, 2)>>)>>, {}, <<V("a"), CountOf("c")>>),
     Query(<<Match(1, <<L("a", "Person"), L("b", "Person"), L("c", "Person"), N("a")>>,
                   <<To("FRIEND"), To("FRIEND"), To("FRIEND")>>)>>, {}, <<CountStar>>)}

-----------------------------------------------------------------------------
(* Concepts: a dog is a mammal, a mammal an animal; a crow is a bird, which no mammal is. *)

Dog == Text + 1
Mammal == Text + 2
Animal == Text + 3
Crow == Text + 4
Bird == Text + 5

Concept(x, v) == With(L(x, "Concept"), "name", v)

IsA(low, high) ==
    Query(<<Step(1, Concept("a", low), To("IS_A"), Concept("b", high))>>, {}, <<V("a")>>)

ConceptCatalog ==
    [NoCatalog EXCEPT !.constraints = {IsA(Dog, Mammal), IsA(Mammal, Animal), IsA(Crow, Bird)},
                      !.disjoint_values = {<<Mammal, Bird>>, <<Bird, Mammal>>}]

\* What the constraints name are the only steps there are.
ConceptGraphs ==
    LET name == (101 :> Dog) @@ (102 :> Mammal) @@ (103 :> Animal) @@ (104 :> Crow) @@ (105 :> Bird)
    IN  {GraphOf([v \in DOMAIN name |-> "Concept"], [v \in DOMAIN name |-> "name" :> name[v]], some) :
            some \in SUBSET {<<101, "IS_A", 102>>, <<102, "IS_A", 103>>, <<104, "IS_A", 105>>}}

ConceptStatements ==
    {Query(<<Step(1, Concept("a", low), To("IS_A"), Concept("b", high))>>, {}, <<V("a")>>) :
        low \in {Dog, Mammal}, high \in {Dog, Animal}}
    \cup {Query(<<Step(1, Concept("a", Dog), Hops("IS_A", "RIGHT", 1, n), Concept("b", Animal))>>, {}, <<V("a")>>) :
            n \in 1 .. 2}
    \cup {Query(<<Step(1, With(N("a"), "name", Dog), Hops("IS_A", "RIGHT", 1, MaxHops), With(N("b"), "name", Crow))>>,
                {}, <<V("a")>>)}

-----------------------------------------------------------------------------
(* Relations with algebraic traits. *)

\* The relations on three nodes, as sets of pairs, that have some traits.
RelationsOn(S, traits) ==
    {R \in SUBSET (S \X S) :
        /\ "reflexive"   \in traits => \A a \in S : <<a, a>> \in R
        /\ "irreflexive" \in traits => \A a \in S : <<a, a>> \notin R
        /\ "symmetric"   \in traits => \A p \in R : <<p[2], p[1]>> \in R
        /\ "antisymmetric" \in traits => \A p \in R : <<p[2], p[1]>> \in R => p[1] = p[2]
        /\ "transitive"  \in traits => \A p, r \in R : p[2] = r[1] => <<p[1], r[2]>> \in R}

Traits ==
    [WITHIN |-> {"transitive", "irreflexive"}, SAME |-> Equivalence, BELOW |-> {"reflexive", "antisymmetric"},
     PARENT |-> {"irreflexive", "antisymmetric"}, BEFORE |-> {"antisymmetric"}]

RelationCatalog(type) == [NoCatalog EXCEPT !.traits = {<<type, t>> : t \in Traits[type]}]

RelationGraphs(type) ==
    {GraphOf(Three("Thing"), [v \in 101 .. 103 |-> "id" :> v], {<<p[1], type, p[2]>> : p \in R}) :
        R \in RelationsOn(101 .. 103, Traits[type])}

AnyPath(type) == Step(1, N("a"), Hops(type, "RIGHT", 1, MaxHops), N("b"))

Cycle(type) == <<Step(1, N("a"), To(type), N("b")), Step(2, N("b"), To(type), N("a"))>>

RelationStatements(type) ==
    {Query(<<AnyPath(type)>>, {}, <<V("a"), V("b")>>),
     Query(<<Step(1, N("a"), To(type), N("b")), Step(2, N("b"), To(type), N("c")), Step(3, N("a"), To(type), N("c"))>>,
           {}, <<V("a"), V("c")>>),
     Query(<<Step(1, L("a", "Thing"), To(type), N("a"))>>, {}, <<V("a")>>),
     Query(Cycle(type), {}, <<V("a"), V("b")>>)}

-----------------------------------------------------------------------------

MCCatalogs ==
    [people |-> PeopleCatalog, town |-> TownCatalog, ring |-> NoCatalog, concept |-> ConceptCatalog]
    @@ [type \in DOMAIN Traits |-> RelationCatalog(type)]

MCGraphs ==
    [people |-> PeopleGraphs, town |-> TownGraphs, ring |-> RingGraphs, concept |-> ConceptGraphs]
    @@ [type \in DOMAIN Traits |-> RelationGraphs(type)]

\* A graph keeps to a catalog when no constraint has an answer and every view has its nodes.
KeepsTo(g, catalog) ==
    /\ \A c \in catalog.constraints : Rows(c, g) = <<>>
    /\ \A v \in catalog.views : g.views[v.name] = {a[1] : a \in ToSet(Answers(v.query, g))}

\* The concepts are left out: the code reads what their constraints forbid as what there is.
ASSUME GraphsAssumption ==
    \A f \in DOMAIN MCGraphs \ {"concept"} : \A g \in MCGraphs[f] : KeepsTo(g, MCCatalogs[f])

MCStatements ==
    [family : {"people"}, query : PeopleStatements]
    \cup [family : {"town"}, query : TownStatements]
    \cup [family : {"ring"}, query : RingStatements]
    \cup [family : {"concept"}, query : ConceptStatements]
    \cup UNION {[family : {type}, query : RelationStatements(type)] : type \in DOMAIN Traits}

=============================================================================
