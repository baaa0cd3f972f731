-------------------------------- MODULE Caches --------------------------------
(***************************************************************************)
(* What each shard remembers about queries, and who tells it to forget:    *)
(*                                                                         *)
(*   - the plan cache (gql/GqlQueryCache.cpp), a map from query texts to   *)
(*     optimized queries with a list that orders them by use;              *)
(*   - the closure of a relationship type (graph/cache/WccCache.h and      *)
(*     TransitiveReachabilityCache.h), computed over all shards by the     *)
(*     first query that looks it up;                                       *)
(*   - the catalog: views (gql/GqlVirtualCatalog.h) and the algebraic      *)
(*     traits of the relationship type (graph/cache/AlgebraicTraits.h).    *)
(*                                                                         *)
(* All of them are thread-local, one per shard. A statement changes them   *)
(* with invoke_on_all: the shard that runs it at once, the others by a     *)
(* message each. There is one view and one relationship type; its traits   *)
(* are either none or those that let a plan look the closure up. A plan is *)
(* what the optimizer read from the catalog, a closure the writes it saw.  *)
(***************************************************************************)
EXTENDS Integers, FiniteSets, Sequences, SequencesExt

CONSTANTS Shard,      \* the shards
          Query,      \* query texts
          Write,      \* relationship additions and removals
          capacity,   \* of a plan cache
          NoClosure,  \* the closure of the type is not cached
          NoFill,     \* no closure is being computed on the shard
          Asker,      \* the shards that run queries
          Caller,     \* the shards that run schema statements
          MaxChanges  \* bound of the model: changes of the catalog

ASSUME CachesAssumption ==
    /\ IsFiniteSet(Shard) /\ IsFiniteSet(Query) /\ IsFiniteSet(Write)
    /\ Asker \subseteq Shard
    /\ Caller \subseteq Shard
    /\ capacity \in Nat \ {0}
    /\ MaxChanges \in Nat

VARIABLES view,       \* view[s]: the version of the view in the catalog of shard s
          traits,     \* traits[s]: whether the type has traits in the catalog of shard s
          lru_list,   \* lru_list[s]: query texts, the last used first
          cache_map,  \* cache_map[s]: query text to plan
          closure,    \* closure[s]: the closure of the type cached on shard s
          fill,       \* fill[s]: the closure shard s is computing
          stored,     \* stored[s]: the writes to relationships of shard s
          stage,      \* stage[w]: how far write w is
          statement,  \* statement[c]: what the shard is changing everywhere
          sent,       \* messages sent and not handled yet
          changes,    \* changes of the catalog so far
          used        \* history: used[s] lists the queries run since the last clear, the last first

vars == <<view, traits, lru_list, cache_map, closure, fill, stored, stage, statement, sent, changes, used>>

Plan == [view : 0 .. MaxChanges, traits : BOOLEAN]

Message ==
    [op : {"view"}, by : Shard, to : Shard, value : 0 .. MaxChanges]
        \cup [op : {"traits"}, by : Shard, to : Shard, value : BOOLEAN]
        \cup [op : {"plans", "all"}, by : Shard, to : Shard]
        \cup [op : {"invalidate"}, write : Write, to : Shard]

TypeOK ==
    /\ view \in [Shard -> 0 .. MaxChanges]
    /\ traits \in [Shard -> BOOLEAN]
    /\ lru_list \in [Shard -> Seq(Query)]
    /\ cache_map \in [Shard -> UNION {[keys -> Plan] : keys \in SUBSET Query}]
    /\ closure \in [Shard -> {NoClosure} \cup [seen : SUBSET Write, missed : SUBSET Write]]
    /\ fill \in [Shard -> {NoFill} \cup [seen : SUBSET Write, unread : SUBSET Shard]]
    /\ stored \in [Shard -> SUBSET Write]
    /\ stage \in [Write -> [is : {"new", "quiet", "told"}] \cup [is : {"stored"}, at : Shard]]
    /\ statement \in [Shard -> {"none", "view", "traits", "plans", "all"}]
    /\ sent \subseteq Message
    /\ changes \in 0 .. MaxChanges
    /\ used \in [Shard -> Seq(Query)]

Empty == [k \in {} |-> 0]

Init ==
    /\ view = [s \in Shard |-> 0]
    /\ traits = [s \in Shard |-> FALSE]
    /\ lru_list = [s \in Shard |-> <<>>]
    /\ cache_map = [s \in Shard |-> Empty]
    /\ closure = [s \in Shard |-> NoClosure]
    /\ fill = [s \in Shard |-> NoFill]
    /\ stored = [s \in Shard |-> {}]
    /\ stage = [w \in Write |-> [is |-> "new"]]
    /\ statement = [s \in Shard |-> "none"]
    /\ sent = {}
    /\ changes = 0
    /\ used = [s \in Shard |-> <<>>]

Stored == UNION {stored[s] : s \in Shard}

-----------------------------------------------------------------------------
(* The plan cache: GqlQueryCache *)

Place(list, k) == CHOOSE i \in 1 .. Len(list) : list[i] = k

\* lru_list.erase, for a query that is in the list, and lru_list.push_front.
ToFront(list, k) == <<k>> \o (IF k \in Range(list) THEN RemoveAt(list, Place(list, k)) ELSE list)

Get_InPlace(s, k) == UNCHANGED <<lru_list, cache_map>>

Get(s, k) ==
    /\ lru_list' = [lru_list EXCEPT ![s] = ToFront(@, k)]
    /\ UNCHANGED cache_map

\* At the capacity the last of the list leaves both the list and the map.
Put(s, k, plan) ==
    LET full == Cardinality(DOMAIN cache_map[s]) >= capacity
        list == IF full THEN Front(lru_list[s]) ELSE lru_list[s]
        kept == IF full THEN DOMAIN cache_map[s] \ {Last(lru_list[s])} ELSE DOMAIN cache_map[s]
    IN  /\ lru_list' = [lru_list EXCEPT ![s] = <<k>> \o list]
        /\ cache_map' = [cache_map EXCEPT ![s] =
              [x \in kept \cup {k} |-> IF x = k THEN plan ELSE @[x]]]

-----------------------------------------------------------------------------
(* Queries: GqlExecutor::execute(graph, string) up to the first wait *)

\* The optimizer sets the lookup flag of a match when its type has the traits, and expands views.
Optimized(s) == [view |-> view[s], traits |-> traits[s]]

\* PathTraverser, equivalence_partition_lookup and transitive_reachability_lookup: a closure that
\* is not cached is computed. One computation at a time per shard is a bound of the model.
LookUp(s, plan) ==
    IF plan.traits /\ closure[s] = NoClosure /\ fill[s] = NoFill
    THEN fill' = [fill EXCEPT ![s] = [seen |-> {}, unread |-> Shard]]
    ELSE UNCHANGED fill

Execute(s, k) ==
    /\ \/ /\ k \in DOMAIN cache_map[s]
          /\ Get(s, k)
          /\ LookUp(s, cache_map[s][k])
       \/ /\ k \notin DOMAIN cache_map[s]
          /\ Put(s, k, Optimized(s))
          /\ LookUp(s, Optimized(s))
    /\ used' = [used EXCEPT ![s] = ToFront(@, k)]
    /\ UNCHANGED <<view, traits, closure, stored, stage, statement, sent, changes>>

\* ReachablePeered and WeaklyConnectedComponentsPeered gather the relationships of all shards.
FillRead(s, d) ==
    /\ fill[s] # NoFill
    /\ d \in fill[s].unread
    /\ fill' = [fill EXCEPT ![s] = [seen |-> @.seen \cup stored[d], unread |-> @.unread \ {d}]]
    /\ UNCHANGED <<view, traits, lru_list, cache_map, closure, stored, stage, statement, sent, changes, used>>

\* The continuation caches what was computed, whatever has been forgotten in the meantime.
FillSet(s) ==
    /\ fill[s] # NoFill
    /\ fill[s].unread = {}
    /\ closure' = [closure EXCEPT ![s] = [seen |-> fill[s].seen, missed |-> Stored \ fill[s].seen]]
    /\ fill' = [fill EXCEPT ![s] = NoFill]
    /\ UNCHANGED <<view, traits, lru_list, cache_map, stored, stage, statement, sent, changes, used>>

-----------------------------------------------------------------------------
(* Writes: the end of RelationshipAdd...Peered and RelationshipRemovePeered *)

\* The handler on shard d changes the relationships; shard c runs the operation.
RelationshipStore(w, c, d) ==
    /\ stage[w].is = "new"
    /\ stage' = [stage EXCEPT ![w] = [is |-> "stored", at |-> c]]
    /\ stored' = [stored EXCEPT ![d] = @ \cup {w}]
    /\ UNCHANGED <<view, traits, lru_list, cache_map, closure, fill, statement, sent, changes, used>>

Told_Here(c) == {c}

\* invoke_on_all: those that have to hear of the write.
Told(c) == Shard

\* InvalidateAlgebraicCachesPeered, which asks the traits of the shard it runs on.
InvalidateAlgebraicCachesPeered(w) ==
    /\ stage[w].is = "stored"
    /\ LET c == stage[w].at IN
          IF traits[c]
          THEN /\ stage' = [stage EXCEPT ![w] = [is |-> "told"]]
               /\ closure' = [closure EXCEPT ![c] = NoClosure]
               /\ sent' = sent \cup [op : {"invalidate"}, write : {w}, to : Told(c) \ {c}]
          ELSE /\ stage' = [stage EXCEPT ![w] = [is |-> "quiet"]]
               /\ UNCHANGED <<closure, sent>>
    /\ UNCHANGED <<view, traits, lru_list, cache_map, fill, stored, statement, changes, used>>

-----------------------------------------------------------------------------
(* Changing the catalog and clearing the caches on all shards *)

ClearPlans(s) ==
    /\ lru_list' = [lru_list EXCEPT ![s] = <<>>]
    /\ cache_map' = [cache_map EXCEPT ![s] = Empty]
    /\ used' = [used EXCEPT ![s] = <<>>]

\* GqlCatalog::execute_schema_op, CREATE_VIEW and DROP_VIEW.
CreateView(c) ==
    /\ statement[c] = "none"
    /\ changes < MaxChanges
    /\ changes' = changes + 1
    /\ view' = [view EXCEPT ![c] = changes + 1]
    /\ sent' = sent \cup [op : {"view"}, by : {c}, to : Shard \ {c}, value : {changes + 1}]
    /\ statement' = [statement EXCEPT ![c] = "view"]
    /\ UNCHANGED <<traits, lru_list, cache_map, closure, fill, stored, stage, used>>

\* GqlExecutor::execute, once the schema operation has been answered by all shards.
ClearPlansPeered(c) ==
    /\ statement[c] = "view"
    /\ ~\E m \in sent : m.op = "view" /\ m.by = c
    /\ ClearPlans(c)
    /\ sent' = sent \cup [op : {"plans"}, by : {c}, to : Shard \ {c}]
    /\ statement' = [statement EXCEPT ![c] = "plans"]
    /\ UNCHANGED <<view, traits, closure, fill, stored, stage, changes>>

\* Schema's apply_algebra_traits: on every shard the traits, the plans and the closures at once.
ApplyTraits(c, on) ==
    /\ statement[c] = "none"
    /\ changes < MaxChanges
    /\ changes' = changes + 1
    /\ traits' = [traits EXCEPT ![c] = on]
    /\ ClearPlans(c)
    /\ closure' = [closure EXCEPT ![c] = NoClosure]
    /\ sent' = sent \cup [op : {"traits"}, by : {c}, to : Shard \ {c}, value : {on}]
    /\ statement' = [statement EXCEPT ![c] = "traits"]
    /\ UNCHANGED <<view, fill, stored, stage>>

\* The statement that clears the caches.
ClearCache(c) ==
    /\ statement[c] = "none"
    /\ changes < MaxChanges
    /\ changes' = changes + 1
    /\ ClearPlans(c)
    /\ closure' = [closure EXCEPT ![c] = NoClosure]
    /\ sent' = sent \cup [op : {"all"}, by : {c}, to : Shard \ {c}]
    /\ statement' = [statement EXCEPT ![c] = "all"]
    /\ UNCHANGED <<view, traits, fill, stored, stage>>

Answer(c) ==
    /\ statement[c] \in {"traits", "plans", "all"}
    /\ ~\E m \in sent : m.op # "invalidate" /\ m.by = c
    /\ statement' = [statement EXCEPT ![c] = "none"]
    /\ UNCHANGED <<view, traits, lru_list, cache_map, closure, fill, stored, stage, sent, changes, used>>

-----------------------------------------------------------------------------
(* Handling a message *)

Invalidate(m) ==
    /\ m.op = "invalidate"
    /\ closure' = [closure EXCEPT ![m.to] = NoClosure]
    /\ UNCHANGED <<view, traits, lru_list, cache_map, used>>

SetView(m) ==
    /\ m.op = "view"
    /\ view' = [view EXCEPT ![m.to] = m.value]
    /\ UNCHANGED <<traits, lru_list, cache_map, closure, used>>

ForgetPlans(m) ==
    /\ m.op = "plans"
    /\ ClearPlans(m.to)
    /\ UNCHANGED <<view, traits, closure>>

ForgetAll(m) ==
    /\ m.op = "all"
    /\ ClearPlans(m.to)
    /\ closure' = [closure EXCEPT ![m.to] = NoClosure]
    /\ UNCHANGED <<view, traits>>

SetTraits_KeepsPlans(m) ==
    /\ m.op = "traits"
    /\ traits' = [traits EXCEPT ![m.to] = m.value]
    /\ closure' = [closure EXCEPT ![m.to] = NoClosure]
    /\ UNCHANGED <<view, lru_list, cache_map, used>>

SetTraits(m) ==
    /\ m.op = "traits"
    /\ traits' = [traits EXCEPT ![m.to] = m.value]
    /\ ClearPlans(m.to)
    /\ closure' = [closure EXCEPT ![m.to] = NoClosure]
    /\ UNCHANGED view

Deliver(m) ==
    /\ m \in sent
    /\ Invalidate(m) \/ SetView(m) \/ ForgetPlans(m) \/ ForgetAll(m) \/ SetTraits(m)
    /\ sent' = sent \ {m}
    /\ UNCHANGED <<fill, stored, stage, statement, changes>>

Continue ==
    \/ \E s, d \in Shard : FillRead(s, d)
    \/ \E s \in Shard : FillSet(s)
    \/ \E w \in Write : InvalidateAlgebraicCachesPeered(w)
    \/ \E c \in Caller : ClearPlansPeered(c) \/ Answer(c)
    \/ \E m \in sent : Deliver(m)

Next ==
    \/ \E s \in Asker, k \in Query : Execute(s, k)
    \/ \E w \in Write, c, d \in Shard : RelationshipStore(w, c, d)
    \/ \E c \in Caller : CreateView(c) \/ ClearCache(c) \/ \E on \in BOOLEAN : ApplyTraits(c, on)
    \/ Continue

Spec == Init /\ [][Next]_vars

-----------------------------------------------------------------------------
(* Properties *)

\* The list and the map of a plan cache name the same queries, and these are the ones used last
\* since the cache was cleared, in that order, as many as fit.
RecentPlansKept ==
    \A s \in Shard :
        /\ lru_list[s] = SubSeq(used[s], 1, IF Len(used[s]) < capacity THEN Len(used[s]) ELSE capacity)
        /\ DOMAIN cache_map[s] = Range(lru_list[s])

\* A clear of the plans of shard s is on its way, or will be once the catalogs have changed.
ClearOwed(s) ==
    \/ \E m \in sent : m.to = s /\ m.op = "plans"
    \/ \E c \in Caller : statement[c] = "view"

\* A plan made under another catalog than its shard has now does not stay: with other traits it is
\* never there, and with another view a clear of the plans is still to come to that shard.
PlansFresh ==
    \A s \in Shard : \A k \in DOMAIN cache_map[s] :
        /\ cache_map[s][k].traits = traits[s]
        /\ cache_map[s][k].view # view[s] => ClearOwed(s)

\* A cached closure lacks a write only as long as word of that write has not reached the shard,
\* with two exceptions that stay: the closure was being computed when the write was made, or
\* the shard that ran the write had not heard of the traits.
ClosuresFresh ==
    \A s \in Shard, w \in Write :
        closure[s] # NoClosure /\ w \in Stored \ closure[s].seen =>
            \/ stage[w].is = "stored"
            \/ [op |-> "invalidate", write |-> w, to |-> s] \in sent
            \/ w \in closure[s].missed
            \/ stage[w].is = "quiet"

\* When all statements are done, the shards have the same view. Two shards that change it at the
\* same time can leave different ones.
ViewsAgree ==
    sent = {} /\ (\A c \in Caller : statement[c] = "none") => \A s, d \in Shard : view[s] = view[d]

=============================================================================
