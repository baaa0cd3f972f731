# RageDB in TLA+

RageDB is an in-memory property graph split over the cores of a machine. Each core runs one
Seastar reactor with one `Shard` object; a shard's data is touched by its own core only, and
everything that spans shards is a chain of messages (`container().invoke_on`) and futures. These
modules model the part of the program that keeps the graph (how a shard stores nodes,
relationships and their properties in columns, how an operation that spans two shards proceeds, how the
shards agree on type ids, how indexes and caches follow changes) and the part that answers from it
(listings, batch reads, path searches, the query optimizer). Paths below are relative to `src/src/` unless they begin with another directory.

## The parts of the system

| Component | State | Operations | What makes it correct | Modelled by |
|---|---|---|---|---|
| Node columns of a shard (`graph/NodeTypes.cpp`, `graph/shard/Node.cpp`) | per type: hash map key to id, vector of keys, bitmap of freed slots, link vectors | add, remove by id or key, list pages, count, delete the type | map, vector and bitmap agree; a valid id leads to a node; ids are stable | `NodeTypes`, `NodeLifecycle` |
| Relationship columns of a shard (`graph/RelationshipTypes.cpp`, `graph/shard/Relationship.cpp`) | per type: starting and ending ids, freed slots | add, free, validity | freed slots are cleared and inside the vectors; numbers of new slots are free | `RelationshipTypes` |
| Sharded graph operations (`graph/peered/Node.cpp`, `graph/peered/Relationship.cpp`, `graph/shard/Helpers.cpp`) | both of the above on every shard, the links of nodes, and what the lambdas of operations in progress have captured | add/remove node, add/remove relationship | the two records of a relationship agree, ends are nodes, clients see a graph | `GraphShards`, `PropertyGraph` |
| Type registry (`graph/peered/Types.cpp`, `graph/shard/Types.cpp`) | per shard: name to id, id to name, a lock | insert, delete | an id means the same type on every shard | `TypeRegistry` |
| Property types (`graph/Properties.cpp`) | per type: property name to type and column | set, add, delete | what was written under an earlier type is not read under a later one | `PropertyColumns`, `NodeProperties`, `RelationshipProperties` |
| Property columns, find and filter (`graph/Properties.cpp`, `graph/node/*.cpp`, `graph/relationship/*.cpp`) | typed vectors of values, bitmaps of deleted values | set, get, find, count, filter, read many at once | a read is the last write; a search is what a scan of the reads gives | `PropertyColumns`, `PropertyFinds`, `RelationshipFinds`, `BatchReads`, `RelationshipReads` |
| Property and text indexes (`graph/shard/Index.cpp`, `graph/PropertyIndex.h`) | per shard: value to ids | create, back-fill, update, drop, look up | agrees with the columns once quiet | `PropertyIndexes` (text indexes left out) |
| Paging over the shards (`graph/peered/All.cpp`) | the counts and parts a listing has gathered | list nodes and relationships | a page is the part of the list that was asked for | `Listings`, `Paging`, `RelationshipPaging` |
| Semantic caches (`graph/cache`, `gql/executor/PathTraverser.cpp`) | per shard: relationship type to closure | fill, invalidate | no closure older than the last change | `Caches` |
| Query cache (`gql/GqlQueryCache.cpp`) | per shard: map and LRU list | get, put, clear | list and map name the same queries; no plan outlives a schema change | `Caches` |
| GQL optimizer (`gql/GqlOptimizer.cpp`, `gql/optimizer`) | the statement being rewritten | some thirty passes | no pass changes the answers; what is short-circuited has none | `GqlQueries`, `GqlPruners`, `GqlRewriters`, `GqlPlans`, `Optimizer` |
| GQL executor (`gql/GqlExecutor.cpp`, `gql/executor`) | rows | match, filter, group, project | agrees with the statement | `GqlMeaning` (reading statements; joins of cyclic patterns and writes left out) |
| GQL lexer, parser, type checker (`gql`) | | a text to a tree | | left to its tests |
| Database lifecycle (`main/Databases.cpp`) | map of databases | add, clear, remove | no request runs on a stopped graph | left out, see below |
| Traversals and algorithms (`graph/peered/ShortestPath.cpp`, `KHop.cpp`, `graph/algorithms`) | queues, parents and costs of a search | walks over links, hop by hop | agrees with the definition | `Searches`, `Algorithms` (centrality, clustering, similarity left out) |
| Bulk and CSV loading (`graph/peered/Bulk.cpp`, `LoadCSV.cpp`) | none of their own | batches of adds | as adds | left out |
| HTTP handlers, Lua sandbox, restore, Python layer, web page | | | | left out: I/O, formatting, clients |

How they interact: an HTTP handler, a Lua script or a GQL statement runs on some shard and calls a
`...Peered` method of the local `Shard`. That method looks up type ids in the local registry,
works out from a key or an id which shard owns the data, and sends handlers there. A handler runs
to completion; between two handlers of one operation any other operation may run on any shard. The
data of an operation in progress lives in the captures of its lambdas, and is not revised when the
graph changes under it.

What is hard: these interleavings; slots that are recycled while an id is under way; columns that
are kept consistent by hand; unsigned counts; broadcasts from different senders that arrive in
different orders; broadcasts that some shards refuse. `PROJECT.json` lists each at its line with
the properties that watch it.

## Modules

`NodeTypes` describes the columns of one node type on one shard as a record, and the operations as
operators from record to record: `NextSlot`, `NodeAdd`, `NodeRemove`, `ValidNodeId`, `getCount`,
`getIds`. `getCount` is unsigned (`Word` is 2^64, or a small stand-in for it). An id is its slot:
inside one type and one shard the packed id carries nothing else.

`NodeLifecycle` drives them: `NodeAddEmpty`, `NodeAddMany`, `NodeRemoveById`, `NodeRemoveByKey`,
`DeleteNodeType`, in any order with any arguments. `NodeTypes_lemmas` and `NodeLifecycle_proofs`
hold the proofs.

`RelationshipTypes` does for relationships what `NodeTypes` does for nodes. The two end vectors are
one vector of pairs, since every caller writes both.

`GraphShards` composes the two on several shards and adds the links. One action is one handler. The
variable `op` holds, per client, what the lambdas have captured. The operations are:

- add a node: `AddNode`, a single handler;
- add a relationship: `RelationshipAddSameShard` in one handler; across shards the ending node is
  checked (`RelationshipAddById`, `RelationshipAddByKey`, `RelationshipAddNewType` and
  `CheckNewType`), then `RelationshipAddToOutgoing`, then `RelationshipAddToIncoming`;
- remove a relationship: `RemoveRelationship`, `RelationshipRemoveGetIncoming`,
  `RelationshipRemoveIncoming`;
- remove a node: `RemoveNodeByKey` or `RemoveNodeById`, `CheckNode`, `NodeRemoveGetIncoming`,
  `NodeRemoveDeleteIncoming` per far neighbour, `NodeRemoveGetOutgoing`, `NodeRemoveDeleteOutgoing`
  per far neighbour, `RemoveNode`. A neighbour's slot that never existed, which the inverted check of
  `CheckNewType` lets a link name, makes the neighbour's shard throw, and the removal stops (`Told`, `Refused`).

`PropertyGraph` is the abstract specification: a set of keys and a set of edges, in which an edge
never outlives its ends. `GraphShards` maps to it by taking the keys its shards hold and the
relationships its owning shards hold (`Vertices`, `Edges`, `Graph`).

`TypeRegistry` holds every shard's two tables of type names and ids, and messages between shards in
sending order per pair of shards. The constant `HoldsLock` tells node types from relationship
types, which release the lock before the broadcast; `Inserters` says which shards draw ids. A request
for a name the shard's own table has is answered at once (`TypeFoundPeered`), the broadcast of the request
that drew the id being under way or not. `AnsweredMeansKnown` tells the two answers apart: after the first
every shard knows the type; after the second a shard may not know it yet, but the broadcast is in the channel
from the shard that answered, so that whatever this one sends arrives after it.

`TypeRegistry!Deletes` says which types clients delete: none, emptied ones, or any.

`Listings` lists nodes or relationships over the shards, which the code does with two copies of
the same functions: `Ask`, `Count` per shard, `RequestParts`, `ListPart` per request, `Answer`. `Plan` is
the arithmetic between the counts and the requests, in `uint64_t`. `asked`, `dense` and
`changed` are history variables of the listing, for the properties only. What differs between the copies are
its operator constants: `Paging` instantiates it with `getCount` and `getIds` of node columns and adds
`AddNode` and `RemoveNode` in between, `RelationshipPaging` with those of relationship columns, and
`MCPaging` lets a behaviour be about one or the other.

`PropertyColumns` is one property of one type on one shard: the kind it was declared with, the vector of
values and the bitmap of deleted ones, and every writer of them, typed and by JSON, with what each JSON
value does to a column of each kind. Values are even numbers with 0 for the default a vector grows
with; an odd number stands for a list with the item twice. `PropertyFinds` holds the searches over a column
(`findCount`, `findIds`, `findNodes`, `filterCount`, `filterIds`, `filterNodes`, `filterNodeProperties`,
one operator per kind where the code has one function per kind) and `RelationshipFinds` their copies
for relationships, which count freed slots otherwise and compare doubles otherwise. `BatchReads` and
`RelationshipReads` read many ids at once, grouped by shard.

`NodeProperties` and `RelationshipProperties` drive these from the handlers that write properties:
adding and removing the node or the relationship below, setting, deleting, resetting, and inserting and deleting
the type of the property. `written` is the history of what a client expects; for a list given as JSON that
is what the code takes from the JSON. Their properties are about reads, batch reads, finds, counts and filters
after any such history. `MCNodeProperties` puts the two together.

`PropertyIndexes` has nodes with one property on several shards, the index of that property, whose parts
live on the shards the values hash to, and the messages between the shards in sending order. An action is
one handler: the writes of `shard/Node.cpp` with the entries they send (`Reindexed`), and the three
steps of creating an index (create everywhere, `FillSlots` on each shard, answer) and of deleting it.

`Caches` has the plan cache of each shard (`get`, `put`, `clear`), the views and traits a plan was made
from, the closure of one relationship type on each shard, filled by a read that takes several steps,
and the broadcasts that clear both. Schema statements and writes of relationships run on any shard.

`Searches` has the searches between two nodes (`ShortestPathPeered`, `ShortestWeightedPathPeered`, its
all-paths and k-paths variants, the GQL path selectors), the k-hop neighbourhoods, and the graph analyses that read all edges
first, which are relationships or nodes that stand for them (`GetGraphEdges`); one step is the expansion of a level or of a queue entry, and a relationship may appear,
disappear or change its cost between two steps. Costs are charged as the code reads them: a cost function prices each
relationship by itself; a property is read in one batch per shard and node, and a shard that finds a relationship of the batch gone, or
beyond the end of its column, prices none of it, so that all of it costs 1 (`Legible`, `Charge`; `filled` is how far the column of each
shard reaches). Parents are followed back for `TraceLimit` relationships, 1000 in the code, and what lies beyond is cut
out of the path behind its start (`Cut`). `Algorithms` holds what is computed on the edges once
they are read: components by union-find, distances, reachability, diameter.

`GqlQueries` is the statement tree of `GqlAst.h` with what the passes read off it. `GqlPruners`,
`GqlRewriters` and `GqlPlans` hold the optimizer's passes as operators from statement to statement.
`GqlMeaning` is what the executor answers to a statement, the plans noted by the passes included.
`Optimizer` runs the passes in the order of `GqlOptimizer::optimize`, one action per pass, and compares
the answers before and after on all the graphs of a family: a catalog with the small graphs that keep to
what it declares.

Abstractions: `GraphShards` leaves property values out; `PropertyColumns` and the modules over it have one
property at a time. Dates are doubles in the columns and have no kind of their own. Links are sets where the code has vectors, sorted where order matters. One node type and one
relationship type exist in `GraphShards`. Where the code's behaviour is undefined or the process
aborts (a missing group dereferenced in `RelationshipRemoveIncoming`, a wait outside of a Seastar
thread, an index past a vector's end) the model goes on with nothing done, or not at all. In the runs,
`MaxSlots`, `MaxRels` and `MaxTypes` bound the vectors: an add that would grow them further is not taken.

## Runs

| Run | Module | Properties | What it shows |
|---|---|---|---|
| NodeLifecycle | MCNodeLifecycle | TypeOK, SlotIntegrity, ValidNodeHasKey, HiddenBoundedByDeleted, PagesListEveryValidNode, NodeIdStable | Whatever is added, removed, re-added and whatever type deletion slips in, one shard's node columns stay consistent, an id called valid leads to a node, paging lists each valid node once and a key keeps its id. |
| GraphSequential | MCGraphShards | TypeOK, OwnerSide, EndsAreNodes, IncomingSide, ImplementsPropertyGraph | One operation at a time on two shards, nodes with links to another shard excepted from removal: both directions of the links, the relationship columns and the nodes agree across the shards, and clients see a property graph. |
| GraphAdds | MCGraphShards | MirrorIsOwed, EventuallyMirrored | Three interleaved clients adding only: every relationship not yet known to its ending node has an operation on its way there, and under fair scheduling it arrives. |
| GraphAnything | MCGraphShards | ColumnsAgree, RelStoresAgree | Everything interleaved with everything, far removals and a new type included: the node columns and the relationship columns of each shard stay consistent in themselves. |
| GraphFreesOthers (violation) | MCGraphShards | RemovalFreesOnlyItsOwn | Removing a node with a relationship arriving from another shard frees an unrelated relationship of its own shard. |
| TypeRegistry | MCTypeRegistry | NamesMatchPositions, TypeIdsAreGlobal, AnsweredMeansKnown, DeletedOnAllShards, EventuallyAgreed | With every type inserted through shard 0, and deletions only of types that have been emptied, ids are the same everywhere however broadcasts and stores overlap, answers are true on all shards, and the shards come to agree on every type. |
| Paging | MCPaging | EveryFirstPageExact, EveryPageOfOneShardExact, NothingListedIsMissed | Listing nodes, and listing relationships, over two shards while they come and go: first pages are what was asked for, so are pages inside the first shard, and additions during a listing never push anything out of a page that is long enough. |
| NodeProperties | MCNodeProperties | EveryReadIsTheLastWrite, EveryBatchReadAgrees, EverySearchExact, EveryCountExact, EveryFilterExact | One property of each kind over node slots and relationship slots that are freed and reused, written by typed calls and by JSON, its type deleted and inserted again: a read is the last write, batch reads agree with single ones, and finds, counts and filters are what a scan of the reads gives. |
| PropertyIndexes | MCPropertyIndexes | NothingMissing, NothingStale, SearchesAgree | An index created, back-filled and dropped while nodes change on two shards and the messages that keep it up are under way: every live value is in the index or on its way there, every entry that is out of date has its removal on the way, and a search through a filled index finds what a scan finds. |
| Caches | MCCaches | RecentPlansKept, PlansFresh, ClosuresFresh | Statements planned, cached and run on two shards while schema statements and relationships change what the plans and the closures depend on: the plan cache keeps the plans used last, and neither a plan nor a closure outlives an invalidation that was answered. |
| Searches | MCSearches | BestPathExact, EveryPathFound, TracesBack, EverySearchEnds | The path searches, neighbourhoods and edge lists hop by hop, undisturbed and with a relationship that appears, disappears or changes its cost between two hops, on columns that reach too far or not far enough: undisturbed answers are exact at the costs the search can read and up to the trace limit, the paths selected, the nodes reached and the edges read are those of the definition, every answer traces back to links that were read, and every search ends. |
| Optimizer | MCOptimizer | AnswersKept, ShortCircuitSound | The passes of the optimizer in their order, on 65 statements that each make a pass change something and on all the small graphs that keep to the catalog the pass reads: no pass changes the answers, and what is short-circuited has no rows. |

The passing runs cover the interesting cases within their bounds: slots are freed and reused in every
order, counts wrap around, two operations meet on one slot, a third one waits. `GraphAnything` uses one
slot per shard because every conflict between two operations is over one slot; `GraphSequential` uses two, and one client, to have several neighbours and a recycled slot
beside one in use. `GraphAnything` was also run once with two relationships per shard (6.4 million
states). `Paging` has three nodes of one type on the first shard, so that a page can begin
and end inside it, and one on the second; as many relationships, with one of a second type besides, so that the
loop over types is left early; and at most one freed slot at a time.
`Word` is small, so that the unsigned differences wrap around within reach. Deadlock
checking is off where the system may stop: when no key, slot or type is left to use, when the writes a
run allows are used up, when a statement is optimized.

`NodeProperties` has three keys and three slots, so that there is a slot below, at and above the one
written last, two values, of which one is the default, and all eight kinds of columns; batch reads ask two shards
in the same state. `PropertyIndexes` has two shards with one value at home on each, two nodes on the
first shard and one on the second, two writes (`MaxWrites`) and three index statements (`MaxTasks`), all on
shard 0: enough for a node to change twice while a fill is under way, and for an index to be created,
deleted and created again, so that messages for the first one reach the second. It was also run once with three writes
(530,399 states); the proofs leave the bounds open. `Caches` has two shards, three queries for room for two, two writes and two
schema statements (`MaxChanges`); closures are asked for on shard 1, so that the invalidation comes from the
other. `Searches` has five nodes on two shards, a diamond with a bridge, a way back, a loop and a way into the diamond; costs 0, 3 and none
at all, columns that reach beyond a shard's last relationship or end before it, a trace limit of 3, which the longest way exceeds, and one
relationship that changes once. Each kind of request is asked on the graphs that tell its answers apart (`Suits`). `Optimizer` has 65 statements, each of which makes some
pass change something, over nine families: people with ages and views, towns whose postcode determines their size
with one home for each person, a ring in which everybody has one friend, a taxonomy, and one
relationship type for each algebraic trait on all graphs of three nodes. Answers are compared
as bags, for the passes of `SetSemantics` as sets, and with a LIMIT by number and inclusion.

Some runs narrow what clients do. Two say so in a constant: `GraphSequential` leaves out the removal of
nodes with neighbours on another shard (`FarRemovals`), and `TypeRegistry` the deletion of types
some shard still has nodes of (`Deletes`). Which properties hold where is part of the result.
`ColumnsAgree` and `RelStoresAgree` survive everything. `OwnerSide` and `EndsAreNodes`, and with them
the refinement, survive any interleaving of adds and relationship removals (proved below), but not node
removals across shards. `IncomingSide` holds when operations do not overlap. First pages
of one type are exact; later ones only inside the first shard, since the limit handed on
counts skipped nodes too. `FindExact`, `CountExact` and `FilterExact` speak of properties whose type is
older than the nodes (`late = {}`), and filters of texts and lists are compared with the counts only where both
use the same comparison (`ComparedAlike`). `PropertyIndexes` has one index statement at a time (`task`), in the run on one shard only (`Caller`).
The statements of `Optimizer` are those on which every pass should and does keep the answers; the
statements on which one does not are listed below.

Outside of these limits the code does not keep the following. They have definitions in the
modules but no run in the table; each counterexample appears when the property is added to the
configuration named.

| Property | Add it to | What happens |
|---|---|---|
| `LiveNodesAreValid` | `NodeLifecycle.cfg` | `ValidNodeId` compares a slot with the size of a map that shrinks on removal, so nodes in the last slots are refused after a removal |
| `TypeDeletedOnlyWhenEmpty` | `NodeLifecycle.cfg` | the count that guards the deletion wraps around to 0 while nodes are held |
| `NoLinkToRemovedNode` | `GraphFreesOthers.cfg`, with both neighbours on the other shard | one neighbour per shard is told of a removal, the others keep links to the freed slot |
| `BothNodesValidWhenLinked` | `GraphAnything.cfg` | an end is removed between the two halves of an add |
| `InvalidEndRefused` | `GraphAnything.cfg` | `CheckNewType` reads the validity of the ending node inverted |
| `KeyRemovesItsOwnNode` | `GraphAnything.cfg` with three keys | the slot a key led to is recycled for another key before the last handler of the removal |
| `EndsAreNodes` | `GraphAnything.cfg` | as a consequence of an end removed during an add |
| `OwnerSide` | `GraphFreesOthers.cfg` | the links of the relationship that was freed by mistake stay |
| `StoredTypeIsKnown` | `TypeRegistry.cfg` | a store arrives on a shard before the type does |
| `NamesMatchPositions`, `DeletedOnAllShards` | `TypeRegistry.cfg` with `Deletes = "any"` | each shard decides by its own nodes whether a type goes |
| `TypeIdsAreGlobal` | `TypeRegistry.cfg` with any shard among the `Inserters` | two shards draw the same id for two names |
| `PageWithinLimit` (`Listings`) | `Paging.cfg` | the break leaves the loop over types only, and the later shards are asked with an outdated total |
| `StaleNeighborsLeftOut` | `NodeProperties.cfg` | a removed neighbour is replaced by another node of the answer, or read beyond its end |
| `FilterNodesExact` | `NodeProperties.cfg` | the filters that return nodes keep those whose value was deleted |
| `FiltersCompareAsCounts` | `NodeProperties.cfg` | filters compare texts and lists in another way than counts and finds |
| `R!LinkReadsInBounds` | `NodeProperties.cfg`, named in `MCNodeProperties` | a batch of links is not sorted by relationship; when its last id is in the vector the others are read unchecked |
| `R!CountNotNullExact` | the same | the count of relationships with a value counts freed slots |
| `ViewsAgree` | `Caches.cfg` | two CREATE VIEW of one name at the same time leave different views on different shards |

`GroupIsThere` (`GraphShards`), `SlotAccounting` (`NodeLifecycle`) and `FirstPagePrefix` (`Listings`) hold in the
runs they belong to and are left out of the table above, since others imply them or say more.

What follows was seen while the code was translated. The models either contain it and state their
properties around it, as said above, or leave the situation out.

Properties and batch reads: a node older than the type of a property reads as the default value once a
later node's value has grown the vector (`ReadsWhatWasWritten` makes the exception). A JSON string for a
column of doubles leaves the old value in place while other JSON of the wrong kind deletes it. JSON lists of
texts are stored empty, JSON lists of non-negative integers hold each item twice, JSON lists of doubles
throw; a request refused that way leaves the index entries of the values it did write out of date. A batch
whose last id lies beyond the vector reads no value at all. An unknown type name makes the
property's name unusable until it is deleted. `getProperty` of a list of integers asks for the size of another
map's vector (`Properties.cpp:977`): read by itself the property is never there, while `getProperties` and the batches give
it; `ReadsWhatWasWritten` and `BatchReadsAgree` state both. The filters of lists of integers, doubles and texts
ask whether the value is a list of booleans (`node/Filter.cpp:564`, `584`, `604` and their copies): with a value of the
column's own kind they keep nothing, as `FilterExact` states; with a list of booleans `get` throws. Counts and finds
have no such test. A column of doubles counted with an integer gives 0 where
the find converts it; relationship filters of doubles refuse integers. `filterCount` for nulls tests
external ids. `findNotNullIds` stops at the size of the map, `findIntegerIds` returns one id for a limit of 0.
Sorted filters call `nth_element` beyond the end of short lists; `filterDoubleNodeProperties` sorts other ids than those it returns.

Indexes: two shards that create one index at the same time both fail and leave an index that is
never filled; a node hidden by `ValidNodeId` is not back-filled; a value of a key whose integer and double
forms are written during the fill is entered twice; an entry on its way to another shard when the index is
deleted is handled by the next index of the property, if that has been created by then, and stays there although
the value has changed or is entered once more (`leftover`: the shards that send are not asked to wait); setting a node `ValidNodeId` has hidden from the
fill to the value it has does not enter it either (`missed`); a search may use a part before it is filled; an index
answers nothing for IS NULL; a range search reads ids of other shards in its own columns (`shard/Find.cpp:85`).

Caches: a closure stored after its invalidation has passed stays (`ClosuresFresh` speaks of those stored before); a write
coordinated by a shard that has not heard of the traits yet tells nobody.

Searches: `ShortestPathsPeered` without a relationship type finds nothing; the weight reported with all cheapest paths
is that of an overtaken entry; the k cheapest paths compare roots by nodes only and miss parallel
relationships. `EveryPathFound` leaves these requests out by name (`typed`, `Parallel`). A relationship
removed between its link and its cost costs 1, and read by property it makes all of its shard cost 1 with it; the same holds of a node one of whose
relationships is newer than the last cost its shard has stored: the same relationship may be priced differently when
it is reached from its two ends (`ShortestPath.cpp:237` with `shard/Relationships.cpp:89`). A path of more than 1000 relationships
is answered without its middle, its weight being that of the whole (`ShortestPath.cpp:280`, `411`, `698`): `CheapestExact` says so, and `EveryPathFound`
speaks of the k cheapest paths where no path is that long. Under BOTH a loop is in both lists of its node, so that `ShortestPathsPeered` returns
a trail over it twice (`shard/NodeLinks.cpp:142`); `Eligible` counts both. When the relationship behind an id goes before the edges are read,
`GetGraphEdges` has an edge from node 0 to node 0 (`EdgesOfIds`).
Simplified in `Searches`: costs are one property of one type; a relationship older than the property reads as the default value
where the model has none; costs are integers, so that the tie of `AllCheapestWeightedPathsPeered` (less than 1e-9 apart) is equality; each search
that `KCheapestWeightedPathsPeered` starts is one step; `ShortestPathsPeered` reads a node once for each path that ends there, the model once for
each level; a path that comes back to a node holds an empty `Node` there, since the node has been moved
out of the map by then (`ShortestPath.cpp:580`), and the model keeps the node; edge weights of the analyses are left out.
 `docs/GQL.md:13` speaks of a sharded bidirectional search, which
`ShortestPathsPeered` is not. The coroutines that read neighbours yield between two groups of a node while they hold
iterators into its vector (`shard/Neighbors.cpp:73`); `Searches` reads a node in one step.

Optimizer and executor. Rows are lost or changed, and the statements of the run avoid it, when
- a cardinality limit noted on an edge is kept when the match is turned around (`OptimizerUtils.cpp:622`), is
  applied before the label of the far node is checked, or meets parallel relationships;
- `size((a)-[:R]->())` compared with a number is pushed into the scan as a filter on a degree that has not been
  filled in yet (`GqlOptimizer.cpp:685`; `docs/SEMANTIC_OPTIMIZER.md:218`), or its pattern has a label or
  filter at the far end; degree sums give rows with 0 (`docs/OPTIMIZER.md:91`);
- a contradiction is found inside an OPTIONAL MATCH: all rows go; an aggregate that is short-circuited has no
  row where it should have one with 0;
- a constraint names several properties, or uses `<>`: it forbids on one property alone; taxonomy
  constraints are forbidden statements and are read as hierarchy edges too;
- conditions hold IS NULL, EXISTS, functions or CASE, which the walkers that look for uses of a
  variable do not enter; OR below a negated constraint is dropped when it is not understood;
- a path count has a label or filters at the far end, or no grouping; a triangle is counted by symmetry on graphs with
  loops; counts are factored without any COUNT in the statement;
- matches are dropped as subsumed, merged or joined by views, which changes how often a row comes
  (`docs/SEMANTIC_LAYER.md:385` says so for subsumption), or a view is used twice in one statement;
- a LIMIT is pushed below a filter, a DISTINCT with ORDER BY, the TRAIL test, or to a match that is moved afterwards;
- filters are pushed into optional matches, or lose conditions that name other variables;
- looked-up closures meet conditions on the nodes, patterns that lead back to the start, or repeated pairs;
- two nodes that an antisymmetric loop makes one both state a property: the left one's value is lost
  (`AntisymmetricLoopCollapser.cpp:44`).
Simplified in the passes: `Dependencies` takes for the pair's first variable the left one of the equality, where the code
takes the one whose name is smaller, and of several comparisons of a pair it keeps any one, where the code keeps the last
(conditions are sets). Not among the passes: the rewriting of a COUNT over a k-hop match into its end variable
(`GqlOptimizer.cpp:719`), and what is done for statements with piped rows, WITH, UNION or search matches.

Fairness is assumed for two things only: a continuation whose future is ready is run
(`GraphShards!FairSpec`, the two halves of an add; `Searches!FairSpec`, the next step of a search) and a
message sent is handled (`TypeRegistry!FairSpec`). Both are what a Seastar reactor does while its process
lives. Clients are never assumed to ask for anything, and no other run assumes fairness.

## Proofs

The proofs about the node columns rest on `NodeTypesAssumption` alone: the keys are finite,
the cleared string is not a key, the number of slots is below 2^64.

The inductive invariant is `WellFormed` of `NodeTypes_lemmas`: the types, `SlotsAgree`, and no more
slots than `MaxSlots`. `TypeOK` is not inductive alone because a new slot is numbered by `getCount`,
which is the end of the vectors only while the map has one entry per live slot
(`MapSizeIsLiveSlots`, `Accounting`); `SlotIntegrity` is not inductive alone because the handlers
find the slot and the key to clear through the columns. `NextSlotIsFree` is the core: the
slot `NodeAdd` takes is either the least freed one or the end of the vectors. `NodeAddPreserves` and
`NodeRemovePreserves` state what one operation keeps, for any columns, so that both `NodeLifecycle` and
the sharded graph can use them. `ValidIsLive` explains why comparing with the wrong size is safe in
one direction: the map is never longer than the vectors.

`GraphShards_proofs` lifts this to all shards with operations interleaved handler by handler. Its
invariant `IInv` adds to the node columns: the relationship columns of each shard (`RelColumns`, which
is `RelStoreAgrees` with the types and the bound), the types of the links, and `Carries`: what the
captures of an operation in progress may rely on, such as that the slot of a relationship about to be
removed still lies within its vectors although it may have been freed or recycled meanwhile. `Carries`
is what makes the invariant inductive, and it survives the steps of other clients because no handler
ever shortens a vector (`StoreRelKeeps`, `FreeRelsKeeps`). There is one lemma per handler. Nothing is
assumed of `Ops`, `Addressing` or `FarRemovals`.

Its second half shows what is left when no client removes nodes (`NodesStay`: `removeNode` is not
in `Ops`). A slot that is stored into was not live (`StoreMakesOneLive`), and a relationship whose
slot was freed by somebody else in the meantime has no starting node, so that freeing it once more
changes nothing (`FreedTwiceIsKept`); hence `OwnerSide`. For the other two theorems the relationship type has to
exist from the start as well (`TypedThroughout`), because `CheckNewType` lets invalid ends through.
Their invariant `PInv` adds to `OwnerSide` that keys are held by the shard they hash to
(`KeysAtHome`), that the ending node of an add under way is still a node (`TargetsAreNodes`, kept because
nodes only grow), and `EndsAreNodes`. `StepKinds` sorts the handlers by what they do to nodes and
relationships: add a node, store between two nodes, take a live relationship out, or nothing; these
are `AddVertex`, `AddEdge`, `RemoveEdge` and a stutter of `PropertyGraph`. Both conditions are needed: TLC
refutes the three properties when nodes are removed across shards (see the table above), and
`EndsAreNodes` fails with `CheckNewType`.

It is then about the second half of an add, which is written by another handler on another
shard. Its condition is `AddsOnly`. The invariant `MInv` adds to `PInv` that only adds are under way and
`SecondHalves`: the relationship a second half is about is still there, between the nodes it was given. With
`removeRel` that is false: a relationship can be removed, and its slot given to another, between the two
halves, and TLC refutes `MirrorIsOwed` there.

It then takes removals of nodes in as well, under `Sequential`: one operation at a time, a type that
exists from the start, and no removal of a node that has links to another shard. TLC refutes all of its theorems in
`GraphSequential.cfg` with a second client, and with `FarRemovals` (some by a relationship to no node, on which the
property cannot be evaluated); with a type that is new, all but the one of `OwnerSide`. The invariant `SInv` says that the shards hold a graph (`IsGraph`), that a link without its
counterpart is one the handler to come will write or take (`LinksBack`), that a node with incoming links has its Group
(`GroupsAreThere`, without which `RelationshipRemoveIncoming` would leave the link), and what each handler may
rely on from the one before (`Stands`). The heart is `FreesItsOwn`: the last handler of a removal frees, on its own
shard, the slot each link of the node names, without looking at the shard the link names; with both
directions of the links in agreement (`OutgoingIs`, `IncomingIs`) and no far neighbour these slots are the
node's own relationships, all of them and no others. `LinksToNode` says the same of the counterparts it takes
out of the slots of other nodes. `KeyNamesNode` (two nodes never have one key) then makes the step `RemoveVertex` of `PropertyGraph`.

`PagesListEveryValidNodeHolds`, in `NodeLifecycle_proofs`, is arithmetic on words of 64 bits: a position `p`
is on the page that starts at the multiple of `limit` below it (`OnSomePage`), and on no other
(`OnOnePage`). It assumes `SlotsBelowHalfWord`, that twice the number of slots is at most 2^64, so that the end of a page does
not wrap before it is cut to the end of the vectors; an id has 38 bits for the slot (`shard/Ids.cpp:24`).

`TypeRegistry_proofs` proves the safety properties of the tables of types under `OneInserter`: all
insertions are asked of one shard, and a type is deleted only where it is empty everywhere. Shard 0 is the
inserter when every client goes through it; with two inserters TLC shows two shards drawing the same id.
Its invariant `IInv` follows a request from the shard where it was made to the last answer. The shards a
request waits for and the messages on their way are the same (`ChannelsOK`, `WaitingOK`), and messages that
insert arrive in the order of their ids. While nothing is being deleted, every shard has a first part of the
inserting shard's table (`PrefixOK`), and waits for exactly the insertions it lacks (`InsertionOK`). While a type is being deleted
nothing else is asked, and its position is cleared on the shards that have answered (`DeletionOK`).

`Caches_proofs` assumes nothing but `CachesAssumption` (finite sets, a positive capacity). `RecentPlansKept` compares
the list and the map of a plan cache with a history of the queries asked. The invariant `PlansKept` says that the list is the
beginning of the history and the map has the queries on the list; the work is in where a query is found (`Place`),
what moving it to the front does (`MovedToFront`) and which one falls off the end. For the freshness of plans
`ViewsFirst` is needed: a shard whose change of the view is still on its way has not gone on to clear the
plans, so a clear of the plans finds the view changed. `ClearPlansKeeps`, `FreshPlansStay` and
`FreshClosuresStay` say which steps leave fresh entries fresh; the exceptions `ClosuresFresh` names are not
assumed away but carried as part of what is proved.

`PropertyIndexes_proofs` assumes nothing of the schedule: writes on all shards, index statements and deliveries
interleave freely; its constants satisfy `NodeTypesAssumption`, `PropertyColumnsAssumption`, `PropertyIndexesAssumption` (shard 0 exists,
keys and values have their shard, the keys of a shard fit in its slots) and `NoIndexAssumption` (no index is not an index). None of the three properties is inductive, for
three reasons. The messages of a shard to one part of the index are handled in order and each changes a count, so what is stated
is `Due`, the count once the whole queue is handled; `CountExists` and the lemmas after it say what
appending a message and handling the first one do to it. A write may come before, between or after the
creation of the part it is told to and the fill of its own shard, so `TaskOK` says which shards have their part and
which are filled at each point of a creation or deletion, and `AllSteered` that the orders on their way are one to
each shard still waited for: without it a second order would fill a shard twice. And a shard that has not been filled
must start from nothing: `EntriesOK` says that of a slot the present index has not been told of (`Unheard`)
nothing is on its way and, unless the index is being deleted, nothing is entered, that a value on a filled shard is due at least once, and that no entry is due
but for a value held, and then at most once. `SetRewrites`, `DeleteRewrites`, `ResetRewrites`, `RemoveRewrites` and
`AddRewrites` say of each writing handler that it takes one slot from one value to another; `WritesKeep` shows that telling the index of just
that (a removal for the old value, an insertion for the new one, in this order) keeps the invariant, so that the handlers need no proof each.
`FillMessages` sends the entries of a shard in the order of the slots; that there is such an order of finitely many slots, and that
an entry is in it once, is proved once for all modules, in `NodeTypes_lemmas` (`AscendingLists`), from the least of the counterexamples, since the library's
induction theorems cannot be instantiated.
`SearchesAgreeHolds` then counts the copies of an entry over the shards asked: an entry is only on the home of its value
(`AtHome`), so asking the home alone loses nothing.

The constants `MaxWrites` and `MaxTasks` bound the number of writes and index statements in the theorems of
`PropertyIndexes_proofs` as well, but by any number.

`NodeProperties_proofs` is about `MCNodeProperties`, where a behaviour is about nodes or about relationships, under
`NodeTypesAssumption`, `PropertyColumnsAssumption` and `NoValueAssumption` (values are even numbers with 0 among them, and the mark for no
value is none of them), and `RelationshipsAssumption` (fewer slots than 2^64; id 0 is no node). What is read back is not inductive: `setValue` resizes the vector of
the property and thereby gives every slot in between a default, and a slot that is taken again still has the value of its earlier owner.
The invariant `BothHold` says why neither is seen. `ColumnFits`: every slot that is free or beyond the vector is among the deleted
properties, except those as old as the type of the property and untouched since (`late`), over which the vector holds the default.
`ColumnReads`: the slots in use are read as what was last written. Both are stated of any column, any number of slots
and any set of freed slots, so that the two modules, whose slots are counted and freed differently, share them: `DeleteFits` and `SetFits`
say what the two writers do, `FromJsonRewrites` what a request with JSON does, `RewriteHolds` that a handler which rewrites
one slot keeps the column. `RelationshipProperties` is reached through an instance, and `SameWriters`, `SameCounts`, `SameSearches` and `SameFilters` say that its copies of the
operators are those of the nodes. Counts rest on the freed slots being among the deleted properties: the
difference of the two bitmaps' sizes is the size of their difference (`DifferenceCount`) and does not wrap. Searches rest on a scan meeting exactly the slots
whose last value matches (`ScanHolds`) and on the page being cut from all of them in order (`PageHolds`). Batches rest on the list of a
shard ending with its greatest slot (`ListOfSlots`): looking at the vector's length for the last id only either is enough for all or
gives nothing (`GivenIsRead`), and what the shards answer is joined id by id (`Joined`, `NodesAnswers`, `RelsAnswers`).
Filters rest on what is left of a list being the slots that stay, each once and in order (`KeptLists`): a page of one is then the smallest
(`PageOfList`). Once the deleted ids and the deleted properties are out of the list, every slot left has a value within the vector
(`ListsLeft`, `ValuedHold`), so that the length looked at for the last id only is enough for all (`SortedIs`) and the value put in for
a missing one is never compared; the filters that leave the deleted properties in the list give those besides, and no others
(`AllFilters`).

`Searches_proofs` assumes `SearchesAssumption` alone: any finite graph on any shards, any costs from 0 up or none, any trace limit, any changes at any time while a
search waits. A search never looks at a link twice: its path is read off the parents it noted when links were there, so that
`TracesBack` is a fact about those maps. The invariant has a part for each of the two searches. From both ends
(`ShortestOK`): the nodes of a side have depths, a parent is one less deep, the level read next is the deepest and as deep as the hops
spent; no node has been seen from both ends. Dijkstra's (`CheapestOK`): a parent is nearer to the start than its node; since a relationship may
cost nothing it may also be as near, and then it was reached earlier, so the invariant has for every node a time at which its
distance was noted; an improved node is improved again only with a smaller distance, and the node being read never improves
itself, because an entry of the queue is never below the distance noted. Either way parents are above their nodes in a strict order, and
`ChainLeads` shows for any such map that the chain from a node meets no node twice and ends at the start: the nodes are too few for it not to.
`MeetingIsPath` joins two chains that have one node in common.

That the best path is found (`BestPathExactHolds`) holds while nothing changes, so its invariant `EInv` is `IInv` together
with `Exact` as long as `changes` is 0; how the graph came to be does not matter, since `cost` is any map. What counts here is what a search has
not seen. A side of the search from both ends has seen exactly the ball around its start whose radius is the hops it has spent
(`SeenExactly`), and all but its level leads to what it has seen. When the sides meet, no shorter way exists, because a
way of at most as many hops as both radii together has a node in both balls (`HalfWay`, `NoShorterWay`), and the sides
had none in common before; that the search stops in the middle of a level is therefore safe. When a side's level is empty its ball is closed
and the other end outside it (`EmptyLevelIsClosed`). Dijkstra's has a set of nodes that are done, which is not in the
code's state and so is stated to exist (`CheapestExactly`): whatever they lead to has a distance noted that is no greater
than by way of them, and no entry of the queue is nearer than they are, overtaken entries included. A way from the start to a node that is not done
leaves the done ones at a node waiting in the queue, and costs no less than its entry (`WayOut`,
`PathsCostNoLess`). The distance of the end is what the relationships on the path add up to (`TracedDistances`).
What a relationship costs depends on the node it is left from, because the batch it is read in does (`PriceIn`); nothing else is used of prices than
that they are numbers from 0 up (`PriceIsNumber`). The path the parents give is then cut to the trace limit (`CutIs`, `CutKeepsPath`).
The balls, the trails and the weights are recursive functions on the numbers; the one induction they need is `EveryNumber`, which is
about a set and not an operator, so that it can be cited. A path that repeats
no node repeats no relationship (`SimpleWays`) and has fewer relationships than there are nodes, so that the paths Dijkstra's
answer is compared with are all there are (`SimpleHas`).

| Theorem | Module | Property | What it establishes |
|---|---|---|---|
| Invariance | NodeLifecycle_proofs |  | The inductive invariant (types, agreement of map, keys and freed slots, and the accounting of slots) holds for any finite set of keys and any number of slots. |
| TypeCorrect | NodeLifecycle_proofs | TypeOK | The columns keep their types; in particular getCount never numbers a new slot outside the vectors. |
| SlotIntegrityHolds | NodeLifecycle_proofs | SlotIntegrity | Key map, key vector and freed slots agree after any sequence of operations. |
| SlotAccountingHolds | NodeLifecycle_proofs |  | Keys held and slots freed add up to the length of the vectors. |
| ValidNodeHasKeyHolds | NodeLifecycle_proofs | ValidNodeHasKey | An id the shard calls valid leads to a node whose key leads back. |
| HiddenBounded | NodeLifecycle_proofs | HiddenBoundedByDeleted | ValidNodeId hides at most as many live nodes as there are freed slots. |
| NodeIdStableHolds | NodeLifecycle_proofs | NodeIdStable | A key keeps its id for as long as it is held. |
| Invariance | GraphShards_proofs |  | The inductive invariant of the sharded graph (types, node columns, relationship columns, and what the captures of an operation in progress may rely on) holds for any number of shards, keys, slots and clients, all operations interleaved. |
| TypeCorrect | GraphShards_proofs | TypeOK | Every variable of the sharded graph keeps its type; new relationships are numbered within the vectors and no handler is given an id that is none. |
| ColumnsAgreeHolds | GraphShards_proofs | ColumnsAgree | Key map, key vector and freed slots of every shard agree, whatever handlers interleave. |
| RelStoresAgreeHolds | GraphShards_proofs | RelStoresAgree | Freed relationship slots are cleared and inside the vectors, and a relationship leads from a node of its shard, whatever handlers interleave. |
| OwnerSideHolds | GraphShards_proofs | OwnerSide | While no client removes nodes, the columns and the outgoing links of every shard hold the same relationships one to one, with additions and removals of relationships interleaved handler by handler and slots reused. |
| EndsAreNodesHolds | GraphShards_proofs | EndsAreNodes | While no client removes nodes and the type exists from the start, a relationship has a node at both ends, although the ending node was checked in an earlier handler on another shard. |
| Refinement | GraphShards_proofs | ImplementsPropertyGraph | Under the same two conditions the sharded graph implements the abstract property graph for every number of shards, keys, slots and clients. |
| TypeCorrect | TypeRegistry_proofs |  | The tables of types keep their types for any number of shards and names: no id is handed out beyond the bound, and every insertion and deletion under way names an id that was drawn. |
| NamesMatchPositionsHolds | TypeRegistry_proofs | NamesMatchPositions | With one inserter, and types deleted only where they are empty everywhere, the two tables of every shard name the same types, whatever broadcasts are on their way. |
| TypeIdsAreGlobalHolds | TypeRegistry_proofs | TypeIdsAreGlobal | Under the same condition an id stands for the same name on every two shards that know it. |
| AnsweredMeansKnownHolds | TypeRegistry_proofs | AnsweredMeansKnown | Under the same condition a client that waited for the broadcast of a type may use its id on every shard, and one that was answered from the shard's own table may, on each shard, once the messages its own shard has already sent there are handled. |
| DeletedOnAllShardsHolds | TypeRegistry_proofs | DeletedOnAllShards | Under the same condition a deletion that has been answered has taken the type off every shard. |
| TypeCorrect | Caches_proofs |  | Caches, catalogs and messages keep their types, whatever queries, writes and statements run. |
| RecentPlansKeptHolds | Caches_proofs | RecentPlansKept | For every capacity and every number of queries, the list and the map of a plan cache name the same queries: those used last since the last clear, in that order. |
| PlansFreshHolds | Caches_proofs | PlansFresh | No plan made under other traits is in a cache, and one made under another view has a clear coming to its shard, with any number of shards running statements at the same time. |
| ClosuresFreshHolds | Caches_proofs | ClosuresFresh | A cached closure that lacks a write has word of it on the way, but for the two exceptions the property names, in every interleaving of writes, queries and statements. |
| MirrorIsOwedHolds | GraphShards_proofs | MirrorIsOwed | While clients only add nodes and relationships of a type that exists from the start, every relationship has its link at the far node or is owed it by an operation under way, and no incoming link is without its relationship, with the two halves of an add on different shards interleaved freely. |
| IncomingSideHolds | GraphShards_proofs | IncomingSide | With one operation at a time and no removal of a node that has links to another shard, both directions of the links agree across all shards whenever nothing is under way, slots being freed and given out again, for any number of shards, keys and slots. |
| SequentialOwnerSideHolds | GraphShards_proofs | OwnerSide | Under the same conditions the owning shard's two records of a relationship stay one to one although nodes are removed: the slots a removal frees are those of the node's own relationships. |
| SequentialEndsAreNodesHolds | GraphShards_proofs | EndsAreNodes | Under the same conditions a relationship never outlives its nodes. |
| SequentialRefinement | GraphShards_proofs | ImplementsPropertyGraph | Under the same conditions the sharded graph implements the abstract property graph under all operations, removals of nodes included, each of which is one abstract step. |
| PagesListEveryValidNodeHolds | NodeLifecycle_proofs | PagesListEveryValidNode | For any page size and any number of slots that fits in an id, the pages of a node type together list every valid node, each on one page only. |
| IInvHolds | PropertyIndexes_proofs |  | The inductive invariant of the property index (the columns, the messages on their way, how far a creation or deletion has come, and how often each entry is due) holds for any number of shards, keys, slots, values, writes and index statements. |
| NothingMissingHolds | PropertyIndexes_proofs | NothingMissing | Whatever writes, creations, deletions and deliveries interleave, a value on a filled shard has its entry on the home shard or a message on its way there that leaves it there, but for the nodes the property names. |
| NothingStaleHolds | PropertyIndexes_proofs | NothingStale | In the same interleavings no entry is due for a value the node no longer has, and none twice, but for the nodes the property names. |
| SearchesAgreeHolds | PropertyIndexes_proofs | SearchesAgree | Once nothing is on its way and no node is excepted, every search through the index finds each node once that a scan of the columns of all shards finds, and no other, for any number of values and any comparison. |
| BothHoldAlways | NodeProperties_proofs |  | The inductive invariant of a property's column, of nodes and of relationships, holds under any sequence of additions, removals, writes, deletions and changes of the property's type: what is free or beyond the vector is deleted, but for slots as old as the type, and the rest of the column is what was last written (what the reader of all properties, getProperties, gives). |
| EveryReadIsTheLastWriteHolds | NodeProperties_proofs | EveryReadIsTheLastWrite | For any number of slots, keys and values, reading a node or a relationship with its properties gives what was last written to it, never an earlier owner's value nor the padding of a grown vector, but for slots as old as the property's type; reading the one property gives the same, except that a list of integers read so is never there. |
| EveryCountExactHolds | NodeProperties_proofs | EveryCountExact | Counts by value and by null agree with what there is to find: the unsigned difference of two bitmaps' sizes never wraps around. |
| EverySearchExactHolds | NodeProperties_proofs | EverySearchExact | A search by value or by null returns exactly what the last writes say, page by page in slot order, with the key or the ends each result has. |
| EveryBatchReadAgreesHolds | NodeProperties_proofs | EveryBatchReadAgrees | Reading many nodes or relationships over two shards answers for each id what is in its column, or nothing; one that is gone costs at most the answers of its own shard, and where the last one a shard is asked for has the property none is left out. Reading one property over links answers for a list of integers nothing at all. |
| EveryFilterExactHolds | NodeProperties_proofs | EveryFilterExact | Filtering a list of slots by a single value, or by a list of booleans, keeps exactly the nodes or relationships whose last written value compares that way: the smallest or the first by value when one is asked for, and where no property in the list was deleted the filters for ids, nodes, relationships and properties agree. Filtering by a list of integers, doubles or texts keeps nothing; counting is exact for every kind. |
| TracesBackHolds | Searches_proofs | TracesBack | However relationships appear, disappear and change their costs while a search waits, the parents noted by the search from both ends and by Dijkstra's lead from the end back to the start without repeating a node, relationships that cost nothing included, and the first stays within the hops allowed; for every graph and every number of changes. |
| BestPathExactHolds | Searches_proofs | BestPathExact | While no relationship changes during a search, the search from both ends answers with a path of the fewest hops, or with none exactly when the end is not within the hops allowed, and Dijkstra's with a simple path of least weight, by the prices the code's batches give and cut to the trace limit, whose whole weight it states, or with none exactly when there is no path; for every finite graph, any costs from 0 up, and any placing of its relationships on shards. |

What stays with TLC: the properties under fairness (`EventuallyMirrored`, `EventuallyAgreed`,
`EverySearchEnds`), which need liveness reasoning the prover does not have; the pages
counted over several shards (`MCPaging`), whose plan is a fold over the shards that the prover cannot do induction
over; that the searches for several paths find all of them (`EveryPathFound`): that concerns the ties of Dijkstra's, levels of trails,
deviations and union-find at once, each with an induction of its own; the optimizer (`AnswersKept`, `ShortCircuitSound`), whose meaning of a
statement is given by RECURSIVE operators (`GqlMeaning`); what the violation run shows.

## Not modelled

- The lexer, the parser and the type checker of the query language: functions of a text without state.
- `Databases.cpp`: removing a database while requests run uses references to shards that are gone. A model
  would have the map of databases and nothing else, and restate the missing synchronisation.
- `LoadCSV.cpp`, `Restore.cpp`, the HTTP handlers, the Lua wrappers, the Python layer, the web page: input, output and
  formatting around operations modelled here. `Bulk.cpp` repeats the adds of a node or a relationship in batches.
- `Lftj`, `Honeycomb` and the write statements of the executor; text indexes; centrality, clustering
  and similarity.

## Plan

1. Done: node columns with proofs, relationship columns, the sharded graph with its refinement
   and the proofs of its columns and of the refinement, the type registry, the paging of nodes and relationships,
   property columns with every search over them, batch reads, property indexes, both kinds of caches, path
   searches, the optimizer.
2. Next modules: reads around a node (`NodeLinks.cpp`, `Neighbors.cpp`,
   `Traversing.cpp`), bulk loading as batches.
3. Theorems next: that the pages of several shards miss nothing (`NothingListedIsMissed`), from what each
   shard's page is, for a plan that is given instead of folded.
