------------------------------- MODULE Listings -------------------------------
(***************************************************************************)
(* Listing nodes or relationships over all shards, with and without a      *)
(* type: src/src/graph/peered/All.cpp, which has the same functions for    *)
(* both.                                                                   *)
(*                                                                         *)
(* The asking shard first lets every shard count what it holds, then works *)
(* out from the counts which part of the page each shard is to deliver,    *)
(* and then lets those shards list their parts. Every count and every part *)
(* is a handler of its own, and things come and go in between.             *)
(***************************************************************************)
EXTENDS Integers, FiniteSets, SequencesExt

CONSTANTS Shard,            \* the shards in the order of their numbers, a sequence
          Type,             \* the types in the order of their ids, a sequence
          Scope,            \* what is listed: a subset of ToSet(Type) \cup {Everything}
          Everything,       \* the overloads without a type
          Pages,            \* the pages clients ask for: a set of <<skip, limit>>
          Word,             \* counts are computed modulo Word
          CountOf(_),       \* getCount of the columns of a type on a shard
          IdsOf(_, _, _),   \* getIds of them from a skip and a limit
          HeldOf(_),        \* the slots in use
          FreedOf(_)        \* the slots freed

VARIABLES columns,     \* columns[s][t]: the columns of type t on shard s
          listing      \* the listing in progress, or the last one

Place == ToSet(Shard) \X ToSet(Type)

\* What the lambdas of a listing hold; asked and changed are history: what was held at the time
\* of the question, and what has happened to it since.
Listing ==
    [step     : {"none", "count", "list", "answered"},
     scope    : Scope,
     page     : Pages \cup {<<0, 0>>},
     counts   : [Place -> 0 .. Word - 1],
     counted  : SUBSET ToSet(Shard),
     requests : Seq([place : Place, skip : 0 .. Word - 1, limit : 0 .. Word - 1]),
     parts    : Seq(SUBSET Nat),
     heard    : SUBSET (1 .. Len(Shard) * Len(Type)),
     asked    : SUBSET (Place \X Nat),
     dense    : BOOLEAN,
     changed  : SUBSET {"added", "removed"}]

NoCounts == [p \in Place |-> 0]

ColumnsAt(p) == columns[p[1]][p[2]]

Held == UNION {{p} \X HeldOf(ColumnsAt(p)) : p \in Place}

Freed == UNION {{p} \X FreedOf(ColumnsAt(p)) : p \in Place}

\* No slot is freed on any shard.
Dense == Freed = {}

Question(step, scope, page, asked, dense) ==
    [step |-> step, scope |-> scope, page |-> page, counts |-> NoCounts, counted |-> {},
     requests |-> <<>>, parts |-> <<>>, heard |-> {}, asked |-> asked, dense |-> dense,
     changed |-> {}]

NoListing == Question("none", CHOOSE scope \in Scope : TRUE, <<0, 0>>, {}, TRUE)

-----------------------------------------------------------------------------
(* Working out the parts *)

\* uint64_t subtraction.
Minus(a, b) == (a - b + Word) % Word

Request_LimitNotReduced(acc, p, count, skip, limit) ==
    [place |-> p,
     skip  |-> IF skip > acc.current THEN skip - acc.current ELSE 0,
     limit |-> limit]

Request_LimitReducedTwice(acc, p, count, skip, limit) ==
    [place |-> p,
     skip  |-> IF skip > acc.current THEN skip - acc.current ELSE 0,
     limit |-> Minus(limit, (acc.current + count) % Word)]

Request_SkipForgotten(acc, p, count, skip, limit) ==
    [place |-> p, skip |-> 0, limit |-> Minus(limit, acc.current)]

\* The limit less what has been counted so far, the skipped elements included.
Request(acc, p, count, skip, limit) ==
    [place |-> p,
     skip  |-> IF skip > acc.current THEN skip - acc.current ELSE 0,
     limit |-> Minus(limit, acc.current)]

\* One turn of the loop over the counts; done stands for its break.
Visit(acc, p, count, skip, limit) ==
    LET next   == (acc.current + count) % Word
        wanted == next > skip
        done   == wanted /\ next > skip + limit
    IN  IF acc.done \/ count = 0
        THEN acc
        ELSE [current  |-> IF done THEN acc.current ELSE next,
              done     |-> done,
              requests |-> IF wanted
                           THEN Append(acc.requests, Request(acc, p, count, skip, limit))
                           ELSE acc.requests]

Start == [current |-> 0, done |-> FALSE, requests |-> <<>>]

\* With a type: one loop over the shards.
PlanOfType(counts, type, skip, limit) ==
    FoldLeft(LAMBDA acc, s : Visit(acc, <<s, type>>, counts[<<s, type>>], skip, limit),
             Start, Shard).requests

\* Without: a loop over the types inside a loop over the shards, and the break leaves the
\* inner loop only.
PlanOfEverything(counts, skip, limit) ==
    LET OnShard(acc, s) ==
            FoldLeft(LAMBDA a, t : Visit(a, <<s, t>>, counts[<<s, t>>], skip, limit),
                     [acc EXCEPT !.done = FALSE], Type)
    IN  FoldLeft(OnShard, Start, Shard).requests

Plan(counts, scope, skip, limit) ==
    IF scope = Everything
    THEN PlanOfEverything(counts, skip, limit)
    ELSE PlanOfType(counts, scope, skip, limit)

-----------------------------------------------------------------------------
(* Actions *)

\* An answered listing is over and forgotten at the next change.
Note(change) ==
    listing' = IF listing.step \in {"none", "answered"}
               THEN NoListing
               ELSE [listing EXCEPT !.changed = @ \cup {change}]

\* AllNodeIdsPeered, AllNodesPeered, AllRelationshipIdsPeered or AllRelationshipsPeered is called.
Ask(scope, page) ==
    /\ listing.step \in {"none", "answered"}
    /\ listing' = Question("count", scope, page, Held, Dense)
    /\ UNCHANGED columns

\* NodeCounts, NodeCount, RelationshipCounts or RelationshipCount on one shard.
Count(s) ==
    /\ listing.step = "count"
    /\ s \notin listing.counted
    /\ listing' = [listing EXCEPT
          !.counts  = [p \in Place |-> IF p[1] = s THEN CountOf(ColumnsAt(p)) ELSE @[p]],
          !.counted = @ \cup {s}]
    /\ UNCHANGED columns

\* The continuation of the counts.
RequestParts ==
    LET requests == Plan(listing.counts, listing.scope, listing.page[1], listing.page[2])
    IN  /\ listing.step = "count"
        /\ listing.counted = ToSet(Shard)
        /\ listing' = [listing EXCEPT !.step     = "list",
                                      !.requests = requests,
                                      !.parts    = [i \in 1 .. Len(requests) |-> {}]]
        /\ UNCHANGED columns

\* AllNodeIds(type_id, skip, limit) or its like on the shard of one request.
ListPart(i) ==
    LET request == listing.requests[i]
    IN  /\ listing.step = "list"
        /\ i \notin listing.heard
        /\ listing' = [listing EXCEPT
              !.parts[i] = IdsOf(ColumnsAt(request.place), request.skip, request.limit),
              !.heard    = @ \cup {i}]
        /\ UNCHANGED columns

\* The continuation of the parts: they are put one after the other.
Answer ==
    /\ listing.step = "list"
    /\ listing.heard = 1 .. Len(listing.requests)
    /\ listing' = [listing EXCEPT !.step = "answered"]
    /\ UNCHANGED columns

\* A listing goes on.
Continue ==
    \/ \E scope \in Scope, page \in Pages : Ask(scope, page)
    \/ \E s \in ToSet(Shard) : Count(s)
    \/ RequestParts
    \/ \E i \in 1 .. Len(listing.requests) : ListPart(i)
    \/ Answer

-----------------------------------------------------------------------------
(* The page that was asked for *)

\* The slots of one place as the elements they are, in the order of the slots.
Elements(p, slots) ==
    LET sorted == SetToSortSeq(slots, <) IN [i \in DOMAIN sorted |-> <<p, sorted[i]>>]

Page ==
    FlattenSeq([i \in DOMAIN listing.parts |->
                   Elements(listing.requests[i].place, listing.parts[i])])

\* All elements in the scope of the listing, shard by shard, type by type, slot by slot.
All ==
    LET OfPlace(s, t) ==
            IF listing.scope \in {Everything, t}
            THEN Elements(<<s, t>>, HeldOf(columns[s][t]))
            ELSE <<>>
        OfShard(s) == FlattenSeq([i \in DOMAIN Type |-> OfPlace(s, Type[i])])
    IN  FlattenSeq([i \in DOMAIN Shard |-> OfShard(Shard[i])])

Skip == listing.page[1]

Limit == listing.page[2]

Wanted ==
    SubSeq(All, Skip + 1, Min({Skip + Limit, Len(All)}))

\* The answer just given is to a question asked when no slot was freed, and nothing has been
\* added or removed since.
Undisturbed == listing.step = "answered" /\ listing.dense /\ listing.changed = {}

\* How many elements of the scope the first shard that has any holds.
OnFirstShard ==
    IF All = <<>>
    THEN 0
    ELSE Cardinality({i \in DOMAIN All : All[i][1][1] = Head(All)[1][1]})

\* Undisturbed, a first page of one type is the page that was asked for.
FirstPageExact ==
    Undisturbed /\ listing.scope # Everything /\ Skip = 0 => Page = Wanted

\* Undisturbed, a first page of everything begins with the page that was asked for.
FirstPagePrefix ==
    Undisturbed /\ Skip = 0 => IsPrefix(Wanted, Page)

\* Undisturbed, a page of one type that ends on the first shard that holds any, before the last
\* of them, is the page that was asked for, wherever it begins.
PageOfOneShardExact ==
    /\ Undisturbed
    /\ listing.scope # Everything
    /\ Skip + Limit < OnFirstShard
    => Page = Wanted

\* A first page long enough for everything lists all that was there when it was asked
\* for, whatever is added between the counts and the parts.
NothingHeldIsMissed ==
    /\ listing.step = "answered" /\ listing.dense /\ "removed" \notin listing.changed
    /\ Skip = 0 /\ Limit >= Cardinality(Held)
    => {n \in listing.asked : listing.scope \in {Everything, n[1][2]}} \subseteq ToSet(Page)

\* What the comment at the break says: nothing beyond the page is asked for.
PageWithinLimit ==
    Undisturbed /\ Skip = 0 => Len(Page) <= Limit

=============================================================================
