------------------------- MODULE MCNodeProperties --------------------------
(***************************************************************************)
(* Instances of NodeProperties and of RelationshipProperties for TLC: a    *)
(* behaviour is about one of the two, and the invariants below put the two *)
(* modules' own together. Three keys and slots, so that a slot below, at   *)
(* and above a written one exists.                                         *)
(***************************************************************************)
EXTENDS NodeProperties

CONSTANTS NodeRef, NoId, MaxRels

\* Those of RelationshipTypes, and a count of slots that fits the word.
ASSUME RelationshipsAssumption ==
    /\ NoId \notin NodeRef
    /\ MaxRels \in Nat /\ MaxRels < Word

VARIABLES about,                              \* which of the two this behaviour is about
          rels, relColumn, relWritten, relLate

R == INSTANCE RelationshipProperties
        WITH column <- relColumn, written <- relWritten, late <- relLate

relVars == <<rels, relColumn, relWritten, relLate>>

MCValue == {0, 2}

Symmetry == Permutations(Key)

MCInit == Init /\ R!Init /\ about \in {"nodes", "relationships"}

MCNext ==
    \/ about = "nodes" /\ Next /\ UNCHANGED <<about, relVars>>
    \/ about = "relationships" /\ R!Next /\ UNCHANGED <<about, vars>>

MCSpec == MCInit /\ [][MCNext]_<<about, vars, relVars>>

\* What reading one node or one relationship gives: ReadsWhatWasWritten of both modules.
EveryReadIsTheLastWrite == ReadsWhatWasWritten /\ R!ReadsWhatWasWritten

\* What a batch of reads gives, of nodes and of relationships: BatchReadsAgree of both modules.
EveryBatchReadAgrees == BatchReadsAgree /\ R!BatchReadsAgree

\* Every search by value, and by null, finds exactly what it should, nodes and relationships.
EverySearchExact == FindExact /\ R!FindExact

\* Every count agrees with what there is to find, nodes and relationships.
EveryCountExact == CountExact /\ R!CountExact

\* Every filter of a list keeps exactly what it should, nodes and relationships.
EveryFilterExact == FilterExact /\ R!FilterExact

=============================================================================
