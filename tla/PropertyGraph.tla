---------------------------- MODULE PropertyGraph ----------------------------
(***************************************************************************)
(* What the graph promises its clients, with no shards, slots, columns or   *)
(* messages: a set of nodes named by their keys and a set of directed       *)
(* relationships, each with an identity of its own (two nodes may be        *)
(* related more than once). A relationship never outlives its nodes.        *)
(***************************************************************************)
CONSTANTS Vertex,     \* the keys
          EdgeId      \* the identities relationships may have

VARIABLES vertices, edges

vars == <<vertices, edges>>

Edge == [id : EdgeId, from : Vertex, to : Vertex]

Ids == {e.id : e \in edges}

TypeOK ==
    /\ vertices \subseteq Vertex
    /\ edges \subseteq Edge

Init ==
    /\ vertices = {}
    /\ edges = {}

AddVertex(v) ==
    /\ v \notin vertices
    /\ vertices' = vertices \cup {v}
    /\ UNCHANGED edges

AddEdge(id, v, w) ==
    /\ id \notin Ids
    /\ v \in vertices /\ w \in vertices
    /\ edges' = edges \cup {[id |-> id, from |-> v, to |-> w]}
    /\ UNCHANGED vertices

RemoveEdge(id) ==
    /\ id \in Ids
    /\ edges' = {e \in edges : e.id # id}
    /\ UNCHANGED vertices

\* Removing a node takes its relationships, and only those, with it.
RemoveVertex(v) ==
    /\ v \in vertices
    /\ vertices' = vertices \ {v}
    /\ edges' = {e \in edges : e.from # v /\ e.to # v}

Next ==
    \/ \E v \in Vertex : AddVertex(v)
    \/ \E id \in EdgeId, v, w \in Vertex : AddEdge(id, v, w)
    \/ \E id \in EdgeId : RemoveEdge(id)
    \/ \E v \in Vertex : RemoveVertex(v)

Spec == Init /\ [][Next]_vars

=============================================================================
