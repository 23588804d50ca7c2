------------------------------ MODULE MCRouter ------------------------------
(* Small graphs for Router. *)
EXTENDS Router

CONSTANTS
    Weights,   \* the weights an edge may have
    MaxEdges   \* bound on the number of edges of a multigraph

SignedWeights == {-1, 0, 2}

Slots == SetToSeq({<<i, j>> \in Vertex \X Vertex : i # j})

AtMostOneEdge(slot) ==
    {<<>>} \cup {<<[from |-> slot[1], to |-> slot[2], weight |-> w]>> : w \in Weights}

\* Simple graphs: at most one edge for each ordered pair of vertices.
SimpleGraphs ==
    LET over[n \in 0 .. Len(Slots)] ==   \* using the first n slots
          IF n = 0 THEN {<<>>}
          ELSE {g \o more : g \in over[n - 1], more \in AtMostOneEdge(Slots[n])}
    IN  over[Len(Slots)]

\* Multigraphs: parallel edges, loops, every order of insertion.
MultiGraphs ==
    UNION {[1 .. n -> [from : Vertex, to : Vertex, weight : Weights]] :
             n \in 0 .. MaxEdges}

\* Four vertices on a ring, each linked to both neighbours or not.
RingGraphs ==
    LET over[n \in 0 .. 2 * VertexCount] ==
          IF n = 0 THEN {<<>>}
          ELSE LET v == (n - 1) % VertexCount
                   next == IF n <= VertexCount THEN (v + 1) % VertexCount
                           ELSE (v + VertexCount - 1) % VertexCount
               IN  {g \o more : g \in over[n - 1], more \in AtMostOneEdge(<<v, next>>)}
    IN  over[2 * VertexCount]
=============================================================================
