---------------------------- MODULE UnsetVelocity ----------------------------
(***************************************************************************)
(* The router of a base whose bus_velocity is 0, as it is without          *)
(* routing_settings (domain.h:47).  The time of a ride is then a sum of    *)
(* divisions by zero: infinity, or NaN if a leg of it has distance 0, and  *)
(* every comparison with NaN is false.  Router has the algorithm step by   *)
(* step for numbers; here the whole table is one function of the edges.    *)
(***************************************************************************)
EXTENDS Integers, Sequences, SequencesExt, Relation

CONSTANTS
    VertexCount,  \* number of stops
    Rides,        \* the distances of the legs of a ride
    MaxEdges,     \* bound on the edges of the graph
    NoRoute       \* an empty entry

ASSUME VertexCountAssumption == VertexCount \in Nat \ {0}

VARIABLE edges    \* graph_.edges_

Vertex == 0 .. VertexCount - 1
EdgeId == 1 .. Len(edges)
NoEdge == 0

-----------------------------------------------------------------------------
(* Doubles: "zero", "inf" and "nan" *)

Plus(a, b) == IF "nan" \in {a, b} THEN "nan" ELSE IF "inf" \in {a, b} THEN "inf" ELSE "zero"

\* Mutant: NaN taken for the least number there is.
LessNan(a, b) == (a = "nan" /\ b # "nan") \/ (a = "zero" /\ b = "inf")

Less(a, b) == a = "zero" /\ b = "inf"

OverZero(distance) == IF distance = 0 THEN "nan" ELSE "inf"
Weight(legs) == FoldLeft(LAMBDA w, distance : Plus(w, OverZero(distance)), "zero", legs)

-----------------------------------------------------------------------------
(* router.h *)

\* Incident edges are read in the order of their ids, row by row.
InitializeRoutesInternalData ==
    LET empty == [i \in Vertex |-> [j \in Vertex |->
                    IF i = j THEN [weight |-> "zero", prev_edge |-> NoEdge] ELSE NoRoute]]
        Scan(D, n) ==
            LET e == edges[n] IN
            IF D[e.from][e.to] = NoRoute \/ Less(e.weight, D[e.from][e.to].weight)
            THEN [D EXCEPT ![e.from][e.to] = [weight |-> e.weight, prev_edge |-> n]]
            ELSE D
    IN  FoldLeft(Scan, empty, [n \in EdgeId |-> n])

RelaxRoute(D, from, to, through) ==
    LET route_from == D[from][through]
        route_to == D[through][to]
        candidate_weight == Plus(route_from.weight, route_to.weight)
    IN  IF route_from = NoRoute \/ route_to = NoRoute THEN D
        ELSE IF D[from][to] = NoRoute \/ Less(candidate_weight, D[from][to].weight)
        THEN [D EXCEPT ![from][to] =
                [weight |-> candidate_weight,
                 prev_edge |-> IF route_to.prev_edge # NoEdge THEN route_to.prev_edge
                               ELSE route_from.prev_edge]]
        ELSE D

\* The three loops, the vertex routed through in the outermost.
Cells ==
    [n \in 1 .. VertexCount * VertexCount * VertexCount |->
       [through |-> (n - 1) \div (VertexCount * VertexCount),
        from |-> ((n - 1) \div VertexCount) % VertexCount,
        to |-> (n - 1) % VertexCount]]

Table == FoldLeft(LAMBDA D, c : RelaxRoute(D, c.from, c.to, c.through),
                  InitializeRoutesInternalData, Cells)

\* The edges of BuildRoute's walk, last one first; it goes on from an entry
\* that is empty as from the start of the route, and stops at MaxEdges + 1.
Walk(D, i, j) ==
    LET cursor[n \in 0 .. MaxEdges] ==
          IF n = 0 THEN D[i][j].prev_edge
          ELSE IF cursor[n - 1] = NoEdge \/ D[i][edges[cursor[n - 1]].from] = NoRoute THEN NoEdge
          ELSE D[i][edges[cursor[n - 1]].from].prev_edge
    IN  SelectSeq([n \in 1 .. MaxEdges + 1 |-> cursor[n - 1]], LAMBDA e : e # NoEdge)

-----------------------------------------------------------------------------

Init == edges = <<>>

AddEdge(from, to, legs) ==
    /\ Len(edges) < MaxEdges
    /\ edges' = Append(edges, [from |-> from, to |-> to, weight |-> Weight(legs)])

Next == \E from, to \in Vertex, legs \in Rides : AddEdge(from, to, legs)

Spec == Init /\ [][Next]_edges

-----------------------------------------------------------------------------
(* Properties *)

Linked(i, j) == \E e \in EdgeId : edges[e].from = i /\ edges[e].to = j

\* Without a velocity, or with velocity 0, the routes have no times but are
\* still right: there is one exactly where rides lead, its items are rides
\* one behind the other from the one stop to the other, none comes twice,
\* and the total time is their sum, though no comparison of weights ever
\* tells the table which of two routes to take (request_handler.cpp:34,
\* router.h:52, :63).
UntimedRoutesLead ==
    LET D == Table
        reach == TransitiveClosure([ij \in Vertex \X Vertex |-> Linked(ij[1], ij[2])], Vertex)
    IN  \A i, j \in Vertex :
          /\ D[i][j] # NoRoute <=> i = j \/ reach[i, j]
          /\ D[i][j] # NoRoute =>
               LET path == Reverse(Walk(D, i, j))
                   stops == <<i>> \o [n \in DOMAIN path |-> edges[path[n]].to]
               IN  /\ stops[Len(stops)] = j
                   /\ \A n \in DOMAIN path : edges[path[n]].from = stops[n]
                   /\ IsInjective(path)
                   /\ D[i][j].weight = FoldLeft(LAMBDA w, e : Plus(w, edges[e].weight), "zero", path)
=============================================================================
