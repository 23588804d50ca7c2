------------------------------- MODULE Router -------------------------------
(***************************************************************************)
(* graph::Router (router.h): the all-pairs table the program builds once,  *)
(* in make_base, and then only reads, in process_requests.  The module     *)
(* models the constructor cell by cell (the table is read through          *)
(* references while it is being written) and BuildRoute hop by hop.        *)
(*                                                                         *)
(* Vertices are numbered from 0 as in the code.  Edges are numbered from   *)
(* 1, the position in `edges`, so that edge n here is EdgeId n - 1 there   *)
(* and 0 is left for std::nullopt.  Weights, doubles in the code, are      *)
(* integers: rounding is not modelled.                                     *)
(***************************************************************************)
EXTENDS Integers, Sequences, SequencesExt

CONSTANTS
    VertexCount,  \* number of vertices of the graph
    EdgeLists,    \* the edge sequences a graph may be made of
    NoRoute,      \* an empty std::optional
    MaxHops       \* bound: BuildRoute collects at most this many edges

Vertex == 0 .. VertexCount - 1
Edge == [from : Vertex, to : Vertex, weight : Int]
NoEdge == 0
RouteInternalData == [weight : Int, prev_edge : Nat]
RouteInfo == [weight : Int, edges : Seq(Nat)]

ASSUME VertexCountAssumption == VertexCount \in Nat \ {0}
ASSUME EdgeListsAssumption == EdgeLists \subseteq Seq(Edge)
ASSUME NoRouteAssumption == NoRoute \notin RouteInternalData \cup RouteInfo
ASSUME MaxHopsAssumption == MaxHops \in Nat

VARIABLES
    edges,    \* graph_.edges_
    data,     \* routes_internal_data_
    phase,    \* where the object is in its life
    vertex,   \* rows already entered by InitializeRoutesInternalData
    todo,     \* incident edges of row vertex - 1 still to be read
    cell,     \* loop variables vertex_through, vertex_from, vertex_to
    query,    \* arguments of BuildRoute
    chain,    \* local `edges` of BuildRoute
    cursor,   \* local `edge_id` of BuildRoute
    answer    \* what BuildRoute returned

table == <<edges, data, vertex, todo, cell>>
walk == <<query, chain, cursor, answer>>
vars == <<edges, data, phase, vertex, todo, cell, query, chain, cursor, answer>>

EdgeId == 1 .. Len(edges)
IncidentEdges(v) == {e \in EdgeId : edges[e].from = v}

Init ==
    /\ edges \in EdgeLists
    /\ data = [i \in Vertex |-> [j \in Vertex |-> NoRoute]]
    /\ phase = "init"
    /\ vertex = 0
    /\ todo = {}
    /\ cell = [through |-> 0, from |-> 0, to |-> 0]
    /\ query = [from |-> 0, to |-> 0]
    /\ chain = <<>>
    /\ cursor = NoEdge
    /\ answer = NoRoute

-----------------------------------------------------------------------------
(* InitializeRoutesInternalData *)

\* The head of the loop over the rows: the diagonal entry, then the edges.
EnterRow ==
    /\ phase = "init" /\ todo = {} /\ vertex < VertexCount
    /\ data' = [data EXCEPT ![vertex][vertex] = [weight |-> 0, prev_edge |-> NoEdge]]
    /\ todo' = IncidentEdges(vertex)
    /\ vertex' = vertex + 1
    /\ UNCHANGED <<edges, phase, cell, walk>>

\* Incident edges are read in the order of their ids.
NextEdge(e) == e \in todo /\ \A f \in todo : e <= f

Improves(w, entry) == entry = NoRoute \/ w < entry.weight

\* Mutant: of two parallel edges the later one is kept.
KeepLatest(row, e) ==
    [data EXCEPT ![row][edges[e].to] = [weight |-> edges[e].weight, prev_edge |-> e]]

KeepShorter(row, e) ==
    IF Improves(edges[e].weight, data[row][edges[e].to])
    THEN [data EXCEPT ![row][edges[e].to] =
              [weight |-> edges[e].weight, prev_edge |-> e]]
    ELSE data

\* Mutant: the sign of the weight is not looked at.
ScanEdgeUnchecked ==
    /\ phase = "init"
    /\ \E e \in todo :
         /\ NextEdge(e)
         /\ data' = KeepShorter(vertex - 1, e)
         /\ todo' = todo \ {e}
    /\ UNCHANGED <<edges, phase, vertex, cell, walk>>

ScanEdge ==
    /\ phase = "init"
    /\ \E e \in todo :
         /\ NextEdge(e)
         /\ edges[e].weight >= 0
         /\ data' = KeepShorter(vertex - 1, e)
         /\ todo' = todo \ {e}
    /\ UNCHANGED <<edges, phase, vertex, cell, walk>>

\* domain_error leaves the constructor: there is no router afterwards.
RejectNegativeEdge ==
    /\ phase = "init"
    /\ \E e \in todo : NextEdge(e) /\ edges[e].weight < 0
    /\ phase' = "error"
    /\ UNCHANGED <<table, walk>>

StartRelaxing ==
    /\ phase = "init" /\ todo = {} /\ vertex = VertexCount
    /\ phase' = "relax"
    /\ UNCHANGED <<table, walk>>

-----------------------------------------------------------------------------
(* RelaxRoutesInternalDataThroughVertex, for every vertex_through in turn *)

AfterRow(c) ==
    IF c.from + 1 < VertexCount
    THEN [c EXCEPT !.from = c.from + 1, !.to = 0]
    ELSE [through |-> c.through + 1, from |-> 0, to |-> 0]

AfterCell(c) ==
    IF c.to + 1 < VertexCount THEN [c EXCEPT !.to = c.to + 1] ELSE AfterRow(c)

\* Mutant: the last vertex is never routed through.
GoToShort(c) ==
    /\ cell' = c
    /\ phase' = IF c.through < VertexCount - 1 THEN "relax" ELSE "ready"
    /\ UNCHANGED <<edges, vertex, todo, walk>>

GoTo(c) ==
    /\ cell' = c
    /\ phase' = IF c.through < VertexCount THEN "relax" ELSE "ready"
    /\ UNCHANGED <<edges, vertex, todo, walk>>

RouteFrom == data[cell.from][cell.through]
RouteTo == data[cell.through][cell.to]

\* (Mutant: the predecessor is taken from the first leg.)
RelaxedFirstLeg(route_from, route_to, route_relaxing) ==
    IF Improves(route_from.weight + route_to.weight, route_relaxing)
    THEN [weight |-> route_from.weight + route_to.weight,
          prev_edge |-> IF route_from.prev_edge # NoEdge THEN route_from.prev_edge
                        ELSE route_to.prev_edge]
    ELSE route_relaxing

\* The body of RelaxRoute; both operands are the table's current entries.
Relaxed(route_from, route_to, route_relaxing) ==
    IF Improves(route_from.weight + route_to.weight, route_relaxing)
    THEN [weight |-> route_from.weight + route_to.weight,
          prev_edge |-> IF route_to.prev_edge # NoEdge THEN route_to.prev_edge
                        ELSE route_from.prev_edge]
    ELSE route_relaxing

\* The test of route_from, made once, before the loop over vertex_to.
SkipRow ==
    /\ phase = "relax" /\ cell.to = 0 /\ RouteFrom = NoRoute
    /\ data' = data
    /\ GoTo(AfterRow(cell))

RelaxRoute ==
    /\ phase = "relax" /\ RouteFrom # NoRoute /\ RouteTo # NoRoute
    /\ data' = [data EXCEPT ![cell.from][cell.to] =
                    Relaxed(RouteFrom, RouteTo, data[cell.from][cell.to])]
    /\ GoTo(AfterCell(cell))

SkipCell ==
    /\ phase = "relax" /\ RouteFrom # NoRoute /\ RouteTo = NoRoute
    /\ data' = data
    /\ GoTo(AfterCell(cell))

-----------------------------------------------------------------------------
(* BuildRoute *)

Ask(i, j) ==
    /\ phase \in {"ready", "answered"}
    /\ query' = [from |-> i, to |-> j]
    /\ chain' = <<>>
    /\ answer' = NoRoute
    /\ IF data[i][j] = NoRoute
       THEN phase' = "answered" /\ cursor' = NoEdge
       ELSE phase' = "walk" /\ cursor' = data[i][j].prev_edge
    /\ UNCHANGED table

\* (Mutants: the row or the end of the edge is mistaken.)
HopEntryTransposed == data[edges[cursor].from][query.from]
HopEntryHead == data[query.from][edges[cursor].to]

\* The entry the loop's last clause dereferences without a test: were it
\* missing the behaviour would be undefined, which HopExists excludes.
HopEntry == data[query.from][edges[cursor].from]

\* Mutant: the edge is recorded after the cursor has moved on.
FollowEdgeLate ==
    /\ phase = "walk" /\ cursor # NoEdge
    /\ HopEntry # NoRoute
    /\ Len(chain) < MaxHops
    /\ chain' = IF HopEntry.prev_edge = NoEdge THEN chain
                ELSE Append(chain, HopEntry.prev_edge)
    /\ cursor' = HopEntry.prev_edge
    /\ UNCHANGED <<table, phase, query, answer>>

FollowEdge ==
    /\ phase = "walk" /\ cursor # NoEdge
    /\ HopEntry # NoRoute
    /\ Len(chain) < MaxHops
    /\ chain' = Append(chain, cursor)
    /\ cursor' = HopEntry.prev_edge
    /\ UNCHANGED <<table, phase, query, answer>>

\* Mutant: std::reverse is forgotten.
ReturnBackwards ==
    /\ phase = "walk" /\ cursor = NoEdge
    /\ phase' = "answered"
    /\ answer' = [weight |-> data[query.from][query.to].weight, edges |-> chain]
    /\ UNCHANGED <<table, query, chain, cursor>>

Return ==
    /\ phase = "walk" /\ cursor = NoEdge
    /\ phase' = "answered"
    /\ answer' = [weight |-> data[query.from][query.to].weight,
                  edges |-> Reverse(chain)]
    /\ UNCHANGED <<table, query, chain, cursor>>

-----------------------------------------------------------------------------

Construct ==
    \/ EnterRow \/ ScanEdge \/ RejectNegativeEdge \/ StartRelaxing
    \/ SkipRow \/ RelaxRoute \/ SkipCell

Walk == FollowEdge \/ Return

Next == Construct \/ Walk \/ \E i, j \in Vertex : Ask(i, j)

\* The thread that asks for a route runs BuildRoute to its end; nothing obliges
\* a caller to ask.
Spec == Init /\ [][Next]_vars /\ WF_vars(Walk)

-----------------------------------------------------------------------------
(* Properties *)

Built == phase \in {"ready", "walk", "answered"}

TypeOK ==
    /\ edges \in Seq(Edge)
    /\ data \in [Vertex -> [Vertex -> RouteInternalData \cup {NoRoute}]]
    /\ phase \in {"init", "relax", "ready", "walk", "answered", "error"}
    /\ vertex \in 0 .. VertexCount
    /\ todo \in SUBSET EdgeId
    /\ cell \in [through : 0 .. VertexCount, from : Vertex, to : Vertex]
    /\ phase = "relax" => cell.through < VertexCount
    /\ query \in [from : Vertex, to : Vertex]
    /\ chain \in Seq(EdgeId)
    /\ cursor \in EdgeId \cup {NoEdge}

\* D has a route from i to j that costs at most w.
Within(D, i, j, w) == D[i][j] # NoRoute /\ D[i][j].weight <= w

\* Every predecessor the table records is an edge that ends in that column,
\* and only the diagonal has none: what BuildRoute's loop lives on, and what
\* the choice of prev_edge at router.h:65 must keep.
PredecessorsFit ==
    \A i, j \in Vertex : data[i][j] # NoRoute =>
        LET e == data[i][j].prev_edge IN
        /\ (e = NoEdge) <=> (i = j)
        /\ e # NoEdge => e \in EdgeId /\ edges[e].to = j

\* The finished table carries the evidence that it is optimal: no edge and no
\* detour undercuts it, and every entry is reached exactly by the edge it
\* records.  It fails if a relaxation reads an entry the same round has
\* already spoiled, if a round is lost, or if prev_edge goes with another
\* weight.
OptimalityCertificate ==
    Built =>
        /\ \A i \in Vertex : data[i][i] = [weight |-> 0, prev_edge |-> NoEdge]
        /\ \A e \in EdgeId : Within(data, edges[e].from, edges[e].to, edges[e].weight)
        /\ \A i, k, j \in Vertex :
             data[i][k] # NoRoute /\ data[k][j] # NoRoute =>
                 Within(data, i, j, data[i][k].weight + data[k][j].weight)
        /\ \A i, j \in Vertex :
             data[i][j] # NoRoute /\ data[i][j].prev_edge # NoEdge =>
                 LET e == edges[data[i][j].prev_edge] IN
                 /\ data[i][e.from] # NoRoute
                 /\ data[i][j].weight = data[i][e.from].weight + e.weight

\* A router exists only for a graph without negative weights, wherever in
\* the edge list the negative one stands.
NoNegativeRouter == Built => \A e \in EdgeId : edges[e].weight >= 0

\* While one vertex is routed through, its row and its column keep their
\* values: RelaxRoute holds references into them (router.h:71, 73).
PivotStable ==
    [][phase = "relax" =>
         \A i \in Vertex :
             /\ data'[i][cell.through] = data[i][cell.through]
             /\ data'[cell.through][i] = data[cell.through][i]]_vars

\* A route that was found is never lost and never replaced by a worse one.
NeverWorse ==
    [][\A i, j \in Vertex :
         data[i][j] # NoRoute => Within(data', i, j, data[i][j].weight)]_vars

\* The unchecked dereference at router.h:120 always finds an entry.
HopExists == phase = "walk" /\ cursor # NoEdge => HopEntry # NoRoute

\* The itinerary under construction is connected, ends at the requested
\* vertex and continues from where the cursor's entry says.
ChainConnected ==
    phase = "walk" =>
        LET here == IF chain = <<>> THEN query.to ELSE edges[chain[Len(chain)]].from
        IN  /\ chain # <<>> => edges[chain[1]].to = query.to
            /\ \A n \in 1 .. Len(chain) - 1 :
                   edges[chain[n]].from = edges[chain[n + 1]].to
            /\ data[query.from][here] # NoRoute
            /\ cursor = data[query.from][here].prev_edge

\* Reference: what walks of no edge cost by the vertices they end at, and
\* what walks cost that have one edge more than others or are the same.
Standing(i) == [j \in Vertex |-> IF j = i THEN {0} ELSE {}]

Lengthened(costs) ==
    [j \in Vertex |-> costs[j] \cup
        UNION {{c + edges[e].weight : c \in costs[edges[e].from]} :
               e \in {f \in EdgeId : edges[f].to = j}}]

\* What the walks from i of at most n edges cost, for every n and j.
WalkCosts(i) ==
    LET costs[n \in Nat] == IF n = 0 THEN Standing(i) ELSE Lengthened(costs[n - 1])
    IN  costs

\* BuildRoute answers with the weight of a cheapest walk if there is a walk
\* and with nothing otherwise.
AnswersAreShortest ==
    phase = "answered" =>
        LET costs == WalkCosts(query.from)[VertexCount - 1][query.to] IN
        IF costs = {} THEN answer = NoRoute
        ELSE /\ answer # NoRoute
             /\ answer.weight \in costs
             /\ \A c \in costs : answer.weight <= c

\* The weights of the edges of an itinerary, added up in their order.
Cost(path) ==
    LET cost[n \in 0 .. Len(path)] ==
          IF n = 0 THEN 0 ELSE cost[n - 1] + edges[path[n]].weight
    IN  cost[Len(path)]

\* The vertices that an itinerary from i calls at.
Calls(i, path) == <<i>> \o [n \in 1 .. Len(path) |-> edges[path[n]].to]

\* The itinerary it returns is a path from the one vertex to the other, it
\* visits no vertex twice and its edges add up to the weight it reports, so
\* that the total time of a response is the sum of its items.
AnswersAddUp ==
    phase = "answered" /\ answer # NoRoute =>
        LET path == answer.edges
            calls == Calls(query.from, path)
        IN  /\ \A n \in 1 .. Len(path) : edges[path[n]].from = calls[n]
            /\ calls[Len(calls)] = query.to
            /\ \A m, n \in 1 .. Len(calls) : calls[m] = calls[n] => m = n
            /\ Cost(path) = answer.weight

\* Every route request is answered: the loop of BuildRoute leaves no cycle
\* of predecessors behind, zero-weight edges and all.
WalkEnds == phase = "walk" ~> phase = "answered"

-----------------------------------------------------------------------------
(* The inductive invariant behind OptimalityCertificate.  While vertex m is *)
(* routed through, part of the table is one round ahead of the rest; what   *)
(* does not change during the round is what an entry is worth once the      *)
(* detour over m is allowed for.                                            *)

\* There is a route, direct or over m, that costs at most w.
Via(D, m, i, j, w) ==
    \/ Within(D, i, j, w)
    \/ D[i][m] # NoRoute /\ D[m][j] # NoRoute /\ D[i][m].weight + D[m][j].weight <= w

\* The costs of the direct route and of the detour, where they exist.
Costs(D, m, i, j) ==
    (IF D[i][j] = NoRoute THEN {} ELSE {D[i][j].weight})
    \cup (IF D[i][m] = NoRoute \/ D[m][j] = NoRoute THEN {}
          ELSE {D[i][m].weight + D[m][j].weight})

RowsInv ==
    /\ phase = "init" => cell = [through |-> 0, from |-> 0, to |-> 0]
    /\ phase \notin {"init", "error"} => todo = {} /\ vertex = VertexCount
    /\ \A e \in todo : edges[e].from = vertex - 1

EntriesInv ==
    \A i, j \in Vertex :
        /\ i < vertex => data[i][i] = [weight |-> 0, prev_edge |-> NoEdge]
        /\ data[i][j] # NoRoute => i < vertex /\ data[i][j].weight >= 0

EdgesInv ==
    \A e \in EdgeId : edges[e].from < vertex /\ e \notin todo =>
        /\ edges[e].weight >= 0
        /\ Within(data, edges[e].from, edges[e].to, edges[e].weight)

\* Cells the round has passed allow for the detour already.
PassedCell(i, j) == i < cell.from \/ (i = cell.from /\ j < cell.to)

RoundInv ==
    phase = "relax" => \A i, j \in Vertex :
        PassedCell(i, j) /\ data[i][cell.through] # NoRoute /\ data[cell.through][j] # NoRoute =>
            Within(data, i, j, data[i][cell.through].weight + data[cell.through][j].weight)

\* No vertex below n offers a detour that undercuts what there is.
NoUndercut(D, m, n) ==
    \A k \in 0 .. n - 1 : \A i, j \in Vertex :
        \A x \in Costs(D, m, i, k), y \in Costs(D, m, k, j) : Via(D, m, i, j, x + y)

\* The same of a table that no round is at work on.
Triangle(D, n) ==
    \A k \in 0 .. n - 1 : \A i, j \in Vertex :
        D[i][k] # NoRoute /\ D[k][j] # NoRoute =>
            Within(D, i, j, D[i][k].weight + D[k][j].weight)

DetoursInv ==
    /\ phase = "relax" => NoUndercut(data, cell.through, cell.through)
    /\ Built => Triangle(data, VertexCount)

\* An entry is paid for by a route to the tail of its last edge.
LastEdgeInv ==
    \A i, j \in Vertex : data[i][j] # NoRoute /\ data[i][j].prev_edge # NoEdge =>
        LET e == edges[data[i][j].prev_edge]
            rest == data[i][j].weight - e.weight
        IN  IF phase = "relax" THEN Via(data, cell.through, i, e.from, rest)
            ELSE Within(data, i, e.from, rest)

RouterInv ==
    /\ TypeOK
    /\ RowsInv
    /\ EntriesInv
    /\ PredecessorsFit
    /\ EdgesInv
    /\ RoundInv
    /\ DetoursInv
    /\ LastEdgeInv
=============================================================================
