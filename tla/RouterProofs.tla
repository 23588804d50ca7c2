---------------------------- MODULE RouterProofs ----------------------------
(***************************************************************************)
(* Proofs about Router, for every graph and every size: the table is built *)
(* correctly, the predecessors in it never lead in a circle, BuildRoute    *)
(* never dereferences a missing entry, and its answers are shortest walks  *)
(* whose edges add up.                                                     *)
(***************************************************************************)
EXTENDS Router, FiniteSetTheorems, WellFoundedInduction, TLAPS

Table == [Vertex -> [Vertex -> RouteInternalData \cup {NoRoute}]]

\* A table entry is written by two nested EXCEPTs: what the others read.
Put(D, p, q, r) == [D EXCEPT ![p][q] = r]

\* A table with one entry replaced.
LEMMA PutEntry ==
    ASSUME NEW D \in Table, NEW p \in Vertex, NEW q \in Vertex,
           NEW r \in RouteInternalData \cup {NoRoute}
    PROVE  /\ Put(D, p, q, r) \in Table
           /\ \A i, j \in Vertex :
                 Put(D, p, q, r)[i][j] = IF i = p /\ j = q THEN r ELSE D[i][j]
  BY DEF Table, Put

ZeroRoute == [weight |-> 0, prev_edge |-> NoEdge]

\* The diagonal's entry is a route.
LEMMA ZeroRouteType == /\ ZeroRoute \in RouteInternalData /\ ZeroRoute # NoRoute
                       /\ ZeroRoute.weight = 0 /\ ZeroRoute.prev_edge = NoEdge
  BY NoRouteAssumption DEF ZeroRoute, RouteInternalData, NoEdge

\* Facts about edges that every step uses.
LEMMA EdgeFields ==
    ASSUME edges \in Seq(Edge)
    PROVE  /\ Len(edges) \in Nat
           /\ \A e \in EdgeId : /\ e \in Nat \ {0}
                                /\ edges[e] \in Edge
                                /\ edges[e].from \in Vertex
                                /\ edges[e].to \in Vertex
                                /\ edges[e].weight \in Int
<1>1. Len(edges) \in Nat
  OBVIOUS
<1>2. \A e \in EdgeId : e \in Nat \ {0} /\ edges[e] \in Edge
  BY <1>1 DEF EdgeId
<1> QED
  BY <1>1, <1>2 DEF Edge

\* The constructor begins with an empty table.
LEMMA InitInv == Init => RouterInv
<1> SUFFICES ASSUME Init PROVE RouterInv
  OBVIOUS
<1> USE VertexCountAssumption DEF Init
<1>1. edges \in Seq(Edge) /\ 0 \in Vertex
  BY EdgeListsAssumption DEF Vertex
<1>2. data \in Table /\ \A i, j \in Vertex : data[i][j] = NoRoute
  BY DEF Table
<1>3. TypeOK
  BY <1>1, <1>2 DEF TypeOK, Table, NoEdge
<1>4. EdgesInv
  BY <1>1, EdgeFields DEF EdgesInv, Vertex
<1>5. RowsInv /\ EntriesInv /\ PredecessorsFit /\ RoundInv /\ DetoursInv /\ LastEdgeInv
  BY <1>2 DEF RowsInv, EntriesInv, PredecessorsFit, RoundInv, DetoursInv, LastEdgeInv, Built, Vertex
<1> QED
  BY <1>3, <1>4, <1>5 DEF RouterInv

\* A row is entered with its diagonal.
LEMMA EnterRowInv == RouterInv /\ EnterRow => RouterInv'
<1> SUFFICES ASSUME RouterInv, EnterRow PROVE RouterInv'
  OBVIOUS
<1>1. /\ TypeOK /\ data \in Table /\ vertex \in Vertex /\ phase = "init" /\ todo = {}
  BY VertexCountAssumption DEF RouterInv, EnterRow, TypeOK, Table, Vertex
<1>2. /\ data' \in Table
      /\ \A i, j \in Vertex :
             data'[i][j] = IF i = vertex /\ j = vertex THEN ZeroRoute ELSE data[i][j]
  <2>1. data' = Put(data, vertex, vertex, ZeroRoute)
    BY DEF EnterRow, ZeroRoute, Put
  <2> QED
    <3>1. ZeroRoute \in RouteInternalData \cup {NoRoute}
      BY ZeroRouteType
    <3> QED
      BY <1>1, <2>1, <3>1, PutEntry
<1>3. /\ vertex' = vertex + 1 /\ todo' = IncidentEdges(vertex) /\ EdgeId' = EdgeId
      /\ edges' = edges /\ phase' = "init" /\ todo' \subseteq EdgeId
      /\ UNCHANGED <<cell, query, chain, cursor>>
  BY <1>1 DEF EnterRow, IncidentEdges, EdgeId, walk
<1>4. \A i, j \in Vertex : i >= vertex => data[i][j] = NoRoute
  BY <1>1 DEF RouterInv, EntriesInv, Vertex
<1>5. TypeOK'
  BY <1>1, <1>2, <1>3, VertexCountAssumption DEF TypeOK, Table, Vertex
<1>6. RowsInv'
  BY <1>1, <1>3 DEF RouterInv, RowsInv, IncidentEdges, Vertex
<1>7. EntriesInv'
  BY <1>1, <1>2, <1>3, ZeroRouteType DEF ZeroRoute, RouterInv, EntriesInv, Vertex
<1>8. PredecessorsFit'
  BY <1>1, <1>2, <1>3, ZeroRouteType DEF RouterInv, PredecessorsFit
<1>9. EdgesInv'
  <2>1. ASSUME NEW e \in EdgeId, edges[e].from < vertex', e \notin todo'
        PROVE  edges[e].weight >= 0 /\ Within(data', edges[e].from, edges[e].to, edges[e].weight)
    <3>1. edges[e].from \in Vertex /\ edges[e].to \in Vertex
      BY <1>1, EdgeFields DEF TypeOK
    <3>2. edges[e].from < vertex
      BY <2>1, <3>1, <1>1, <1>3 DEF IncidentEdges, Vertex
    <3>3. edges[e].weight >= 0 /\ Within(data, edges[e].from, edges[e].to, edges[e].weight)
      BY <3>2, <1>1 DEF RouterInv, EdgesInv
    <3> QED
      BY <3>1, <3>2, <3>3, <1>2, <1>1 DEF Within, Vertex
  <2> QED
    BY <2>1, <1>3 DEF EdgesInv
<1>10. RoundInv' /\ DetoursInv'
  BY <1>3 DEF RoundInv, DetoursInv, Built
<1>11. LastEdgeInv'
  <2>1. ASSUME NEW i \in Vertex, NEW j \in Vertex,
               data'[i][j] # NoRoute, data'[i][j].prev_edge # NoEdge
        PROVE  Within(data', i, edges[data'[i][j].prev_edge].from,
                      data'[i][j].weight - edges[data'[i][j].prev_edge].weight)
    <3>1. data'[i][j] = data[i][j] /\ i < vertex
      BY <2>1, <1>1, <1>2, <1>4, ZeroRouteType DEF Vertex
    <3>2. data[i][j].prev_edge \in EdgeId
      BY <2>1, <3>1 DEF RouterInv, PredecessorsFit
    <3>3. Within(data, i, edges[data[i][j].prev_edge].from,
                      data[i][j].weight - edges[data[i][j].prev_edge].weight)
      BY <2>1, <3>1, <1>1 DEF RouterInv, LastEdgeInv
    <3>4. edges[data[i][j].prev_edge].from \in Vertex
      BY <3>2, <1>1, EdgeFields DEF TypeOK
    <3> QED
      BY <3>1, <3>3, <3>4, <1>1, <1>2 DEF Within, Vertex
  <2> QED
    BY <2>1, <1>3 DEF LastEdgeInv
<1> QED
  BY <1>5, <1>6, <1>7, <1>8, <1>9, <1>10, <1>11 DEF RouterInv

\* An edge enters its row if it improves what is there.
LEMMA ScanEdgeInv == RouterInv /\ ScanEdge => RouterInv'
<1> SUFFICES ASSUME RouterInv, ScanEdge PROVE RouterInv'
  OBVIOUS
<1>1. /\ TypeOK /\ data \in Table /\ phase = "init" /\ edges \in Seq(Edge)
      /\ vertex \in 0 .. VertexCount
  BY DEF RouterInv, ScanEdge, TypeOK, Table
<1>2. PICK e \in todo : /\ NextEdge(e) /\ edges[e].weight >= 0
                         /\ data' = KeepShorter(vertex - 1, e) /\ todo' = todo \ {e}
  BY DEF ScanEdge
<1> DEFINE row == vertex - 1
           to == edges[e].to
           w == edges[e].weight
           new == [weight |-> w, prev_edge |-> e]
<1>3. /\ e \in EdgeId /\ e \in Nat \ {0} /\ row \in Vertex /\ to \in Vertex /\ w \in Int
      /\ edges[e].from = row /\ w >= 0
  BY <1>1, <1>2, EdgeFields DEF TypeOK, RouterInv, RowsInv
<1>4. /\ EdgeId' = EdgeId /\ edges' = edges /\ phase' = "init" /\ vertex' = vertex
      /\ UNCHANGED <<cell, query, chain, cursor>>
  BY <1>1 DEF ScanEdge, EdgeId, walk
<1>5. /\ new \in RouteInternalData /\ new # NoRoute /\ new.weight = w /\ new.prev_edge = e
  BY <1>3, NoRouteAssumption DEF RouteInternalData
<1>6. \A i, j \in Vertex : data[i][j] # NoRoute =>
          data[i][j] \in RouteInternalData /\ data[i][j].weight \in Int /\ data[i][j].weight >= 0
  BY <1>1 DEF RouterInv, EntriesInv, Table, RouteInternalData
<1>7. /\ data' \in Table
      /\ \A i, j \in Vertex :
            data'[i][j] = IF i = row /\ j = to /\ Improves(w, data[row][to]) THEN new ELSE data[i][j]
  <2>1. CASE Improves(w, data[row][to])
    <3>1. data' = Put(data, row, to, new)
      BY <1>2, <2>1 DEF KeepShorter, Put
    <3>2. new \in RouteInternalData \cup {NoRoute}
      BY <1>5
    <3>3. row \in Vertex /\ to \in Vertex
      BY <1>3
    <3> HIDE DEF row, to, new, w
    <3>4. /\ Put(data, row, to, new) \in Table
          /\ \A i, j \in Vertex :
                Put(data, row, to, new)[i][j] = IF i = row /\ j = to THEN new ELSE data[i][j]
      BY <1>1, <3>2, <3>3, PutEntry
    <3> QED
      BY <2>1, <3>1, <3>4
  <2>2. CASE ~Improves(w, data[row][to])
    BY <1>1, <1>2, <2>2 DEF KeepShorter
  <2> QED
    BY <2>1, <2>2
<1>8. row < vertex /\ data[row][row] = ZeroRoute
  BY <1>1, <1>3 DEF RouterInv, EntriesInv, ZeroRoute, Vertex
<1>9. to = row => ~Improves(w, data[row][to])
  BY <1>3, <1>8, ZeroRouteType DEF Improves
<1> HIDE DEF row, to, w, new
<1>10. \A i, j \in Vertex, x \in Int : Within(data, i, j, x) => Within(data', i, j, x)
  BY <1>3, <1>5, <1>6, <1>7 DEF Within, Improves
<1>11. TypeOK'
  BY <1>1, <1>2, <1>4, <1>7 DEF TypeOK, Table
<1>12. RowsInv'
  BY <1>1, <1>2, <1>4 DEF RouterInv, RowsInv
<1>13. EntriesInv'
  BY <1>3, <1>4, <1>5, <1>7, <1>8, <1>9 DEF RouterInv, EntriesInv, ZeroRoute
<1>14. PredecessorsFit'
  <2>1. edges[e].to = to
    BY DEF to
  <2> QED
    BY <1>3, <1>4, <1>5, <1>7, <1>9, <2>1 DEF RouterInv, PredecessorsFit, NoEdge
<1>15. EdgesInv'
  <2>1. ASSUME NEW f \in EdgeId, edges[f].from < vertex, f \notin todo'
        PROVE  edges[f].weight >= 0 /\ Within(data', edges[f].from, edges[f].to, edges[f].weight)
    <3>1. edges[f].from \in Vertex /\ edges[f].to \in Vertex /\ edges[f].weight \in Int
      BY <1>1, EdgeFields
    <3>2. CASE f = e
      <4>1. edges[f].to = to /\ edges[f].weight = w /\ edges[f].from = row
        BY <3>2, <1>3 DEF to, w
      <4> QED
        BY <4>1, <1>3, <1>5, <1>6, <1>7 DEF Within, Improves
    <3>3. CASE f # e
      BY <3>1, <3>3, <2>1, <1>2, <1>10 DEF RouterInv, EdgesInv
    <3> QED
      BY <3>2, <3>3
  <2> QED
    BY <2>1, <1>4 DEF EdgesInv
<1>16. RoundInv' /\ DetoursInv'
  BY <1>4 DEF RoundInv, DetoursInv, Built
<1>17. LastEdgeInv'
  <2>1. ASSUME NEW i \in Vertex, NEW j \in Vertex,
               data'[i][j] # NoRoute, data'[i][j].prev_edge # NoEdge
        PROVE  Within(data', i, edges[data'[i][j].prev_edge].from,
                      data'[i][j].weight - edges[data'[i][j].prev_edge].weight)
    <3>1. CASE i = row /\ j = to /\ Improves(w, data[row][to])
      <4>1. data'[i][j].prev_edge = e /\ data'[i][j].weight = w
        BY <3>1, <1>3, <1>5, <1>7
      <4>2. edges[e].from = row /\ edges[e].weight = w
        BY <1>3 DEF w
      <4>3. Within(data, row, row, 0)
        BY <1>8, ZeroRouteType DEF Within
      <4>4. w - w = 0
        BY <1>3
      <4> QED
        BY <3>1, <4>1, <4>2, <4>3, <4>4, <1>3, <1>10
    <3>2. CASE ~(i = row /\ j = to /\ Improves(w, data[row][to]))
      <4>1. data'[i][j] = data[i][j]
        BY <3>2, <1>7
      <4>2. data[i][j].prev_edge \in EdgeId
        BY <2>1, <4>1 DEF RouterInv, PredecessorsFit
      <4>3. /\ edges[data[i][j].prev_edge].from \in Vertex
            /\ data[i][j].weight - edges[data[i][j].prev_edge].weight \in Int
        BY <4>1, <4>2, <2>1, <1>1, <1>6, EdgeFields
      <4>4. Within(data, i, edges[data[i][j].prev_edge].from,
                   data[i][j].weight - edges[data[i][j].prev_edge].weight)
        BY <4>1, <2>1, <1>1 DEF RouterInv, LastEdgeInv
      <4> QED
        BY <4>1, <4>3, <4>4, <1>10
    <3> QED
      BY <3>1, <3>2
  <2> QED
    BY <2>1, <1>4 DEF LastEdgeInv
<1> QED
  BY <1>11, <1>12, <1>13, <1>14, <1>15, <1>16, <1>17 DEF RouterInv

\* A negative weight ends the construction.
LEMMA RejectInv == RouterInv /\ RejectNegativeEdge => RouterInv'
<1> SUFFICES ASSUME RouterInv, RejectNegativeEdge PROVE RouterInv'
  OBVIOUS
<1>1. phase = "init" /\ phase' = "error" /\ UNCHANGED <<edges, data, vertex, todo, cell, walk>> /\ EdgeId' = EdgeId
  BY DEF RejectNegativeEdge, table, EdgeId
<1>2. TypeOK' /\ RowsInv' /\ EntriesInv' /\ PredecessorsFit' /\ EdgesInv'
  BY <1>1 DEF RouterInv, TypeOK, RowsInv, EntriesInv, PredecessorsFit, EdgesInv, Within, walk
<1>3. RoundInv' /\ DetoursInv' /\ LastEdgeInv'
  BY <1>1 DEF RouterInv, RoundInv, DetoursInv, LastEdgeInv, Within, Built
<1> QED
  BY <1>2, <1>3 DEF RouterInv

-----------------------------------------------------------------------------
(* Tables in the course of a round: D is a table, m the vertex routed through. *)

Nonnegative(D) ==
    \A i, j \in Vertex : D[i][j] # NoRoute =>
        /\ D[i][j].weight \in Int /\ D[i][j].weight >= 0
        /\ D[i][j].prev_edge \in Nat

ZeroDiagonal(D) == \A i \in Vertex : D[i][i] = ZeroRoute

Covered(D, m, i, j) ==
    D[i][m] # NoRoute /\ D[m][j] # NoRoute => Within(D, i, j, D[i][m].weight + D[m][j].weight)

\* Via says in terms of a bound what Costs says in terms of values.
LEMMA ViaCosts ==
    ASSUME NEW D \in Table, Nonnegative(D), NEW m \in Vertex, NEW i \in Vertex, NEW j \in Vertex
    PROVE  /\ Costs(D, m, i, j) \subseteq Int
           /\ \A c \in Costs(D, m, i, j) : c >= 0 /\ Via(D, m, i, j, c)
           /\ \A w \in Int : Via(D, m, i, j, w) <=> \E c \in Costs(D, m, i, j) : c <= w
  BY DEF Nonnegative, Costs, Via, Within

\* Once every cell is covered the round has nothing more to offer.
LEMMA RoundOver ==
    ASSUME NEW D \in Table, Nonnegative(D), NEW m \in Vertex,
           \A i, j \in Vertex : Covered(D, m, i, j)
    PROVE  \A i, j \in Vertex, w \in Int : Via(D, m, i, j, w) => Within(D, i, j, w)
  BY DEF Nonnegative, Covered, Via, Within

\* When every pair is covered by the detour through m, no detour through m or
\* a vertex below it undercuts what there is.
LEMMA TriangleGrows ==
    ASSUME NEW D \in Table, Nonnegative(D), NEW m \in Vertex,
           \A i, j \in Vertex : Covered(D, m, i, j),
           NoUndercut(D, m, m)
    PROVE  Triangle(D, m + 1)
<1>1. SUFFICES ASSUME NEW k \in 0 .. m, NEW i \in Vertex, NEW j \in Vertex,
                      D[i][k] # NoRoute, D[k][j] # NoRoute
               PROVE  Within(D, i, j, D[i][k].weight + D[k][j].weight)
  BY DEF Triangle, Vertex
<1>2. CASE k = m
  BY <1>1, <1>2 DEF Covered
<1>3. CASE k # m
  <2>1. k \in 0 .. m - 1 /\ k \in Vertex
    BY <1>3, VertexCountAssumption DEF Vertex
  <2>2. D[i][k].weight \in Costs(D, m, i, k) /\ D[k][j].weight \in Costs(D, m, k, j)
    BY <1>1 DEF Costs
  <2>3. Via(D, m, i, j, D[i][k].weight + D[k][j].weight)
    BY <2>1, <2>2 DEF NoUndercut
  <2>4. D[i][k].weight + D[k][j].weight \in Int
    BY <1>1, <2>1 DEF Nonnegative
  <2> QED
    BY <2>3, <2>4, RoundOver
<1> QED
  BY <1>2, <1>3

\* Allowing for detours over one more vertex keeps the triangle property of
\* the vertices before it: the four ways to put two such routes together.
LEMMA TriangleNextRound ==
    ASSUME NEW D \in Table, Nonnegative(D), NEW n \in 0 .. VertexCount, NEW t \in Vertex,
           Triangle(D, n)
    PROVE  NoUndercut(D, t, n)
<1> SUFFICES ASSUME NEW k \in 0 .. n - 1, NEW i \in Vertex, NEW j \in Vertex,
                    NEW x \in Costs(D, t, i, k), NEW y \in Costs(D, t, k, j)
             PROVE  Via(D, t, i, j, x + y)
  BY DEF NoUndercut
<1>1. k \in Vertex
  BY VertexCountAssumption DEF Vertex
<1>2. \A a, b \in Vertex : D[a][k] # NoRoute /\ D[k][b] # NoRoute =>
          Within(D, a, b, D[a][k].weight + D[k][b].weight)
  BY DEF Triangle
<1>3. x \in Int /\ y \in Int /\ x >= 0 /\ y >= 0
  BY <1>1, ViaCosts
<1>4. CASE D[i][k] # NoRoute /\ x = D[i][k].weight /\ D[k][j] # NoRoute /\ y = D[k][j].weight
  BY <1>2, <1>4 DEF Via
<1>5. CASE /\ D[i][k] # NoRoute /\ x = D[i][k].weight
           /\ D[k][t] # NoRoute /\ D[t][j] # NoRoute /\ y = D[k][t].weight + D[t][j].weight
  <2>1. Within(D, i, t, D[i][k].weight + D[k][t].weight)
    BY <1>2, <1>5
  <2> QED
    BY <1>1, <1>5, <2>1 DEF Via, Within, Nonnegative
<1>6. CASE /\ D[i][t] # NoRoute /\ D[t][k] # NoRoute /\ x = D[i][t].weight + D[t][k].weight
           /\ D[k][j] # NoRoute /\ y = D[k][j].weight
  <2>1. Within(D, t, j, D[t][k].weight + D[k][j].weight)
    BY <1>2, <1>6
  <2> QED
    BY <1>1, <1>6, <2>1 DEF Via, Within, Nonnegative
<1>7. CASE /\ D[i][t] # NoRoute /\ D[t][k] # NoRoute /\ x = D[i][t].weight + D[t][k].weight
           /\ D[k][t] # NoRoute /\ D[t][j] # NoRoute /\ y = D[k][t].weight + D[t][j].weight
  BY <1>1, <1>7 DEF Via, Nonnegative
<1> QED
  BY <1>4, <1>5, <1>6, <1>7 DEF Costs

\* One relaxation: what it writes, and that it changes neither the row and
\* the column of m nor what any pair can be had for via m.
RelaxedAt(D, m, p, q) == Put(D, p, q, Relaxed(D[p][m], D[m][q], D[p][q]))

\* RelaxRoute on a table: at most one entry changes, off the pivot's row and
\* column, for the better, and takes over the predecessor of the second leg.
LEMMA RelaxedTable ==
    ASSUME NEW D \in Table, Nonnegative(D), ZeroDiagonal(D),
           \A i, j \in Vertex : D[i][j] # NoRoute => (D[i][j].prev_edge = NoEdge <=> i = j),
           NEW m \in Vertex, NEW p \in Vertex, NEW q \in Vertex,
           D[p][m] # NoRoute, D[m][q] # NoRoute,
           NEW E, E = RelaxedAt(D, m, p, q)
    PROVE  /\ E \in Table /\ Nonnegative(E) /\ ZeroDiagonal(E)
           /\ \A i, j \in Vertex :
                 \/ E[i][j] = D[i][j]
                 \/ /\ i = p /\ j = q /\ i # j /\ q # m
                    /\ E[i][j] # NoRoute
                    /\ E[i][j].weight = D[p][m].weight + D[m][q].weight
                    /\ E[i][j].prev_edge = D[m][q].prev_edge
                    /\ D[m][q].prev_edge # NoEdge
                    /\ Improves(E[i][j].weight, D[i][j])
           /\ Covered(E, m, p, q)
           /\ \A i \in Vertex : E[i][m] = D[i][m] /\ E[m][i] = D[m][i]
           /\ \A i, j \in Vertex, w \in Int : Within(D, i, j, w) => Within(E, i, j, w)
           /\ \A i, j \in Vertex, w \in Int : Via(E, m, i, j, w) <=> Via(D, m, i, j, w)
<1> DEFINE sum == D[p][m].weight + D[m][q].weight
           r == Relaxed(D[p][m], D[m][q], D[p][q])
<1>1. sum \in Int /\ sum >= 0 /\ D[p][m].weight >= 0 /\ D[m][q].weight >= 0
      /\ D[p][m].weight \in Int /\ D[m][q].weight \in Int
      /\ D[p][m].prev_edge \in Nat /\ D[m][q].prev_edge \in Nat
  BY DEF Nonnegative
<1>2. \A i \in Vertex : D[i][i] # NoRoute /\ D[i][i].weight = 0
  BY ZeroRouteType DEF ZeroDiagonal
<1>3. D[p][q] # NoRoute => D[p][q] \in RouteInternalData /\ D[p][q].weight \in Int
  BY DEF Table, RouteInternalData
<1>4. (p = m \/ q = m \/ p = q) => ~Improves(sum, D[p][q])
  <2>1. CASE p = m
    BY <2>1, <1>1, <1>2 DEF Improves
  <2>2. CASE q = m
    BY <2>2, <1>1, <1>2 DEF Improves
  <2>3. CASE p = q
    BY <2>3, <1>1, <1>2 DEF Improves
  <2> QED
    BY <2>1, <2>2, <2>3
<1>5. Improves(sum, D[p][q]) => D[m][q].prev_edge # NoEdge
  BY <1>4
<1>6. CASE ~Improves(sum, D[p][q])
  <2>1. r = D[p][q] /\ D[p][q] # NoRoute
    BY <1>6 DEF Relaxed, Improves
  <2>2. r \in RouteInternalData \cup {NoRoute}
    BY <2>1, <1>3
  <2> HIDE DEF r
  <2>3. E \in Table /\ \A i, j \in Vertex : E[i][j] = D[i][j]
    <3>1. E = Put(D, p, q, r)
      BY DEF r, RelaxedAt
    <3>2. /\ Put(D, p, q, r) \in Table
          /\ \A i, j \in Vertex : Put(D, p, q, r)[i][j] = IF i = p /\ j = q THEN r ELSE D[i][j]
      BY <2>2, PutEntry
    <3> QED
      BY <2>1, <3>1, <3>2
  <2>4. Covered(E, m, p, q)
    BY <1>1, <1>3, <1>6, <2>3 DEF Covered, Within, Improves
  <2>5. Nonnegative(E) /\ ZeroDiagonal(E)
    BY <2>3 DEF Nonnegative, ZeroDiagonal
  <2>6. \A i, j \in Vertex, w \in Int : Via(E, m, i, j, w) <=> Via(D, m, i, j, w)
    BY <2>3 DEF Via, Within
  <2>7. \A i, j \in Vertex, w \in Int : Within(D, i, j, w) => Within(E, i, j, w)
    BY <2>3 DEF Within
  <2> QED
    BY <2>3, <2>4, <2>5, <2>6, <2>7
<1>7. CASE Improves(sum, D[p][q])
  <2>1. r = [weight |-> sum, prev_edge |-> D[m][q].prev_edge]
    BY <1>5, <1>7 DEF Relaxed
  <2>2. r \in RouteInternalData /\ r # NoRoute /\ r.weight = sum /\ r.prev_edge = D[m][q].prev_edge
    BY <1>1, <2>1, NoRouteAssumption DEF RouteInternalData
  <2> HIDE DEF r, sum
  <2>3. E \in Table /\ \A i, j \in Vertex : E[i][j] = IF i = p /\ j = q THEN r ELSE D[i][j]
    <3>1. E = Put(D, p, q, r)
      BY DEF r, RelaxedAt
    <3>2. r \in RouteInternalData \cup {NoRoute}
      BY <2>2
    <3>3. /\ Put(D, p, q, r) \in Table
          /\ \A i, j \in Vertex : Put(D, p, q, r)[i][j] = IF i = p /\ j = q THEN r ELSE D[i][j]
      BY <3>2, PutEntry
    <3> QED
      BY <3>1, <3>3
  <2>4. p # m /\ q # m /\ p # q
    BY <1>4, <1>7
  <2>5. \A i \in Vertex : E[i][m] = D[i][m] /\ E[m][i] = D[m][i]
    BY <2>3, <2>4
  <2>6. Covered(E, m, p, q)
    BY <1>1, <2>2, <2>3, <2>5 DEF Covered, Within, sum
  <2>7. Nonnegative(E) /\ ZeroDiagonal(E)
    BY <1>1, <2>2, <2>3, <2>4 DEF Nonnegative, ZeroDiagonal
  <2>8. \A i, j \in Vertex, w \in Int : Within(D, i, j, w) => Within(E, i, j, w)
    BY <1>1, <1>3, <1>7, <2>2, <2>3 DEF Within, Improves
  <2>9. \A w \in Int : Within(E, p, q, w) => Via(D, m, p, q, w)
    BY <2>2, <2>3 DEF Via, Within, sum
  <2>10. \A i, j \in Vertex, w \in Int : ~(i = p /\ j = q) => (Within(E, i, j, w) <=> Within(D, i, j, w))
    BY <2>3 DEF Within
  <2>11. \A i, j \in Vertex, w \in Int : Via(E, m, i, j, w) <=> Via(D, m, i, j, w)
    BY <2>5, <2>8, <2>9, <2>10 DEF Via
  <2>12. \A i, j \in Vertex :
                 \/ E[i][j] = D[i][j]
                 \/ /\ i = p /\ j = q /\ i # j /\ q # m
                    /\ E[i][j] # NoRoute
                    /\ E[i][j].weight = D[p][m].weight + D[m][q].weight
                    /\ E[i][j].prev_edge = D[m][q].prev_edge
                    /\ D[m][q].prev_edge # NoEdge
                    /\ Improves(E[i][j].weight, D[i][j])
    BY <1>5, <1>7, <2>2, <2>3, <2>4 DEF sum
  <2> QED
    BY <2>3, <2>5, <2>6, <2>7, <2>8, <2>11, <2>12
<1> QED
  BY <1>6, <1>7

-----------------------------------------------------------------------------
(* The steps of a round *)

\* What RouterInv says of the table while a round is on.
LEMMA InRound ==
    ASSUME RouterInv, phase = "relax"
    PROVE  /\ cell.through \in Vertex /\ cell.from \in Vertex /\ cell.to \in Vertex
           /\ edges \in Seq(Edge) /\ vertex = VertexCount /\ todo = {}
           /\ data \in Table /\ Nonnegative(data) /\ ZeroDiagonal(data)
           /\ NoUndercut(data, cell.through, cell.through)
           /\ \A i, j \in Vertex : PassedCell(i, j) => Covered(data, cell.through, i, j)
<1>1. /\ cell.through \in Vertex /\ cell.from \in Vertex /\ cell.to \in Vertex
      /\ edges \in Seq(Edge) /\ vertex = VertexCount /\ todo = {} /\ data \in Table
  BY VertexCountAssumption DEF RouterInv, TypeOK, RowsInv, Table, Vertex
<1>2. \A i \in Vertex : i < VertexCount
  BY VertexCountAssumption DEF Vertex
<1>3. Nonnegative(data)
  BY <1>1 DEF Nonnegative, RouterInv, EntriesInv, Table, RouteInternalData
<1>4. ZeroDiagonal(data)
  BY <1>1, <1>2 DEF ZeroDiagonal, RouterInv, EntriesInv, ZeroRoute
<1>5. NoUndercut(data, cell.through, cell.through)
  BY DEF RouterInv, DetoursInv
<1>6. \A i, j \in Vertex : PassedCell(i, j) => Covered(data, cell.through, i, j)
  BY DEF RouterInv, RoundInv, Covered
<1> QED
  BY <1>1, <1>3, <1>4, <1>5, <1>6

\* Cells behind cell c of the loops, seen from the round of cell.through.
Behind(c, i, j) == c.through # cell.through \/ i < c.from \/ (i = c.from /\ j < c.to)

CellType == [through : 0 .. VertexCount, from : Vertex, to : Vertex]

\* The loop moves on to cell c, perhaps of the next round.
LEMMA RoundStep ==
    ASSUME RouterInv, phase = "relax",
           data' \in Table, Nonnegative(data'), ZeroDiagonal(data'),
           \A i, j \in Vertex : data'[i][j] # NoRoute =>
               /\ data'[i][j].prev_edge = NoEdge <=> i = j
               /\ data'[i][j].prev_edge # NoEdge =>
                      /\ data'[i][j].prev_edge \in EdgeId
                      /\ edges[data'[i][j].prev_edge].to = j
                      /\ Via(data', cell.through, i, edges[data'[i][j].prev_edge].from,
                             data'[i][j].weight - edges[data'[i][j].prev_edge].weight),
           \A i, j \in Vertex, w \in Int : Within(data, i, j, w) => Within(data', i, j, w),
           NoUndercut(data', cell.through, cell.through),
           NEW c \in CellType,
           c.through = cell.through \/ (c.through = cell.through + 1 /\ c.from = 0 /\ c.to = 0),
           \A i, j \in Vertex : Behind(c, i, j) => Covered(data', cell.through, i, j),
           GoTo(c)
    PROVE  RouterInv'
<1> USE DEF CellType, Behind
<1> DEFINE m == cell.through
<1>1. /\ m \in Vertex /\ edges \in Seq(Edge) /\ vertex = VertexCount /\ todo = {}
  BY InRound
<1>2. /\ edges' = edges /\ vertex' = VertexCount /\ todo' = {} /\ EdgeId' = EdgeId
      /\ cell' = c /\ UNCHANGED <<query, chain, cursor>>
      /\ phase' = IF c.through < VertexCount THEN "relax" ELSE "ready"
  BY <1>1 DEF GoTo, walk, EdgeId
<1>3. m \in Nat /\ m < VertexCount /\ VertexCount \in Nat /\ c.through \in Nat /\ c.through <= VertexCount
  BY <1>1, VertexCountAssumption DEF Vertex
<1>4. TypeOK'
  <2>1. TypeOK
    BY DEF RouterInv
  <2> QED
    BY <1>1, <1>2, <1>3, <2>1 DEF TypeOK, Table
<1>5. RowsInv'
  BY <1>2 DEF RowsInv
<1>6. \A i \in Vertex : i < VertexCount /\ i >= 0
  BY VertexCountAssumption DEF Vertex
<1>7. EntriesInv'
  BY <1>2, <1>6 DEF EntriesInv, ZeroDiagonal, Nonnegative, ZeroRoute
<1>8. PredecessorsFit'
  BY <1>2 DEF PredecessorsFit
<1>9. EdgesInv'
  <2>1. ASSUME NEW e \in EdgeId
        PROVE  edges[e].weight >= 0 /\ Within(data', edges[e].from, edges[e].to, edges[e].weight)
    <3>1. edges[e].from \in Vertex /\ edges[e].to \in Vertex /\ edges[e].weight \in Int
      BY <1>1, EdgeFields
    <3>2. edges[e].weight >= 0 /\ Within(data, edges[e].from, edges[e].to, edges[e].weight)
      BY <3>1, <1>1, <1>6 DEF RouterInv, EdgesInv
    <3> QED
      BY <3>1, <3>2
  <2> QED
    BY <2>1, <1>2 DEF EdgesInv
<1>10. RoundInv'
  <2>1. ASSUME phase' = "relax", NEW i \in Vertex, NEW j \in Vertex, PassedCell(i, j)'
        PROVE  Covered(data', c.through, i, j)
    <3>1. i < c.from \/ (i = c.from /\ j < c.to)
      BY <2>1, <1>2 DEF PassedCell
    <3>2. c.through = cell.through
      BY <3>1, <1>6, VertexCountAssumption DEF Vertex
    <3> QED
      BY <3>1, <3>2
  <2> QED
    BY <2>1, <1>2 DEF RoundInv, Covered
<1>11. c.through # m => /\ \A i, j \in Vertex : Covered(data', m, i, j)
                        /\ Triangle(data', m + 1)
                        /\ c.through = m + 1
  BY <1>1, TriangleGrows
<1>12. DetoursInv'
  <2>1. ASSUME phase' = "relax" PROVE NoUndercut(data', c.through, c.through)
    <3>1. CASE c.through = m
      BY <3>1
    <3>2. CASE c.through # m
      <4>1. c.through \in Vertex /\ c.through \in 0 .. VertexCount
        BY <1>2, <1>3, <2>1 DEF Vertex
      <4>2. Triangle(data', c.through)
        BY <1>11, <3>2
      <4> QED
        BY <4>1, <4>2, TriangleNextRound
    <3> QED
      BY <3>1, <3>2
  <2>2. ASSUME Built' PROVE Triangle(data', VertexCount)
    <3>1. c.through = VertexCount
      BY <1>2, <1>3, <2>2 DEF Built
    <3>2. VertexCount = m + 1
      BY <1>3, <3>1
    <3> QED
      BY <1>3, <1>11, <3>1, <3>2
  <2> QED
    BY <2>1, <2>2, <1>2 DEF DetoursInv
<1>13. LastEdgeInv'
  <2>1. ASSUME NEW i \in Vertex, NEW j \in Vertex,
               data'[i][j] # NoRoute, data'[i][j].prev_edge # NoEdge
        PROVE  LET e == edges[data'[i][j].prev_edge]
                   rest == data'[i][j].weight - e.weight
               IN  IF phase' = "relax" THEN Via(data', c.through, i, e.from, rest)
                   ELSE Within(data', i, e.from, rest)
    <3> DEFINE e == edges[data'[i][j].prev_edge]
               rest == data'[i][j].weight - e.weight
    <3>1. /\ data'[i][j].prev_edge \in EdgeId
          /\ Via(data', m, i, e.from, rest)
      BY <2>1
    <3>2. e.from \in Vertex /\ rest \in Int
      BY <3>1, <2>1, <1>1, EdgeFields DEF Nonnegative
    <3> HIDE DEF e, rest
    <3>3. CASE c.through = m
      BY <1>2, <1>3, <3>1, <3>3 DEF e, rest
    <3>4. CASE c.through # m
      <4>1. Within(data', i, e.from, rest)
        BY <1>1, <1>11, <3>1, <3>2, <3>4, RoundOver
      <4> QED
        BY <4>1 DEF Via, e, rest
    <3> QED
      BY <3>3, <3>4
  <2> QED
    BY <2>1, <1>2 DEF LastEdgeInv
<1> QED
  BY <1>4, <1>5, <1>7, <1>8, <1>9, <1>10, <1>12, <1>13 DEF RouterInv

\* All that a step of the loops to cell c does, in the terms of RoundStep.
Moves(c) ==
    /\ phase = "relax" /\ c \in CellType /\ GoTo(c)
    /\ data' \in Table /\ Nonnegative(data') /\ ZeroDiagonal(data')
    /\ \A i, j \in Vertex : data'[i][j] # NoRoute =>
           /\ data'[i][j].prev_edge = NoEdge <=> i = j
           /\ data'[i][j].prev_edge # NoEdge =>
                  /\ data'[i][j].prev_edge \in EdgeId
                  /\ edges[data'[i][j].prev_edge].to = j
                  /\ Via(data', cell.through, i, edges[data'[i][j].prev_edge].from,
                         data'[i][j].weight - edges[data'[i][j].prev_edge].weight)
    /\ \A i, j \in Vertex, w \in Int : Within(data, i, j, w) => Within(data', i, j, w)
    /\ NoUndercut(data', cell.through, cell.through)
    /\ c.through = cell.through \/ (c.through = cell.through + 1 /\ c.from = 0 /\ c.to = 0)
    /\ \A i, j \in Vertex : Behind(c, i, j) => Covered(data', cell.through, i, j)

\* Such a step keeps the invariant.
LEMMA MovesInv == ASSUME RouterInv, NEW c, Moves(c) PROVE RouterInv'
  BY RoundStep DEF Moves

\* The order of the loops: which cells are behind the one they move on to.
LEMMA LoopOrder ==
    ASSUME cell \in CellType, cell.through < VertexCount,
           NEW c, c = AfterRow(cell) \/ c = AfterCell(cell)
    PROVE  /\ c \in CellType
           /\ c.through = cell.through \/ (c.through = cell.through + 1 /\ c.from = 0 /\ c.to = 0)
           /\ \A i, j \in Vertex : Behind(c, i, j) =>
                 PassedCell(i, j) \/ (i = cell.from /\ (c = AfterCell(cell) => j = cell.to))
<1> USE VertexCountAssumption DEF Vertex, CellType, Behind
<1>1. CASE c = AfterCell(cell) /\ cell.to + 1 < VertexCount
  <2>1. c = [through |-> cell.through, from |-> cell.from, to |-> cell.to + 1]
    BY <1>1 DEF AfterCell
  <2> QED
    BY <1>1, <2>1 DEF PassedCell
<1>2. CASE /\ c = AfterRow(cell) /\ cell.from + 1 < VertexCount
           /\ c = AfterCell(cell) => ~(cell.to + 1 < VertexCount)
  <2>1. c = [through |-> cell.through, from |-> cell.from + 1, to |-> 0]
    BY <1>2 DEF AfterRow
  <2> QED
    BY <1>2, <2>1 DEF PassedCell
<1>3. CASE /\ c = AfterRow(cell) /\ ~(cell.from + 1 < VertexCount)
           /\ c = AfterCell(cell) => ~(cell.to + 1 < VertexCount)
  <2>1. c = [through |-> cell.through + 1, from |-> 0, to |-> 0]
    BY <1>3 DEF AfterRow
  <2> QED
    BY <1>3, <2>1 DEF PassedCell
<1> QED
  BY <1>1, <1>2, <1>3 DEF AfterCell

\* The first round finds a table of edges.
LEMMA StartRelaxingInv == RouterInv /\ StartRelaxing => RouterInv'
<1> SUFFICES ASSUME RouterInv, StartRelaxing PROVE RouterInv'
  OBVIOUS
<1>1. /\ phase = "init" /\ phase' = "relax" /\ todo = {} /\ vertex = VertexCount
      /\ cell = [through |-> 0, from |-> 0, to |-> 0]
      /\ UNCHANGED <<edges, data, vertex, todo, cell, query, chain, cursor>> /\ EdgeId' = EdgeId
  BY DEF StartRelaxing, table, walk, EdgeId, RouterInv, RowsInv
<1>2. TypeOK'
  BY <1>1, VertexCountAssumption DEF RouterInv, TypeOK
<1>3. RowsInv' /\ EntriesInv' /\ PredecessorsFit' /\ EdgesInv'
  BY <1>1 DEF RouterInv, RowsInv, EntriesInv, PredecessorsFit, EdgesInv, Within
<1>4. RoundInv'
  <2>1. \A i, j \in Vertex : ~PassedCell(i, j)'
    BY <1>1, VertexCountAssumption DEF PassedCell, Vertex
  <2> QED
    BY <2>1 DEF RoundInv
<1>5. DetoursInv'
  BY <1>1 DEF DetoursInv, Built, NoUndercut
<1>6. LastEdgeInv'
  BY <1>1 DEF RouterInv, LastEdgeInv, Via, Within
<1> QED
  BY <1>2, <1>3, <1>4, <1>5, <1>6 DEF RouterInv

\* A step of the loops that finds nothing to relax.
LEMMA SkipMoves == ASSUME RouterInv, SkipRow \/ SkipCell PROVE \E c : Moves(c)
<1>1. PICK c : /\ GoTo(c) /\ data' = data /\ phase = "relax"
               /\ \/ c = AfterRow(cell) /\ RouteFrom = NoRoute
                  \/ c = AfterCell(cell) /\ RouteTo = NoRoute
  BY DEF SkipRow, SkipCell
<1>2. cell \in CellType /\ cell.through < VertexCount
  BY <1>1 DEF RouterInv, TypeOK, CellType
<1>3. /\ c \in CellType
      /\ c.through = cell.through \/ (c.through = cell.through + 1 /\ c.from = 0 /\ c.to = 0)
      /\ \A i, j \in Vertex : Behind(c, i, j) =>
            PassedCell(i, j) \/ (i = cell.from /\ (c = AfterCell(cell) => j = cell.to))
  BY <1>1, <1>2, LoopOrder
<1>4. \A i, j \in Vertex : Behind(c, i, j) => Covered(data, cell.through, i, j)
  BY <1>1, <1>3, InRound DEF Covered, RouteFrom, RouteTo
<1>5. Moves(c)
  BY <1>1, <1>3, <1>4, InRound DEF Moves, RouterInv, PredecessorsFit, LastEdgeInv
<1> QED
  BY <1>5

\* The same of a step.
LEMMA RelaxRouteTable ==
    ASSUME RouterInv, RelaxRoute
    PROVE  LET m == cell.through  p == cell.from  q == cell.to IN
           /\ data' \in Table /\ Nonnegative(data') /\ ZeroDiagonal(data')
           /\ \A i, j \in Vertex :
                 \/ data'[i][j] = data[i][j]
                 \/ /\ i = p /\ j = q /\ i # j /\ q # m
                    /\ data'[i][j] # NoRoute
                    /\ data'[i][j].weight = data[p][m].weight + data[m][q].weight
                    /\ data'[i][j].prev_edge = data[m][q].prev_edge
                    /\ data[m][q].prev_edge # NoEdge
                    /\ Improves(data'[i][j].weight, data[i][j])
           /\ Covered(data', m, p, q)
           /\ \A i \in Vertex : data'[i][m] = data[i][m] /\ data'[m][i] = data[m][i]
           /\ \A i, j \in Vertex, w \in Int : Within(data, i, j, w) => Within(data', i, j, w)
           /\ \A i, j \in Vertex, w \in Int : Via(data', m, i, j, w) <=> Via(data, m, i, j, w)
<1> DEFINE m == cell.through
           p == cell.from
           q == cell.to
<1>1. phase = "relax" /\ data[p][m] # NoRoute /\ data[m][q] # NoRoute
  BY DEF RelaxRoute, RouteFrom, RouteTo
<1>2. m \in Vertex /\ p \in Vertex /\ q \in Vertex /\ data \in Table /\ Nonnegative(data) /\ ZeroDiagonal(data)
  BY <1>1, InRound
<1>3. data' = RelaxedAt(data, m, p, q)
  BY DEF RelaxRoute, RouteFrom, RouteTo, Put, RelaxedAt
<1>4. \A i, j \in Vertex : data[i][j] # NoRoute => (data[i][j].prev_edge = NoEdge <=> i = j)
  BY DEF RouterInv, PredecessorsFit
<1> HIDE DEF m, p, q
<1>5. /\ data' \in Table /\ Nonnegative(data') /\ ZeroDiagonal(data')
      /\ \A i, j \in Vertex :
            \/ data'[i][j] = data[i][j]
            \/ /\ i = p /\ j = q /\ i # j /\ q # m
               /\ data'[i][j] # NoRoute
               /\ data'[i][j].weight = data[p][m].weight + data[m][q].weight
               /\ data'[i][j].prev_edge = data[m][q].prev_edge
               /\ data[m][q].prev_edge # NoEdge
               /\ Improves(data'[i][j].weight, data[i][j])
      /\ Covered(data', m, p, q)
      /\ \A i \in Vertex : data'[i][m] = data[i][m] /\ data'[m][i] = data[m][i]
      /\ \A i, j \in Vertex, w \in Int : Within(data, i, j, w) => Within(data', i, j, w)
      /\ \A i, j \in Vertex, w \in Int : Via(data', m, i, j, w) <=> Via(data, m, i, j, w)
  BY <1>1, <1>2, <1>3, <1>4, RelaxedTable
<1> QED
  BY <1>5 DEF m, p, q

\* A relaxation is such a step.
LEMMA RelaxRouteMoves == ASSUME RouterInv, RelaxRoute PROVE Moves(AfterCell(cell))
<1> DEFINE m == cell.through
           p == cell.from
           q == cell.to
           c == AfterCell(cell)
<1>1. phase = "relax" /\ data[p][m] # NoRoute /\ data[m][q] # NoRoute /\ GoTo(c)
  BY DEF RelaxRoute, RouteFrom, RouteTo
<1>2. /\ m \in Vertex /\ p \in Vertex /\ q \in Vertex /\ edges \in Seq(Edge)
      /\ data \in Table /\ Nonnegative(data) /\ ZeroDiagonal(data) /\ NoUndercut(data, m, m)
      /\ \A i, j \in Vertex : PassedCell(i, j) => Covered(data, m, i, j)
  BY <1>1, InRound
<1>3. /\ data' \in Table /\ Nonnegative(data') /\ ZeroDiagonal(data')
      /\ \A i, j \in Vertex :
            \/ data'[i][j] = data[i][j]
            \/ /\ i = p /\ j = q /\ i # j
               /\ data'[i][j].weight = data[p][m].weight + data[m][q].weight
               /\ data'[i][j].prev_edge = data[m][q].prev_edge
               /\ data[m][q].prev_edge # NoEdge
      /\ Covered(data', m, p, q)
      /\ \A i \in Vertex : data'[i][m] = data[i][m] /\ data'[m][i] = data[m][i]
      /\ \A i, j \in Vertex, w \in Int : Within(data, i, j, w) => Within(data', i, j, w)
      /\ \A i, j \in Vertex, w \in Int : Via(data', m, i, j, w) <=> Via(data, m, i, j, w)
  BY RelaxRouteTable
<1>4. cell \in CellType /\ cell.through < VertexCount
  BY <1>1 DEF RouterInv, TypeOK, CellType
<1>5. /\ c \in CellType
      /\ c.through = m \/ (c.through = m + 1 /\ c.from = 0 /\ c.to = 0)
      /\ \A i, j \in Vertex : Behind(c, i, j) => PassedCell(i, j) \/ (i = p /\ j = q)
  BY <1>4, LoopOrder
<1> HIDE DEF c
<1>6. \A i, j \in Vertex : Behind(c, i, j) => Covered(data', m, i, j)
  <2>1. ASSUME NEW i \in Vertex, NEW j \in Vertex, Covered(data, m, i, j) PROVE Covered(data', m, i, j)
    <3>1. SUFFICES ASSUME data[i][m] # NoRoute, data[m][j] # NoRoute
                   PROVE  Within(data', i, j, data[i][m].weight + data[m][j].weight)
      BY <1>2, <1>3 DEF Covered
    <3>2. data[i][m].weight + data[m][j].weight \in Int
      BY <1>2, <3>1 DEF Nonnegative
    <3> QED
      BY <2>1, <3>1, <3>2, <1>3 DEF Covered
  <2> QED
    BY <2>1, <1>2, <1>3, <1>5
<1>7. NoUndercut(data', m, m)
  <2>1. SUFFICES ASSUME NEW k \in 0 .. m - 1, NEW i \in Vertex, NEW j \in Vertex,
                        NEW x \in Costs(data', m, i, k), NEW y \in Costs(data', m, k, j)
                 PROVE  Via(data', m, i, j, x + y)
    BY DEF NoUndercut
  <2>2. k \in Vertex
    BY <1>2, VertexCountAssumption DEF Vertex
  <2>3. x \in Int /\ y \in Int /\ Via(data', m, i, k, x) /\ Via(data', m, k, j, y)
    BY <1>2, <1>3, <2>2, ViaCosts
  <2>4. Via(data, m, i, k, x) /\ Via(data, m, k, j, y)
    BY <1>3, <2>2, <2>3
  <2>5. PICK x0 \in Costs(data, m, i, k) : x0 <= x
    BY <1>2, <2>2, <2>3, <2>4, ViaCosts
  <2>6. PICK y0 \in Costs(data, m, k, j) : y0 <= y
    BY <1>2, <2>2, <2>3, <2>4, ViaCosts
  <2>7. x0 \in Int /\ y0 \in Int
    BY <1>2, <2>2, ViaCosts
  <2>8. Via(data, m, i, j, x0 + y0)
    BY <1>2 DEF NoUndercut
  <2>9. PICK c0 \in Costs(data, m, i, j) : c0 <= x0 + y0
    BY <1>2, <2>7, <2>8, ViaCosts
  <2>10. c0 \in Int /\ c0 <= x + y /\ x + y \in Int
    BY <1>2, <2>3, <2>5, <2>6, <2>7, <2>9, ViaCosts
  <2>11. Via(data, m, i, j, x + y)
    BY <1>2, <2>9, <2>10, ViaCosts
  <2> QED
    BY <1>3, <2>10, <2>11
<1>8. \A i, j \in Vertex : data'[i][j] # NoRoute =>
         /\ data'[i][j].prev_edge = NoEdge <=> i = j
         /\ data'[i][j].prev_edge # NoEdge =>
                /\ data'[i][j].prev_edge \in EdgeId
                /\ edges[data'[i][j].prev_edge].to = j
                /\ Via(data', m, i, edges[data'[i][j].prev_edge].from,
                       data'[i][j].weight - edges[data'[i][j].prev_edge].weight)
  <2> SUFFICES ASSUME NEW i \in Vertex, NEW j \in Vertex, data'[i][j] # NoRoute
               PROVE  /\ data'[i][j].prev_edge = NoEdge <=> i = j
                      /\ data'[i][j].prev_edge # NoEdge =>
                            /\ data'[i][j].prev_edge \in EdgeId
                            /\ edges[data'[i][j].prev_edge].to = j
                            /\ Via(data', m, i, edges[data'[i][j].prev_edge].from,
                                   data'[i][j].weight - edges[data'[i][j].prev_edge].weight)
    OBVIOUS
  <2>1. ASSUME NEW a \in Vertex, NEW b \in Vertex, data[a][b] # NoRoute, data[a][b].prev_edge # NoEdge
        PROVE  /\ data[a][b].prev_edge \in EdgeId /\ edges[data[a][b].prev_edge].to = b
               /\ edges[data[a][b].prev_edge].from \in Vertex
               /\ edges[data[a][b].prev_edge].weight \in Int
               /\ Via(data, m, a, edges[data[a][b].prev_edge].from,
                      data[a][b].weight - edges[data[a][b].prev_edge].weight)
    BY <2>1, <1>1, <1>2, EdgeFields DEF RouterInv, PredecessorsFit, LastEdgeInv
  <2>2. CASE data'[i][j] = data[i][j]
    <3>1. data[i][j].prev_edge = NoEdge <=> i = j
      BY <2>2 DEF RouterInv, PredecessorsFit
    <3>2. data[i][j].weight \in Int
      BY <2>2, <1>2 DEF Nonnegative
    <3> QED
      BY <2>1, <2>2, <3>1, <3>2, <1>3
  <2>3. CASE /\ i = p /\ j = q /\ i # j
             /\ data'[i][j].weight = data[p][m].weight + data[m][q].weight
             /\ data'[i][j].prev_edge = data[m][q].prev_edge
             /\ data[m][q].prev_edge # NoEdge
    <3> DEFINE e == edges[data[m][q].prev_edge]
               rest == data[m][q].weight - e.weight
               rest2 == data[p][m].weight + data[m][q].weight - e.weight
    <3>1. /\ data[m][q].prev_edge \in EdgeId /\ e.to = q /\ e.from \in Vertex /\ e.weight \in Int
          /\ Via(data, m, m, e.from, rest)
      BY <2>1, <2>3, <1>1, <1>2
    <3> HIDE DEF e
    <3>a. data[m][q].weight \in Int /\ data[p][m].weight \in Int
      BY <1>1, <1>2 DEF Nonnegative
    <3>2. /\ data[m][q].weight \in Int /\ data[p][m].weight \in Int /\ rest \in Int /\ rest2 \in Int
          /\ rest2 = data[p][m].weight + rest
      BY <3>1, <3>a
    <3>3. data[m][m].weight = 0
      BY <1>2, ZeroRouteType DEF ZeroDiagonal
    <3>4. data[m][e.from] # NoRoute => data[m][e.from].weight \in Int
      BY <1>2, <3>1 DEF Nonnegative
    <3> HIDE DEF rest, rest2
    <3>5. Within(data, m, e.from, rest)
      BY <3>1, <3>2, <3>3, <3>4 DEF Via, Within
    <3>6. Via(data, m, p, e.from, rest2)
      BY <1>1, <3>2, <3>4, <3>5 DEF Via, Within
    <3>7. Via(data', m, p, e.from, rest2)
      BY <1>2, <1>3, <3>1, <3>2, <3>6
    <3>b. data'[i][j].weight - e.weight = rest2
      BY <2>3, <3>1, <3>a DEF rest2
    <3>8. /\ data'[i][j].prev_edge = data[m][q].prev_edge /\ i = p /\ j = q /\ i # j
          /\ data'[i][j].prev_edge # NoEdge
          /\ data'[i][j].weight - e.weight = rest2
      BY <2>3, <3>b
    <3>9. edges[data'[i][j].prev_edge] = e
      BY <3>8 DEF e
    <3>10. data'[i][j].prev_edge \in EdgeId
      BY <3>1, <3>8
    <3>11. Via(data', m, i, e.from, data'[i][j].weight - e.weight)
      BY <3>7, <3>8
    <3>12. (data'[i][j].prev_edge = NoEdge) <=> (i = j)
      BY <3>8
    <3> HIDE DEF m, p, q
    <3> QED
      BY <3>1, <3>8, <3>9, <3>10, <3>11, <3>12
  <2> QED
    BY <2>2, <2>3, <1>3
<1> QED
  BY <1>1, <1>3, <1>5, <1>6, <1>7, <1>8 DEF Moves, c

-----------------------------------------------------------------------------
(* BuildRoute leaves the table alone. *)

\* A step of BuildRoute leaves the table alone, and so the invariant.
LEMMA QueryStep ==
    ASSUME RouterInv, Built, Built', phase' # "relax", UNCHANGED table,
           query' \in [from : Vertex, to : Vertex], chain' \in Seq(EdgeId),
           cursor' \in EdgeId \cup {NoEdge}
    PROVE  RouterInv'
<1>1. /\ UNCHANGED <<edges, data, vertex, todo, cell>> /\ EdgeId' = EdgeId
      /\ phase \in {"ready", "walk", "answered"} /\ phase' \in {"ready", "walk", "answered"}
  BY DEF table, EdgeId, Built
<1>2. TypeOK'
  BY <1>1 DEF RouterInv, TypeOK
<1>3. RowsInv' /\ EntriesInv' /\ PredecessorsFit' /\ EdgesInv'
  BY <1>1 DEF RouterInv, RowsInv, EntriesInv, PredecessorsFit, EdgesInv, Within
<1>4. RoundInv' /\ DetoursInv' /\ LastEdgeInv'
  BY <1>1 DEF RouterInv, RoundInv, DetoursInv, LastEdgeInv, Within, Triangle, Built
<1> QED
  BY <1>2, <1>3, <1>4 DEF RouterInv

\* A predecessor read from the table is an edge or nothing.
LEMMA PredecessorType ==
    ASSUME RouterInv, NEW i \in Vertex, NEW j \in Vertex, data[i][j] # NoRoute
    PROVE  data[i][j].prev_edge \in EdgeId \cup {NoEdge}
  BY DEF RouterInv, PredecessorsFit

\* BuildRoute is called.
LEMMA AskInv == ASSUME RouterInv, NEW i \in Vertex, NEW j \in Vertex, Ask(i, j) PROVE RouterInv'
<1>1. /\ Built /\ Built' /\ phase' # "relax" /\ UNCHANGED table
      /\ query' = [from |-> i, to |-> j] /\ chain' = <<>>
  BY DEF Ask, Built
<1>2. cursor' \in EdgeId \cup {NoEdge}
  BY PredecessorType DEF Ask
<1>3. chain' \in Seq(EdgeId) /\ query' \in [from : Vertex, to : Vertex]
  BY <1>1
<1> QED
  BY <1>1, <1>2, <1>3, QueryStep

\* One hop of its loop.
LEMMA FollowEdgeInv == RouterInv /\ FollowEdge => RouterInv'
<1> SUFFICES ASSUME RouterInv, FollowEdge PROVE RouterInv'
  OBVIOUS
<1>1. /\ Built /\ Built' /\ phase' # "relax" /\ UNCHANGED table
      /\ query' = query /\ query \in [from : Vertex, to : Vertex]
      /\ cursor \in EdgeId /\ chain \in Seq(EdgeId) /\ edges \in Seq(Edge)
      /\ chain' = Append(chain, cursor)
  BY DEF FollowEdge, Built, RouterInv, TypeOK
<1>2. query.from \in Vertex /\ edges[cursor].from \in Vertex
  BY <1>1, EdgeFields
<1>3. cursor' \in EdgeId \cup {NoEdge}
  BY <1>2, PredecessorType DEF FollowEdge, HopEntry
<1>4. chain' \in Seq(EdgeId)
  BY <1>1
<1> QED
  BY <1>1, <1>3, <1>4, QueryStep

\* It returns.
LEMMA ReturnInv == RouterInv /\ Return => RouterInv'
<1> SUFFICES ASSUME RouterInv, Return PROVE RouterInv'
  OBVIOUS
<1>1. /\ Built /\ Built' /\ phase' # "relax" /\ UNCHANGED table
      /\ query' = query /\ query \in [from : Vertex, to : Vertex]
      /\ chain' = chain /\ chain \in Seq(EdgeId)
      /\ cursor' = cursor /\ cursor \in EdgeId \cup {NoEdge}
  BY DEF Return, Built, RouterInv, TypeOK
<1> QED
  BY <1>1, QueryStep

\* A step of nothing changes nothing.
LEMMA StutterInv == RouterInv /\ UNCHANGED vars => RouterInv'
<1> SUFFICES ASSUME RouterInv, UNCHANGED vars PROVE RouterInv'
  OBVIOUS
<1>1. /\ UNCHANGED <<edges, data, phase, vertex, todo, cell, query, chain, cursor>>
      /\ EdgeId' = EdgeId
  BY DEF vars, EdgeId
<1>2. TypeOK' /\ RowsInv' /\ EntriesInv' /\ PredecessorsFit' /\ EdgesInv'
  BY <1>1 DEF RouterInv, TypeOK, RowsInv, EntriesInv, PredecessorsFit, EdgesInv, Within
<1>3. RoundInv' /\ DetoursInv'
  BY <1>1 DEF RouterInv, RoundInv, PassedCell, DetoursInv, NoUndercut, Costs, Via, Within, Triangle, Built
<1>4. LastEdgeInv'
  BY <1>1 DEF RouterInv, LastEdgeInv, Via, Within
<1> QED
  BY <1>2, <1>3, <1>4 DEF RouterInv

-----------------------------------------------------------------------------
(* Theorems *)

\* The inductive invariant: it says what every entry of the half-built table
\* is worth, cell by cell of the three nested loops.
THEOREM RouterInvariant == Spec => []RouterInv
<1>1. Init => RouterInv
  BY InitInv
<1>2. RouterInv /\ [Next]_vars => RouterInv'
  <2> SUFFICES ASSUME RouterInv, [Next]_vars PROVE RouterInv'
    OBVIOUS
  <2>1. CASE EnterRow
    BY <2>1, EnterRowInv
  <2>2. CASE ScanEdge
    BY <2>2, ScanEdgeInv
  <2>3. CASE RejectNegativeEdge
    BY <2>3, RejectInv
  <2>4. CASE StartRelaxing
    BY <2>4, StartRelaxingInv
  <2>5. CASE SkipRow \/ SkipCell
    BY <2>5, SkipMoves, MovesInv
  <2>6. CASE RelaxRoute
    BY <2>6, RelaxRouteMoves, MovesInv
  <2>7. ASSUME NEW i \in Vertex, NEW j \in Vertex, Ask(i, j) PROVE RouterInv'
    BY <2>7, AskInv
  <2>8. CASE FollowEdge
    BY <2>8, FollowEdgeInv
  <2>9. CASE Return
    BY <2>9, ReturnInv
  <2>10. CASE UNCHANGED vars
    BY <2>10, StutterInv
  <2> QED
    BY <2>1, <2>2, <2>3, <2>4, <2>5, <2>6, <2>7, <2>8, <2>9, <2>10 DEF Next, Construct, Walk
<1> QED
  BY <1>1, <1>2, PTL DEF Spec

\* Every field the code reads holds a value of its type at every moment.
THEOREM TypeCorrect == Spec => []TypeOK
<1>1. RouterInv => TypeOK
  BY DEF RouterInv
<1> QED
  BY <1>1, RouterInvariant, PTL

\* The predecessor recorded for a column is an edge into that column.
THEOREM PredecessorsAlwaysFit == Spec => []PredecessorsFit
<1>1. RouterInv => PredecessorsFit
  BY DEF RouterInv
<1> QED
  BY <1>1, RouterInvariant, PTL

\* What the invariant says of a finished table.
LEMMA Finished ==
    ASSUME RouterInv, Built
    PROVE  /\ edges \in Seq(Edge)
           /\ \A i \in Vertex : data[i][i] = ZeroRoute
           /\ \A i, j \in Vertex : data[i][j] # NoRoute => data[i][j].weight \in Int
           /\ \A e \in EdgeId : /\ edges[e].weight >= 0
                                /\ Within(data, edges[e].from, edges[e].to, edges[e].weight)
           /\ \A i, k, j \in Vertex : data[i][k] # NoRoute /\ data[k][j] # NoRoute =>
                  Within(data, i, j, data[i][k].weight + data[k][j].weight)
<1>1. edges \in Seq(Edge) /\ data \in Table /\ vertex = VertexCount /\ todo = {}
  BY DEF RouterInv, TypeOK, RowsInv, Built, Table
<1>2. \A i \in Vertex : i < VertexCount
  BY VertexCountAssumption DEF Vertex
<1>3. \A i \in Vertex : data[i][i] = ZeroRoute
  BY <1>1, <1>2 DEF RouterInv, EntriesInv, ZeroRoute
<1>4. \A i, j \in Vertex : data[i][j] # NoRoute => data[i][j].weight \in Int
  BY <1>1 DEF Table, RouteInternalData
<1>5. \A e \in EdgeId : /\ edges[e].weight >= 0
                        /\ Within(data, edges[e].from, edges[e].to, edges[e].weight)
  BY <1>1, <1>2, EdgeFields DEF RouterInv, EdgesInv
<1>6. Triangle(data, VertexCount)
  BY DEF RouterInv, DetoursInv
<1> QED
  BY <1>1, <1>3, <1>4, <1>5, <1>6 DEF Triangle, Vertex

\* The finished table is optimal, and every entry is reached by the edge it
\* records: for every graph, whatever its zero-weight edges and loops.
THEOREM TableIsOptimal == Spec => []OptimalityCertificate
<1>1. RouterInv => OptimalityCertificate
  <2> SUFFICES ASSUME RouterInv, Built
               PROVE  /\ \A i \in Vertex : data[i][i] = [weight |-> 0, prev_edge |-> NoEdge]
                      /\ \A e \in EdgeId : Within(data, edges[e].from, edges[e].to, edges[e].weight)
                      /\ \A i, k, j \in Vertex :
                           data[i][k] # NoRoute /\ data[k][j] # NoRoute =>
                               Within(data, i, j, data[i][k].weight + data[k][j].weight)
                      /\ \A i, j \in Vertex :
                           data[i][j] # NoRoute /\ data[i][j].prev_edge # NoEdge =>
                               LET e == edges[data[i][j].prev_edge] IN
                               /\ data[i][e.from] # NoRoute
                               /\ data[i][j].weight = data[i][e.from].weight + e.weight
    BY DEF OptimalityCertificate
  <2>1. ASSUME NEW i \in Vertex, NEW j \in Vertex, data[i][j] # NoRoute, data[i][j].prev_edge # NoEdge
        PROVE  LET e == edges[data[i][j].prev_edge] IN
               /\ data[i][e.from] # NoRoute
               /\ data[i][j].weight = data[i][e.from].weight + e.weight
    <3> DEFINE e == edges[data[i][j].prev_edge]
               u == e.from
    <3>1. /\ data[i][j].prev_edge \in EdgeId /\ e.to = j
      BY <2>1 DEF RouterInv, PredecessorsFit
    <3>2. e.weight \in Int /\ u \in Vertex
      BY <3>1, EdgeFields, Finished
    <3>3. Within(data, i, u, data[i][j].weight - e.weight)
      BY <2>1 DEF RouterInv, LastEdgeInv, Built
    <3>4. Within(data, u, j, e.weight)
      BY <3>1, Finished
    <3> HIDE DEF e, u
    <3>5. Within(data, i, j, data[i][u].weight + data[u][j].weight)
      BY <3>2, <3>3, <3>4, Finished DEF Within
    <3>6. data[i][u].weight \in Int /\ data[u][j].weight \in Int /\ data[i][j].weight \in Int
      BY <2>1, <3>2, <3>3, <3>4, Finished DEF Within
    <3>7. /\ data[i][u] # NoRoute
          /\ data[i][u].weight <= data[i][j].weight - e.weight
          /\ data[u][j].weight <= e.weight
          /\ data[i][j].weight <= data[i][u].weight + data[u][j].weight
      BY <3>3, <3>4, <3>5 DEF Within
    <3>8. data[i][j].weight = data[i][u].weight + e.weight
      <4>1. ASSUME NEW a \in Int, NEW b \in Int, NEW c \in Int, NEW w \in Int,
                   b <= a - w, c <= w, a <= b + c
            PROVE  a = b + w
        BY <4>1
      <4> QED
        BY <3>2, <3>6, <3>7, <4>1
    <3> QED
      BY <3>7, <3>8 DEF e, u
  <2> QED
    BY <2>1, Finished DEF ZeroRoute
<1> QED
  BY <1>1, RouterInvariant, PTL

\* No router comes into being for a graph with a negative weight.
THEOREM NegativeWeightsRejected == Spec => []NoNegativeRouter
<1>1. RouterInv => NoNegativeRouter
  BY Finished DEF NoNegativeRouter
<1> QED
  BY <1>1, RouterInvariant, PTL

\* The row and the column of the vertex routed through do not change while
\* the code holds references into them.
THEOREM PivotNeverMoves == Spec => PivotStable
<1> DEFINE Stable == phase = "relax" =>
                       \A i \in Vertex :
                           /\ data'[i][cell.through] = data[i][cell.through]
                           /\ data'[cell.through][i] = data[cell.through][i]
<1>1. RouterInv /\ [Next]_vars => [Stable]_vars
  <2> SUFFICES ASSUME RouterInv, Next, phase = "relax" PROVE Stable
    BY DEF vars
  <2>1. SkipRow \/ SkipCell \/ RelaxRoute
    BY DEF Next, Construct, Walk, EnterRow, ScanEdge, RejectNegativeEdge, StartRelaxing,
           Ask, FollowEdge, Return
  <2>2. CASE SkipRow \/ SkipCell
    BY <2>2 DEF SkipRow, SkipCell
  <2>3. CASE RelaxRoute
    BY <2>3, RelaxRouteTable
  <2> QED
    BY <2>1, <2>2, <2>3
<1> QED
  BY <1>1, RouterInvariant, PTL DEF Spec, PivotStable

\* What reading an edge does to the routes found so far.
LEMMA ScanEdgeKeeps ==
    ASSUME RouterInv, ScanEdge, NEW i \in Vertex, NEW j \in Vertex, data[i][j] # NoRoute
    PROVE  Within(data', i, j, data[i][j].weight)
<1>1. PICK e \in todo : edges[e].weight >= 0 /\ data' = KeepShorter(vertex - 1, e)
  BY DEF ScanEdge
<1> DEFINE row == vertex - 1
           to == edges[e].to
           new == [weight |-> edges[e].weight, prev_edge |-> e]
<1>2. /\ data \in Table /\ edges \in Seq(Edge) /\ e \in EdgeId /\ row = edges[e].from
      /\ data[i][j].weight \in Int
  BY DEF RouterInv, TypeOK, RowsInv, Table, RouteInternalData
<1>3. /\ row \in Vertex /\ to \in Vertex /\ edges[e].weight \in Int /\ e \in Nat
  BY <1>2, EdgeFields
<1>4. /\ new \in RouteInternalData /\ new # NoRoute /\ new.weight = edges[e].weight
  BY <1>3, NoRouteAssumption DEF RouteInternalData
<1>5. CASE Improves(edges[e].weight, data[row][to])
  <2>1. data' = Put(data, row, to, new)
    BY <1>1, <1>5 DEF KeepShorter, Put
  <2>2. new \in RouteInternalData \cup {NoRoute}
    BY <1>4
  <2> HIDE DEF row, to, new
  <2>3. row \in Vertex /\ to \in Vertex
    BY <1>3 DEF row, to
  <2>4. \A a, b \in Vertex : Put(data, row, to, new)[a][b] = IF a = row /\ b = to THEN new ELSE data[a][b]
    <3>1. data \in Table
      BY <1>2
    <3> QED
      BY <3>1, <2>2, <2>3, PutEntry
  <2>5. data'[i][j] = IF i = row /\ j = to THEN new ELSE data[i][j]
    BY <2>1, <2>4
  <2>6. new # NoRoute /\ new.weight = edges[e].weight /\ edges[e].weight \in Int
    BY <1>3, <1>4 DEF new
  <2>7. i = row /\ j = to => new.weight < data[i][j].weight
    BY <1>5, <2>6 DEF Improves
  <2> QED
    BY <1>2, <2>5, <2>6, <2>7 DEF Within
<1>6. CASE ~Improves(edges[e].weight, data[row][to])
  BY <1>1, <1>2, <1>6 DEF KeepShorter, Within
<1> QED
  BY <1>5, <1>6

\* A route is never lost and never gets worse.
THEOREM RoutesNeverWorsen == Spec => NeverWorse
<1> DEFINE Keeps == \A i, j \in Vertex :
                       data[i][j] # NoRoute => Within(data', i, j, data[i][j].weight)
<1>1. RouterInv /\ [Next]_vars => [Keeps]_vars
  <2> SUFFICES ASSUME RouterInv, Next, NEW i \in Vertex, NEW j \in Vertex, data[i][j] # NoRoute
               PROVE  Within(data', i, j, data[i][j].weight)
    OBVIOUS
  <2>1. data \in Table /\ data[i][j].weight \in Int
    BY DEF RouterInv, TypeOK, Table, RouteInternalData
  <2>2. CASE data' = data
    BY <2>1, <2>2 DEF Within
  <2>3. CASE EnterRow
    <3>1. /\ data' = Put(data, vertex, vertex, ZeroRoute) /\ vertex \in Vertex
      BY <2>3, VertexCountAssumption DEF EnterRow, ZeroRoute, Put, RouterInv, TypeOK, Vertex
    <3>2. ZeroRoute \in RouteInternalData \cup {NoRoute}
      BY ZeroRouteType
    <3>3. Put(data, vertex, vertex, ZeroRoute)[i][j] = IF i = vertex /\ j = vertex THEN ZeroRoute ELSE data[i][j]
      BY <2>1, <3>1, <3>2, PutEntry
    <3>4. i < vertex
      BY DEF RouterInv, EntriesInv
    <3> QED
      BY <2>1, <3>1, <3>3, <3>4 DEF Within, Vertex
  <2>4. CASE ScanEdge
    BY <2>4, ScanEdgeKeeps
  <2>5. CASE RelaxRoute
    <3>1. \A a, b \in Vertex, w \in Int : Within(data, a, b, w) => Within(data', a, b, w)
      BY <2>5, RelaxRouteTable
    <3>2. Within(data, i, j, data[i][j].weight)
      BY <2>1 DEF Within
    <3> QED
      BY <2>1, <3>1, <3>2
  <2>6. CASE ~(EnterRow \/ ScanEdge \/ RelaxRoute)
    <3>1. data' = data
      BY <2>6 DEF Next, Construct, Walk, RejectNegativeEdge, StartRelaxing, SkipRow, SkipCell,
                  Ask, FollowEdge, Return, table
    <3> QED
      BY <2>2, <3>1
  <2> QED
    BY <2>3, <2>4, <2>5, <2>6
<1> QED
  BY <1>1, RouterInvariant, PTL DEF Spec, NeverWorse

-----------------------------------------------------------------------------
(* BuildRoute *)

\* The vertex whose entry the cursor was read from.
Here == IF chain = <<>> THEN query.to ELSE edges[chain[Len(chain)]].from

\* The vertex that the walk has come to is one.
LEMMA HereType == ASSUME TypeOK PROVE Here \in Vertex
<1>1. edges \in Seq(Edge) /\ chain \in Seq(EdgeId) /\ query.to \in Vertex
  BY DEF TypeOK
<1>2. chain # <<>> => chain[Len(chain)] \in EdgeId
  BY <1>1
<1> QED
  BY <1>1, <1>2, EdgeFields DEF Here

\* An entry with a predecessor implies one at the predecessor's tail.
LEMMA TailReached ==
    ASSUME RouterInv, Built, ChainConnected, phase = "walk", cursor # NoEdge
    PROVE  HopEntry # NoRoute /\ edges[cursor].to = Here /\ cursor \in EdgeId
<1>1. Here \in Vertex /\ query.from \in Vertex
  BY HereType DEF RouterInv, TypeOK
<1>2. data[query.from][Here] # NoRoute /\ cursor = data[query.from][Here].prev_edge
  BY DEF ChainConnected, Here
<1>3. cursor \in EdgeId /\ edges[cursor].to = Here
  BY <1>1, <1>2 DEF RouterInv, PredecessorsFit
<1>4. Within(data, query.from, edges[cursor].from, data[query.from][Here].weight - edges[cursor].weight)
  BY <1>1, <1>2 DEF RouterInv, LastEdgeInv
<1> QED
  BY <1>3, <1>4 DEF Within, HopEntry

\* The entry that the cursor names ends where the walk has come to, so the
\* walk goes on from its tail.
LEMMA FollowEdgeConnected ==
    ASSUME RouterInv, ChainConnected, FollowEdge PROVE ChainConnected'
<1>1. /\ phase = "walk" /\ cursor # NoEdge /\ HopEntry # NoRoute /\ Built
      /\ chain' = Append(chain, cursor) /\ cursor' = HopEntry.prev_edge
      /\ UNCHANGED <<edges, data, query, phase>> /\ chain \in Seq(EdgeId)
  BY DEF FollowEdge, table, Built, RouterInv, TypeOK
<1>2. /\ cursor \in EdgeId /\ edges[cursor].to = Here
  BY <1>1, TailReached
<1>3. /\ Len(chain') = Len(chain) + 1 /\ chain' # <<>> /\ chain'[Len(chain) + 1] = cursor
      /\ \A n \in 1 .. Len(chain) : chain'[n] = chain[n]
      /\ Len(chain) \in Nat /\ (chain = <<>> <=> Len(chain) = 0)
  BY <1>1, <1>2
<1>4. edges'[chain'[1]].to = query'.to
  <2>1. CASE chain = <<>>
    BY <1>1, <1>2, <1>3, <2>1 DEF Here
  <2>2. CASE chain # <<>>
    BY <1>1, <1>3, <2>2 DEF ChainConnected
  <2> QED
    BY <2>1, <2>2
<1>5. ASSUME NEW n \in 1 .. Len(chain') - 1
      PROVE  edges'[chain'[n]].from = edges'[chain'[n + 1]].to
  <2>1. CASE n = Len(chain)
    BY <1>1, <1>2, <1>3, <2>1 DEF Here
  <2>2. CASE n # Len(chain)
    <3>1. n \in 1 .. Len(chain) - 1 /\ n \in 1 .. Len(chain) /\ n + 1 \in 1 .. Len(chain)
      BY <1>3, <2>2
    <3>2. edges[chain[n]].from = edges[chain[n + 1]].to
      BY <1>1, <3>1 DEF ChainConnected
    <3> QED
      BY <1>1, <1>3, <3>1, <3>2
  <2> QED
    BY <2>1, <2>2
<1>6. edges'[chain'[Len(chain')]].from = edges[cursor].from
  BY <1>1, <1>3
<1> QED
  BY <1>1, <1>3, <1>4, <1>5, <1>6 DEF ChainConnected, HopEntry

\* Every step keeps the partial itinerary connected.
LEMMA ChainStep == RouterInv /\ ChainConnected /\ [Next]_vars => ChainConnected'
<1> SUFFICES ASSUME RouterInv, ChainConnected, [Next]_vars PROVE ChainConnected'
  OBVIOUS
<1>1. CASE Construct
  <2>1. phase' # "walk"
    BY <1>1 DEF Construct, EnterRow, ScanEdge, RejectNegativeEdge, StartRelaxing, SkipRow,
                RelaxRoute, SkipCell, GoTo
  <2> QED
    BY <2>1 DEF ChainConnected
<1>2. ASSUME NEW i \in Vertex, NEW j \in Vertex, Ask(i, j) PROVE ChainConnected'
  BY <1>2 DEF Ask, ChainConnected, table
<1>3. CASE FollowEdge
  BY <1>3, FollowEdgeConnected
<1>4. CASE Return
  BY <1>4 DEF Return, ChainConnected
<1>5. CASE UNCHANGED vars
  BY <1>5 DEF vars, ChainConnected
<1> QED
  BY <1>1, <1>2, <1>3, <1>4, <1>5 DEF Next, Walk

\* The itinerary under construction is always a connected path into the
\* requested vertex.
THEOREM ChainAlwaysConnected == Spec => []ChainConnected
<1>1. Init => ChainConnected
  BY DEF Init, ChainConnected
<1> QED
  BY <1>1, ChainStep, RouterInvariant, PTL DEF Spec

\* The dereference in BuildRoute's loop never meets an empty optional.
THEOREM HopAlwaysExists == Spec => []HopExists
<1>1. RouterInv /\ ChainConnected => HopExists
  <2> SUFFICES ASSUME RouterInv, ChainConnected, phase = "walk", cursor # NoEdge
               PROVE  HopEntry # NoRoute
    BY DEF HopExists
  <2> QED
    BY TailReached DEF Built
<1> QED
  BY <1>1, ChainAlwaysConnected, RouterInvariant, PTL

-----------------------------------------------------------------------------
(* No circles: why an itinerary never comes back to a vertex it has left. *)

\* An entry that some edge leads to.
HasLast(r) == r # NoRoute /\ r.prev_edge # NoEdge

\* Of any vertices, one has its predecessor among the others: what a row of
\* the table records leads back to the row's own vertex, never in a circle.
Grounded(g, row) ==
    \A S \in SUBSET Vertex : S # {} =>
        \E j \in S : HasLast(row[j]) => g[row[j].prev_edge].from \notin S

\* What row i is going to be when m has been routed through.
Ahead(D, m, i) ==
    [j \in Vertex |-> IF D[i][m] = NoRoute \/ D[m][j] = NoRoute THEN D[i][j]
                      ELSE Relaxed(D[i][m], D[m][j], D[i][j])]

\* The predecessor of an entry is an edge into its column, paid for by a route
\* to its tail, which is where the row starts or has been routed through.
LastsFit(g, D, n) ==
    \A i, j \in Vertex : HasLast(D[i][j]) =>
        LET e == D[i][j].prev_edge IN
        /\ e \in 1 .. Len(g) /\ g[e].to = j
        /\ Within(D, i, g[e].from, D[i][j].weight - g[e].weight)
        /\ g[e].from = i \/ g[e].from < n

\* A table that vertices 0 .. n - 1 have been routed through.
WellMade(g, D, n) ==
    /\ D \in Table /\ Nonnegative(D) /\ ZeroDiagonal(D)
    /\ Triangle(D, n)
    /\ \A i, j \in Vertex : D[i][j] # NoRoute => (D[i][j].prev_edge = NoEdge <=> i = j)
    /\ \A e \in 1 .. Len(g) : Within(D, g[e].from, g[e].to, g[e].weight)
    /\ LastsFit(g, D, n)

\* Only the predecessors of a row decide whether it is grounded.
LEMMA SameLasts ==
    ASSUME NEW g, NEW R, NEW Q, Grounded(g, R),
           \A j \in Vertex : HasLast(Q[j]) => HasLast(R[j]) /\ Q[j].prev_edge = R[j].prev_edge
    PROVE  Grounded(g, Q)
<1> SUFFICES ASSUME NEW S \in SUBSET Vertex, S # {}
             PROVE  \E j \in S : HasLast(Q[j]) => g[Q[j].prev_edge].from \notin S
  BY DEF Grounded
<1>1. PICK j \in S : HasLast(R[j]) => g[R[j].prev_edge].from \notin S
  BY DEF Grounded
<1> QED
  BY <1>1

\* Where every predecessor starts at the row's own vertex there is no circle.
LEMMA FirstGrounded ==
    ASSUME NEW g, NEW R, NEW i \in Vertex, R[i] = ZeroRoute,
           \A j \in Vertex : HasLast(R[j]) => g[R[j].prev_edge].from = i
    PROVE  Grounded(g, R)
<1> SUFFICES ASSUME NEW S \in SUBSET Vertex, S # {}
             PROVE  \E j \in S : HasLast(R[j]) => g[R[j].prev_edge].from \notin S
  BY DEF Grounded
<1>1. CASE i \in S
  BY <1>1, ZeroRouteType DEF HasLast
<1>2. CASE i \notin S
  BY <1>2
<1> QED
  BY <1>1, <1>2

\* When every cell is covered the round is over: what was ahead is there.
LEMMA NothingAhead ==
    ASSUME NEW D \in Table, Nonnegative(D), NEW m \in Vertex,
           \A i, j \in Vertex : Covered(D, m, i, j)
    PROVE  \A i \in Vertex : Ahead(D, m, i) = D[i]
<1> SUFFICES ASSUME NEW i \in Vertex PROVE Ahead(D, m, i) = D[i]
  OBVIOUS
<1>1. ASSUME NEW j \in Vertex PROVE Ahead(D, m, i)[j] = D[i][j]
  <2>1. CASE D[i][m] = NoRoute \/ D[m][j] = NoRoute
    BY <2>1 DEF Ahead
  <2>2. CASE D[i][m] # NoRoute /\ D[m][j] # NoRoute
    <3>1. Within(D, i, j, D[i][m].weight + D[m][j].weight)
      BY <2>2 DEF Covered
    <3>2. /\ D[i][m].weight \in Int /\ D[m][j].weight \in Int /\ D[i][j].weight \in Int
          /\ D[i][j] # NoRoute
      BY <2>2, <3>1 DEF Nonnegative, Within
    <3>3. ~Improves(D[i][m].weight + D[m][j].weight, D[i][j])
      BY <3>1, <3>2 DEF Within, Improves
    <3> QED
      BY <2>2, <3>3 DEF Ahead, Relaxed
  <2> QED
    BY <2>1, <2>2
<1>2. D[i] \in [Vertex -> RouteInternalData \cup {NoRoute}]
  BY DEF Table
<1>3. Ahead(D, m, i) = [j \in Vertex |-> Ahead(D, m, i)[j]] /\ D[i] = [j \in Vertex |-> D[i][j]]
  BY <1>2 DEF Ahead
<1> QED
  BY <1>1, <1>3

\* Routing through one more vertex closes no circle: vertices whose route gets
\* better now come to m and go on as the row of m does, and a vertex whose
\* route stays has its predecessor among those whose routes stay.
LEMMA NextRound ==
    ASSUME NEW g \in Seq(Edge), NEW m \in Vertex, NEW D, WellMade(g, D, m),
           \A i \in Vertex : Grounded(g, D[i])
    PROVE  \A i \in Vertex : Grounded(g, Ahead(D, m, i))
<1> SUFFICES ASSUME NEW i \in Vertex, NEW S \in SUBSET Vertex, S # {}
             PROVE  \E j \in S : HasLast(Ahead(D, m, i)[j]) =>
                                   g[Ahead(D, m, i)[j].prev_edge].from \notin S
  BY DEF Grounded
<1> DEFINE Better(j) == /\ D[i][m] # NoRoute /\ D[m][j] # NoRoute
                        /\ Improves(D[i][m].weight + D[m][j].weight, D[i][j])
<1>1. \A a, b \in Vertex : D[a][b] # NoRoute =>
          D[a][b].weight \in Int /\ D[a][b].weight >= 0 /\ D[a][b].prev_edge \in Nat
  BY DEF WellMade, Nonnegative
<1>2. \A a \in Vertex : D[a][a] # NoRoute /\ D[a][a].weight = 0
  BY ZeroRouteType DEF WellMade, ZeroDiagonal
<1>3. \A j \in Vertex : ~Better(j) => Ahead(D, m, i)[j] = D[i][j]
  BY DEF Ahead, Relaxed
<1>4. \A j \in Vertex : Better(j) =>
          HasLast(D[m][j]) /\ Ahead(D, m, i)[j].prev_edge = D[m][j].prev_edge
  <2> SUFFICES ASSUME NEW j \in Vertex, Better(j)
               PROVE  HasLast(D[m][j]) /\ Ahead(D, m, i)[j].prev_edge = D[m][j].prev_edge
    OBVIOUS
  <2>1. j # m
    BY <1>1, <1>2 DEF Improves
  <2>2. D[m][j] # NoRoute /\ D[m][j].prev_edge # NoEdge
    BY <2>1 DEF WellMade
  <2>3. Ahead(D, m, i)[j] = [weight |-> D[i][m].weight + D[m][j].weight,
                             prev_edge |-> D[m][j].prev_edge]
    BY <2>2 DEF Ahead, Relaxed
  <2> QED
    BY <2>2, <2>3 DEF HasLast
<1>5. ASSUME NEW j \in Vertex, HasLast(D[i][j]), ~Better(j)
      PROVE  ~Better(g[D[i][j].prev_edge].from)
  <2> SUFFICES ASSUME Better(g[D[i][j].prev_edge].from) PROVE FALSE
    OBVIOUS
  <2>1. PICK e \in 1 .. Len(g) : e = D[i][j].prev_edge
    BY <1>5 DEF WellMade, LastsFit
  <2>2. g[e].from \in Vertex /\ g[e].weight \in Int
    <3>1. g[e] \in Edge
      BY <2>1
    <3> QED
      BY <3>1 DEF Edge
  <2>3. PICK t \in Vertex : t = g[e].from
    BY <2>2
  <2>4. PICK w \in Int : w = g[e].weight
    BY <2>2
  <2>5. /\ Within(D, i, t, D[i][j].weight - w) /\ g[e].to = j /\ (t = i \/ t < m)
    BY <1>5, <2>1, <2>3, <2>4 DEF WellMade, LastsFit
  <2>6. Within(D, t, j, w)
    <3>1. Within(D, g[e].from, g[e].to, g[e].weight)
      BY <2>1 DEF WellMade
    <3> QED
      BY <2>3, <2>4, <2>5, <3>1
  <2>7. /\ D[i][m] # NoRoute /\ D[m][t] # NoRoute
        /\ Improves(D[i][m].weight + D[m][t].weight, D[i][t])
    BY <2>1, <2>3
  <2>8. t # i
    BY <1>1, <1>2, <2>7 DEF Improves
  <2>9. t \in 0 .. m - 1
    BY <2>5, <2>8 DEF Vertex
  <2>10. Within(D, m, j, D[m][t].weight + D[t][j].weight)
    BY <2>6, <2>7, <2>9 DEF WellMade, Triangle, Within
  <2>11. /\ D[i][j] # NoRoute /\ D[i][t] # NoRoute /\ D[t][j] # NoRoute /\ D[m][j] # NoRoute
         /\ D[i][t].weight <= D[i][j].weight - w /\ D[t][j].weight <= w
         /\ D[m][j].weight <= D[m][t].weight + D[t][j].weight
    BY <1>5, <2>5, <2>6, <2>10 DEF HasLast, Within
  <2>12. D[i][m].weight + D[m][t].weight < D[i][t].weight
    BY <2>7, <2>11 DEF Improves
  <2>13. /\ D[i][j].weight \in Int /\ D[i][t].weight \in Int /\ D[t][j].weight \in Int
         /\ D[m][j].weight \in Int /\ D[i][m].weight \in Int /\ D[m][t].weight \in Int
    BY <1>1, <2>7, <2>11
  <2>14. D[i][m].weight + D[m][j].weight < D[i][j].weight
    BY <2>11, <2>12, <2>13
  <2>15. Better(j)
    BY <2>7, <2>11, <2>14 DEF Improves
  <2> QED
    BY <1>5, <2>15
<1> HIDE DEF Better
<1>6. CASE \A j \in S : Better(j)
  <2>1. PICK j \in S : HasLast(D[m][j]) => g[D[m][j].prev_edge].from \notin S
    BY DEF Grounded
  <2> QED
    BY <1>4, <1>6, <2>1
<1>7. CASE \E j \in S : ~Better(j)
  <2> DEFINE U == {j \in S : ~Better(j)}
  <2>1. U \in SUBSET Vertex /\ U # {}
    BY <1>7
  <2>2. PICK j \in U : HasLast(D[i][j]) => g[D[i][j].prev_edge].from \notin U
    BY <2>1 DEF Grounded
  <2>3. HasLast(D[i][j]) => g[D[i][j].prev_edge].from \notin S
    BY <1>5, <2>2
  <2> QED
    BY <1>3, <2>2, <2>3
<1> QED
  BY <1>6, <1>7

\* Predecessors start where the row does, or where it has been routed through.
TailsInv ==
    \A i, j \in Vertex : HasLast(data[i][j]) =>
        LET t == edges[data[i][j].prev_edge].from IN
        /\ phase = "init" => t = i
        /\ phase = "relax" => t = i \/ t <= cell.through

\* While a round is on, it is the table that comes of it that has no circles:
\* half of a row may point into what the other half still has to become.
CirclesInv ==
    /\ TailsInv
    /\ phase = "relax" => \A i \in Vertex : Grounded(edges, Ahead(data, cell.through, i))
    /\ Built => \A i \in Vertex : Grounded(edges, data[i])

\* What a step of the loops must still do for CirclesInv.
Safely == \A i \in Vertex :
    /\ Grounded(edges, Ahead(data', cell.through, i))
    /\ \A j \in Vertex : HasLast(data'[i][j]) =>
          LET t == edges[data'[i][j].prev_edge].from IN t = i \/ t <= cell.through

\* At the end of a round the next one finds a table that it can build on.
LEMMA RoundWellMade ==
    ASSUME RouterInv, NEW c, Moves(c), Safely, c.through # cell.through
    PROVE  WellMade(edges, data', c.through)
<1> DEFINE m == cell.through
<1>1. /\ m \in Vertex /\ edges \in Seq(Edge) /\ vertex = VertexCount /\ todo = {}
      /\ data' \in Table /\ Nonnegative(data') /\ ZeroDiagonal(data')
      /\ c.through = m + 1 /\ NoUndercut(data', m, m) /\ m \in Nat
  BY InRound, VertexCountAssumption DEF Moves, Vertex
<1>2. \A i, j \in Vertex : Covered(data', m, i, j)
  BY DEF Moves, Behind
<1>3. Triangle(data', m + 1)
  BY <1>1, <1>2, TriangleGrows
<1>4. \A e \in 1 .. Len(edges) : Within(data', edges[e].from, edges[e].to, edges[e].weight)
  <2> SUFFICES ASSUME NEW e \in EdgeId PROVE Within(data', edges[e].from, edges[e].to, edges[e].weight)
    BY DEF EdgeId
  <2>1. edges[e].from \in Vertex /\ edges[e].to \in Vertex /\ edges[e].weight \in Int
    BY <1>1, EdgeFields
  <2>2. edges[e].from < VertexCount
    BY <2>1, VertexCountAssumption DEF Vertex
  <2>3. Within(data, edges[e].from, edges[e].to, edges[e].weight)
    BY <1>1, <2>2 DEF RouterInv, EdgesInv
  <2> QED
    BY <2>1, <2>3 DEF Moves
<1>5. LastsFit(edges, data', m + 1)
  <2> SUFFICES ASSUME NEW i \in Vertex, NEW j \in Vertex, HasLast(data'[i][j])
               PROVE  LET e == data'[i][j].prev_edge IN
                      /\ e \in 1 .. Len(edges) /\ edges[e].to = j
                      /\ Within(data', i, edges[e].from, data'[i][j].weight - edges[e].weight)
                      /\ edges[e].from = i \/ edges[e].from < m + 1
    BY DEF LastsFit
  <2>1. PICK e : e = data'[i][j].prev_edge
    OBVIOUS
  <2>2. /\ e \in EdgeId /\ edges[e].to = j
        /\ Via(data', m, i, edges[e].from, data'[i][j].weight - edges[e].weight)
    BY <2>1 DEF Moves, HasLast
  <2>3. edges[e].from \in Vertex /\ edges[e].weight \in Int /\ data'[i][j].weight \in Int
    BY <1>1, <2>2, EdgeFields DEF Nonnegative, HasLast
  <2>4. data'[i][j].weight - edges[e].weight \in Int
    BY <2>3
  <2>5. Within(data', i, edges[e].from, data'[i][j].weight - edges[e].weight)
    BY <1>1, <1>2, <2>2, <2>3, <2>4, RoundOver
  <2>6. edges[e].from = i \/ edges[e].from <= m
    BY <2>1 DEF Safely
  <2>7. edges[e].from = i \/ edges[e].from < m + 1
    BY <1>1, <2>3, <2>6 DEF Vertex
  <2>8. e \in 1 .. Len(edges)
    BY <2>2 DEF EdgeId
  <2> QED
    BY <2>1, <2>2, <2>5, <2>7, <2>8
<1>6. \A i, j \in Vertex : data'[i][j] # NoRoute => (data'[i][j].prev_edge = NoEdge <=> i = j)
  BY DEF Moves
<1> QED
  BY <1>1, <1>3, <1>4, <1>5, <1>6 DEF WellMade

\* A step of the loops that does nothing worse opens no circle.
LEMMA MovesCircles ==
    ASSUME RouterInv, NEW c, Moves(c), Safely PROVE CirclesInv'
<1> DEFINE m == cell.through
<1>1. /\ m \in Vertex /\ c.through \in Nat /\ c.through <= VertexCount /\ edges \in Seq(Edge)
      /\ edges' = edges /\ cell' = c
      /\ phase' = IF c.through < VertexCount THEN "relax" ELSE "ready"
      /\ data' \in Table /\ Nonnegative(data')
  BY InRound, VertexCountAssumption DEF Moves, GoTo, CellType
<1>2. m < VertexCount /\ m \in Nat
  BY <1>1, VertexCountAssumption DEF Vertex
<1>3. CASE c.through = m
  <2>1. phase' = "relax" /\ ~Built'
    BY <1>1, <1>2, <1>3 DEF Built
  <2>2. TailsInv'
    BY <1>1, <1>3, <2>1 DEF TailsInv, Safely
  <2> QED
    BY <1>1, <1>3, <2>1, <2>2 DEF CirclesInv, Safely
<1>4. CASE c.through # m
  <2>1. WellMade(edges, data', c.through) /\ c.through = m + 1
    BY <1>4, RoundWellMade DEF Moves
  <2>2. \A i, j \in Vertex : Covered(data', m, i, j)
    BY <1>4 DEF Moves, Behind
  <2>3. \A i \in Vertex : Ahead(data', m, i) = data'[i]
    BY <1>1, <2>2, NothingAhead
  <2>4. \A i \in Vertex : Grounded(edges, data'[i])
    BY <2>3 DEF Safely
  <2>5. TailsInv'
    <3> SUFFICES ASSUME NEW i \in Vertex, NEW j \in Vertex, HasLast(data'[i][j])
                 PROVE  LET t == edges[data'[i][j].prev_edge].from IN t = i \/ t <= c.through
      BY <1>1 DEF TailsInv
    <3>1. PICK e \in 1 .. Len(edges) : e = data'[i][j].prev_edge
      BY <2>1 DEF WellMade, LastsFit
    <3>2. edges[e].from \in Vertex
      BY <1>1, <3>1, EdgeFields DEF EdgeId
    <3>3. edges[e].from = i \/ edges[e].from <= m
      BY <3>1 DEF Safely
    <3>4. edges[e].from = i \/ edges[e].from <= c.through
      BY <1>2, <2>1, <3>2, <3>3 DEF Vertex
    <3> QED
      BY <3>1, <3>4
  <2>6. ASSUME phase' = "relax" PROVE \A i \in Vertex : Grounded(edges, Ahead(data', c.through, i))
    <3>1. c.through \in Vertex
      BY <1>1, <2>6, VertexCountAssumption DEF Vertex
    <3> QED
      BY <1>1, <2>1, <2>4, <3>1, NextRound
  <2> QED
    BY <1>1, <2>4, <2>5, <2>6 DEF CirclesInv, Built
<1> QED
  BY <1>3, <1>4

\* Where there is nothing to relax nothing changes.
LEMMA SkipSafely == ASSUME RouterInv, CirclesInv, SkipRow \/ SkipCell PROVE Safely
<1>1. phase = "relax" /\ data' = data
  BY DEF SkipRow, SkipCell
<1> QED
  BY <1>1 DEF CirclesInv, TailsInv, Safely

\* A relaxation writes what was ahead.
LEMMA RelaxSafely == ASSUME RouterInv, CirclesInv, RelaxRoute PROVE Safely
<1> DEFINE m == cell.through
           p == cell.from
           q == cell.to
<1>1. /\ phase = "relax" /\ data[p][m] # NoRoute /\ data[m][q] # NoRoute
      /\ m \in Vertex /\ p \in Vertex /\ q \in Vertex /\ Nonnegative(data) /\ Nonnegative(data')
  BY InRound, RelaxRouteTable DEF RelaxRoute, RouteFrom, RouteTo
<1>2. /\ \A i, j \in Vertex :
            \/ data'[i][j] = data[i][j]
            \/ /\ i = p /\ j = q /\ data'[i][j] # NoRoute
               /\ data'[i][j].weight = data[p][m].weight + data[m][q].weight
               /\ data'[i][j].prev_edge = data[m][q].prev_edge
               /\ data[m][q].prev_edge # NoEdge
               /\ Improves(data'[i][j].weight, data[i][j])
      /\ \A i \in Vertex : data'[i][m] = data[i][m] /\ data'[m][i] = data[m][i]
  BY RelaxRouteTable
<1> SUFFICES ASSUME NEW i \in Vertex
             PROVE  /\ Grounded(edges, Ahead(data', m, i))
                    /\ \A j \in Vertex : HasLast(data'[i][j]) =>
                         LET t == edges[data'[i][j].prev_edge].from IN t = i \/ t <= m
  BY DEF Safely
<1>3. ASSUME NEW j \in Vertex, HasLast(Ahead(data', m, i)[j])
      PROVE  /\ HasLast(Ahead(data, m, i)[j])
             /\ Ahead(data', m, i)[j].prev_edge = Ahead(data, m, i)[j].prev_edge
  <2>1. CASE data'[i][j] = data[i][j]
    <3>1. Ahead(data', m, i)[j] = Ahead(data, m, i)[j]
      BY <1>1, <1>2, <2>1 DEF Ahead
    <3> QED
      BY <1>3, <3>1
  <2>2. CASE /\ i = p /\ j = q /\ data'[i][j] # NoRoute
             /\ data'[i][j].weight = data[p][m].weight + data[m][q].weight
             /\ data'[i][j].prev_edge = data[m][q].prev_edge
             /\ data[m][q].prev_edge # NoEdge
             /\ Improves(data'[i][j].weight, data[i][j])
    <3> DEFINE sum == data[p][m].weight + data[m][q].weight
               r == [weight |-> sum, prev_edge |-> data[m][q].prev_edge]
    <3>1. sum \in Int /\ data[m][q].prev_edge \in Nat
      BY <1>1 DEF Nonnegative
    <3>2. r \in RouteInternalData /\ r # NoRoute /\ r.prev_edge = data[m][q].prev_edge
      BY <3>1, NoRouteAssumption DEF RouteInternalData
    <3>3. Ahead(data, m, i)[j] = r
      BY <1>1, <2>2 DEF Ahead, Relaxed
    <3>4. ~Improves(sum, data'[i][j])
      BY <2>2, <3>1 DEF Improves
    <3>5. Ahead(data', m, i)[j] = data'[i][j]
      BY <1>1, <1>2, <2>2, <3>4 DEF Ahead, Relaxed
    <3> HIDE DEF r, sum
    <3> QED
      BY <2>2, <3>2, <3>3, <3>5 DEF HasLast
  <2> QED
    BY <1>2, <2>1, <2>2
<1>4. Grounded(edges, Ahead(data, m, i))
  BY <1>1 DEF CirclesInv
<1>5. Grounded(edges, Ahead(data', m, i))
  BY <1>3, <1>4, SameLasts
<1>6. ASSUME NEW j \in Vertex, HasLast(data'[i][j])
      PROVE  LET t == edges[data'[i][j].prev_edge].from IN t = i \/ t <= m
  <2>1. CASE data'[i][j] = data[i][j]
    BY <1>1, <1>6, <2>1 DEF CirclesInv, TailsInv
  <2>2. CASE data'[i][j].prev_edge = data[m][q].prev_edge /\ data[m][q].prev_edge # NoEdge
    <3>1. edges[data[m][q].prev_edge].from = m \/ edges[data[m][q].prev_edge].from <= m
      BY <1>1, <2>2 DEF CirclesInv, TailsInv, HasLast
    <3>2. m <= m
      BY <1>1, VertexCountAssumption DEF Vertex
    <3> QED
      BY <2>2, <3>1, <3>2
  <2> QED
    BY <1>2, <2>1, <2>2
<1> QED
  BY <1>5, <1>6

\* A row is entered with no predecessor at all.
LEMMA EnterRowCircles == ASSUME RouterInv, CirclesInv, EnterRow PROVE CirclesInv'
<1>1. /\ data \in Table /\ vertex \in Vertex /\ phase = "init" /\ phase' = "init" /\ edges' = edges
      /\ data' = Put(data, vertex, vertex, ZeroRoute)
  BY VertexCountAssumption DEF RouterInv, EnterRow, TypeOK, Table, Vertex, ZeroRoute, Put
<1>2. ZeroRoute \in RouteInternalData \cup {NoRoute}
  BY ZeroRouteType
<1>3. \A i, j \in Vertex :
         Put(data, vertex, vertex, ZeroRoute)[i][j] = IF i = vertex /\ j = vertex THEN ZeroRoute ELSE data[i][j]
  BY <1>1, <1>2, PutEntry
<1>4. ASSUME NEW i \in Vertex, NEW j \in Vertex, HasLast(data'[i][j])
      PROVE  edges[data'[i][j].prev_edge].from = i
  <2>1. data'[i][j] = data[i][j]
    BY <1>1, <1>3, <1>4, ZeroRouteType DEF HasLast
  <2> QED
    BY <1>1, <1>4, <2>1 DEF CirclesInv, TailsInv
<1> QED
  BY <1>1, <1>4 DEF CirclesInv, TailsInv, Built

\* An edge that is read starts where its row does.
LEMMA ScanEdgeCircles == ASSUME RouterInv, CirclesInv, ScanEdge PROVE CirclesInv'
<1>1. /\ data \in Table /\ phase = "init" /\ phase' = "init" /\ edges' = edges /\ edges \in Seq(Edge)
  BY DEF RouterInv, ScanEdge, TypeOK, Table
<1>2. PICK e \in todo : data' = KeepShorter(vertex - 1, e)
  BY DEF ScanEdge
<1> DEFINE row == vertex - 1
           to == edges[e].to
           new == [weight |-> edges[e].weight, prev_edge |-> e]
<1>3. /\ e \in EdgeId /\ e \in Nat /\ edges[e].from = row /\ row \in Vertex /\ to \in Vertex
      /\ edges[e].weight \in Int
  BY <1>1, EdgeFields DEF RouterInv, TypeOK, RowsInv
<1>4. new \in RouteInternalData \cup {NoRoute} /\ new.prev_edge = e
  BY <1>3 DEF RouteInternalData
<1> HIDE DEF row, to, new
<1>5. \A i, j \in Vertex :
         Put(data, row, to, new)[i][j] = IF i = row /\ j = to THEN new ELSE data[i][j]
  BY <1>1, <1>3, <1>4, PutEntry
<1>6. data' = Put(data, row, to, new) \/ data' = data
  BY <1>2 DEF KeepShorter, Put, row, to, new
<1>7. ASSUME NEW i \in Vertex, NEW j \in Vertex, HasLast(data'[i][j])
      PROVE  edges[data'[i][j].prev_edge].from = i
  <2>1. data'[i][j] = data[i][j] \/ (i = row /\ data'[i][j] = new)
    BY <1>5, <1>6
  <2>2. CASE data'[i][j] = data[i][j]
    BY <1>1, <1>7, <2>2 DEF CirclesInv, TailsInv
  <2> QED
    BY <1>3, <1>4, <2>1, <2>2
<1> QED
  BY <1>1, <1>7 DEF CirclesInv, TailsInv, Built

\* Before the first round no vertex has been routed through.
LEMMA StartWellMade ==
    ASSUME RouterInv, CirclesInv, phase = "init", todo = {}, vertex = VertexCount
    PROVE  WellMade(edges, data, 0)
<1>1. edges \in Seq(Edge) /\ data \in Table
  BY DEF RouterInv, TypeOK, Table
<1>2. \A i \in Vertex : i < VertexCount
  BY VertexCountAssumption DEF Vertex
<1>3. Nonnegative(data)
  BY <1>1 DEF Nonnegative, RouterInv, EntriesInv, Table, RouteInternalData
<1>4. ZeroDiagonal(data)
  BY <1>2 DEF ZeroDiagonal, RouterInv, EntriesInv, ZeroRoute
<1>5. Triangle(data, 0)
  BY DEF Triangle
<1>6. \A i, j \in Vertex : data[i][j] # NoRoute => (data[i][j].prev_edge = NoEdge <=> i = j)
  BY DEF RouterInv, PredecessorsFit
<1>7. \A e \in 1 .. Len(edges) : Within(data, edges[e].from, edges[e].to, edges[e].weight)
  <2> SUFFICES ASSUME NEW e \in EdgeId PROVE Within(data, edges[e].from, edges[e].to, edges[e].weight)
    BY DEF EdgeId
  <2>1. edges[e].from < vertex
    BY <1>1, <1>2, EdgeFields
  <2> QED
    BY <2>1 DEF RouterInv, EdgesInv
<1>8. LastsFit(edges, data, 0)
  <2> SUFFICES ASSUME NEW i \in Vertex, NEW j \in Vertex, HasLast(data[i][j])
               PROVE  LET e == data[i][j].prev_edge IN
                      /\ e \in 1 .. Len(edges) /\ edges[e].to = j
                      /\ Within(data, i, edges[e].from, data[i][j].weight - edges[e].weight)
                      /\ edges[e].from = i
    BY DEF LastsFit
  <2>1. data[i][j].prev_edge \in EdgeId /\ edges[data[i][j].prev_edge].to = j
    BY DEF RouterInv, PredecessorsFit, HasLast
  <2>2. Within(data, i, edges[data[i][j].prev_edge].from,
               data[i][j].weight - edges[data[i][j].prev_edge].weight)
    BY DEF RouterInv, LastEdgeInv, HasLast
  <2>3. edges[data[i][j].prev_edge].from = i
    BY DEF CirclesInv, TailsInv
  <2> QED
    BY <2>1, <2>2, <2>3 DEF EdgeId
<1> QED
  BY <1>1, <1>3, <1>4, <1>5, <1>6, <1>7, <1>8 DEF WellMade

\* The direct routes have no circles, nor has what the first round makes of them.
LEMMA StartRelaxingCircles == ASSUME RouterInv, CirclesInv, StartRelaxing PROVE CirclesInv'
<1>1. /\ phase = "init" /\ todo = {} /\ vertex = VertexCount
      /\ phase' = "relax" /\ edges' = edges /\ data' = data
      /\ cell'.through = 0 /\ edges \in Seq(Edge)
  BY DEF StartRelaxing, table, walk, RouterInv, RowsInv, TypeOK
<1>2. WellMade(edges, data, 0) /\ 0 \in Vertex
  BY <1>1, StartWellMade, VertexCountAssumption DEF Vertex
<1>3. \A i \in Vertex : Grounded(edges, data[i])
  <2>1. \A i, j \in Vertex : HasLast(data[i][j]) => edges[data[i][j].prev_edge].from = i
    BY <1>1 DEF CirclesInv, TailsInv
  <2>2. \A i \in Vertex : data[i][i] = ZeroRoute
    BY <1>2 DEF WellMade, ZeroDiagonal
  <2> QED
    BY <2>1, <2>2, FirstGrounded
<1>4. \A i \in Vertex : Grounded(edges, Ahead(data, 0, i))
  BY <1>1, <1>2, <1>3, NextRound
<1>5. TailsInv'
  BY <1>1 DEF CirclesInv, TailsInv
<1> QED
  BY <1>1, <1>4, <1>5 DEF CirclesInv, Built

\* No step closes a circle of predecessors.
LEMMA CirclesStep == RouterInv /\ CirclesInv /\ [Next]_vars => CirclesInv'
<1> SUFFICES ASSUME RouterInv, CirclesInv, [Next]_vars PROVE CirclesInv'
  OBVIOUS
<1>1. CASE EnterRow
  BY <1>1, EnterRowCircles
<1>2. CASE ScanEdge
  BY <1>2, ScanEdgeCircles
<1>3. CASE RejectNegativeEdge
  BY <1>3 DEF RejectNegativeEdge, table, CirclesInv, TailsInv, Built
<1>4. CASE StartRelaxing
  BY <1>4, StartRelaxingCircles
<1>5. CASE SkipRow \/ SkipCell
  BY <1>5, SkipMoves, SkipSafely, MovesCircles
<1>6. CASE RelaxRoute
  BY <1>6, RelaxRouteMoves, RelaxSafely, MovesCircles
<1>7. CASE Walk \/ \E i, j \in Vertex : Ask(i, j)
  <2>1. /\ Built /\ Built' /\ edges' = edges /\ data' = data
        /\ phase' # "relax" /\ phase' # "init"
    BY <1>7 DEF Walk, FollowEdge, Return, Ask, table, Built
  <2> QED
    BY <2>1 DEF CirclesInv, TailsInv
<1>8. CASE UNCHANGED vars
  BY <1>8 DEF vars, CirclesInv, TailsInv, Built
<1> QED
  BY <1>1, <1>2, <1>3, <1>4, <1>5, <1>6, <1>7, <1>8 DEF Next, Construct

\* The predecessors of a finished row never run in a circle, whatever its
\* zero-weight edges: this is why the loop of BuildRoute ends.
THEOREM NeverACircle == Spec => [](Built => \A i \in Vertex : Grounded(edges, data[i]))
<1>1. Init => CirclesInv
  BY DEF Init, CirclesInv, TailsInv, HasLast, Built
<1>2. CirclesInv => (Built => \A i \in Vertex : Grounded(edges, data[i]))
  BY DEF CirclesInv
<1> QED
  BY <1>1, <1>2, CirclesStep, RouterInvariant, PTL DEF Spec

-----------------------------------------------------------------------------
(* Itineraries *)

\* A path of edges from i to j.
Leads(g, i, j, p) ==
    /\ p = <<>> => i = j
    /\ p # <<>> => g[p[1]].from = i /\ g[p[Len(p)]].to = j
    /\ \A n \in 1 .. Len(p) - 1 : g[p[n]].to = g[p[n + 1]].from

\* Each of its edges is the predecessor that the row records for its head.
Recorded(g, row, p) ==
    \A n \in 1 .. Len(p) : row[g[p[n]].to] # NoRoute /\ row[g[p[n]].to].prev_edge = p[n]

\* The vertex it has come to after n edges.
CallAt(g, i, p, n) == IF n = 0 THEN i ELSE g[p[n]].to

\* What a reversed sequence holds.
LEMMA ReverseAt ==
    ASSUME NEW T, NEW c \in Seq(T)
    PROVE  /\ Reverse(c) \in Seq(T) /\ Len(Reverse(c)) = Len(c) /\ Len(c) \in Nat
           /\ \A n \in 1 .. Len(c) : Reverse(c)[n] = c[Len(c) - n + 1] /\ Len(c) - n + 1 \in 1 .. Len(c)
           /\ Reverse(c) = <<>> <=> c = <<>>
<1>1. Len(c) \in Nat /\ \A n \in 1 .. Len(c) : c[n] \in T
  OBVIOUS
<1>2. \A n \in 1 .. Len(c) : Len(c) - n + 1 \in 1 .. Len(c)
  BY <1>1
<1>3. Reverse(c) = [n \in 1 .. Len(c) |-> c[(Len(c) - n) + 1]]
  BY DEF Reverse
<1>4. Reverse(c) \in [1 .. Len(c) -> T]
  BY <1>1, <1>2, <1>3
<1>5. Reverse(c) \in Seq(T) /\ Len(Reverse(c)) = Len(c)
  BY <1>1, <1>4
<1>6. Reverse(c) = <<>> <=> c = <<>>
  BY <1>5
<1> QED
  BY <1>1, <1>2, <1>3, <1>5, <1>6

\* The tail of an itinerary's edge is where the edge before it has led.
LEMMA TailIsCall ==
    ASSUME NEW g, NEW T, NEW p \in Seq(T), NEW i, NEW j, Leads(g, i, j, p), NEW n \in 1 .. Len(p)
    PROVE  n - 1 \in 0 .. Len(p) /\ g[p[n]].from = CallAt(g, i, p, n - 1)
<1>1. Len(p) \in Nat /\ p # <<>>
  OBVIOUS
<1>2. CASE n = 1
  BY <1>1, <1>2 DEF Leads, CallAt
<1>3. CASE n # 1
  <2>1. n - 1 \in 1 .. Len(p) - 1 /\ (n - 1) + 1 = n /\ n - 1 # 0
    BY <1>1, <1>3
  <2>2. g[p[n - 1]].to = g[p[(n - 1) + 1]].from
    BY <2>1 DEF Leads
  <2> QED
    BY <1>1, <2>1, <2>2 DEF CallAt
<1> QED
  BY <1>2, <1>3

\* An itinerary along recorded predecessors visits no vertex twice.
LEMMA CallsDiffer ==
    ASSUME NEW g \in Seq(Edge), NEW row, Grounded(g, row),
           NEW i \in Vertex, NEW j, NEW p \in Seq(1 .. Len(g)),
           Recorded(g, row, p), Leads(g, i, j, p)
    PROVE  /\ \A n \in 0 .. Len(p) : CallAt(g, i, p, n) \in Vertex
           /\ \A m, n \in 0 .. Len(p) : CallAt(g, i, p, m) = CallAt(g, i, p, n) => m = n
<1>1. Len(p) \in Nat /\ Len(g) \in Nat
      /\ \A n \in 1 .. Len(p) : p[n] \in 1 .. Len(g) /\ p[n] # NoEdge /\ g[p[n]] \in Edge
  BY DEF NoEdge
<1>2. ASSUME NEW n \in 0 .. Len(p) PROVE CallAt(g, i, p, n) \in Vertex
  <2>1. CASE n = 0
    BY <2>1 DEF CallAt
  <2>2. CASE n # 0
    <3>1. g[p[n]] \in Edge
      BY <1>1, <2>2
    <3> QED
      BY <2>2, <3>1 DEF CallAt, Edge
  <2> QED
    BY <2>1, <2>2
<1>3. ASSUME NEW m \in 0 .. Len(p), NEW n \in 0 .. Len(p), m < n,
             CallAt(g, i, p, m) = CallAt(g, i, p, n)
      PROVE  FALSE
  <2> DEFINE S == {CallAt(g, i, p, k) : k \in m + 1 .. n}
  <2>1. \A k \in m + 1 .. n : k \in 1 .. Len(p) /\ k \in 0 .. Len(p) /\ k # 0
    BY <1>1, <1>3
  <2>2. S \in SUBSET Vertex
    BY <1>2, <2>1
  <2>3. n \in m + 1 .. n
    BY <1>3
  <2>4. S # {}
    BY <2>3
  <2>5. PICK x \in S : HasLast(row[x]) => g[row[x].prev_edge].from \notin S
    BY <2>2, <2>4 DEF Grounded
  <2>6. PICK k \in m + 1 .. n : x = CallAt(g, i, p, k)
    BY <2>5
  <2>7. x = g[p[k]].to /\ HasLast(row[x]) /\ row[x].prev_edge = p[k]
    BY <1>1, <2>1, <2>6 DEF CallAt, Recorded, HasLast
  <2>8. g[p[k]].from = CallAt(g, i, p, k - 1)
    BY <2>1, TailIsCall
  <2>9. CallAt(g, i, p, k - 1) \notin S
    BY <2>5, <2>7, <2>8
  <2>10. CASE k = m + 1
    <3>1. k - 1 = m
      BY <2>10
    <3> QED
      BY <1>3, <2>3, <2>9, <3>1
  <2>11. CASE k # m + 1
    <3>1. k - 1 \in m + 1 .. n
      BY <2>11
    <3> QED
      BY <2>9, <3>1
  <2> QED
    BY <2>10, <2>11
<1>4. ASSUME NEW m \in 0 .. Len(p), NEW n \in 0 .. Len(p), CallAt(g, i, p, m) = CallAt(g, i, p, n)
      PROVE  m = n
  <2>1. m < n \/ n < m \/ m = n
    BY <1>1
  <2> QED
    BY <1>3, <1>4, <2>1
<1> QED
  BY <1>2, <1>4

\* So it has fewer edges than there are vertices.
LEMMA ItineraryIsShort ==
    ASSUME NEW g \in Seq(Edge), NEW row, Grounded(g, row),
           NEW i \in Vertex, NEW j, NEW p \in Seq(1 .. Len(g)),
           Recorded(g, row, p), Leads(g, i, j, p)
    PROVE  Len(p) < VertexCount
<1> DEFINE f == [n \in 0 .. Len(p) |-> CallAt(g, i, p, n)]
<1>1. f \in Injection(0 .. Len(p), Vertex)
  BY CallsDiffer DEF Injection, IsInjective
<1>2. Len(p) \in Nat /\ VertexCount \in Nat /\ VertexCount # 0
  BY VertexCountAssumption
<1>3. /\ IsFiniteSet(0 .. Len(p)) /\ Cardinality(0 .. Len(p)) = Len(p) + 1
      /\ IsFiniteSet(Vertex) /\ Cardinality(Vertex) = VertexCount
  <2>1. /\ IsFiniteSet(0 .. Len(p))
        /\ Cardinality(0 .. Len(p)) = IF 0 > Len(p) THEN 0 ELSE Len(p) - 0 + 1
    BY <1>2, FS_Interval
  <2>2. PICK v \in Int : v = VertexCount - 1
    BY <1>2
  <2>3. IsFiniteSet(0 .. v) /\ Cardinality(0 .. v) = IF 0 > v THEN 0 ELSE v - 0 + 1
    BY FS_Interval
  <2>4. Vertex = 0 .. v
    BY <2>2 DEF Vertex
  <2> QED
    BY <1>2, <2>1, <2>2, <2>3, <2>4
<1>4. Cardinality(0 .. Len(p)) <= Cardinality(Vertex)
  BY <1>1, <1>3, FS_Injection
<1> QED
  BY <1>2, <1>3, <1>4

\* What BuildRoute has collected, or returned, is an itinerary along the
\* predecessors of the row of query.from.
ItineraryInv ==
    /\ phase = "walk" =>
         /\ Recorded(edges, data[query.from], chain)
         /\ data[query.from][query.to] # NoRoute
    /\ phase = "answered" =>
         IF answer = NoRoute THEN data[query.from][query.to] = NoRoute
         ELSE /\ answer \in RouteInfo /\ answer.edges \in Seq(EdgeId)
              /\ data[query.from][query.to] # NoRoute
              /\ answer.weight = data[query.from][query.to].weight
              /\ Recorded(edges, data[query.from], answer.edges)
              /\ Leads(edges, query.from, query.to, answer.edges)

\* Read backwards, the chain is an itinerary from the vertex that the cursor's
\* entry is about.
LEMMA ChainLeads ==
    ASSUME RouterInv, ChainConnected, ItineraryInv, phase = "walk"
    PROVE  /\ Reverse(chain) \in Seq(EdgeId)
           /\ Leads(edges, Here, query.to, Reverse(chain))
           /\ Recorded(edges, data[query.from], Reverse(chain))
<1>1. chain \in Seq(EdgeId) /\ Len(chain) \in Nat /\ (chain = <<>> <=> Len(chain) = 0)
  BY DEF RouterInv, TypeOK
<1>2. PICK p : p = Reverse(chain)
  OBVIOUS
<1>3. /\ p \in Seq(EdgeId) /\ Len(p) = Len(chain) /\ (p = <<>> <=> chain = <<>>)
      /\ \A n \in 1 .. Len(chain) : p[n] = chain[Len(chain) - n + 1] /\ Len(chain) - n + 1 \in 1 .. Len(chain)
  BY <1>1, <1>2, ReverseAt
<1>4. ASSUME p # <<>> PROVE edges[p[1]].from = Here /\ edges[p[Len(p)]].to = query.to
  <2>1. /\ 1 \in 1 .. Len(chain) /\ Len(chain) \in 1 .. Len(chain)
        /\ Len(chain) - 1 + 1 = Len(chain) /\ Len(chain) - Len(chain) + 1 = 1
    BY <1>1, <1>3, <1>4
  <2>2. p[1] = chain[Len(chain)] /\ p[Len(p)] = chain[1]
    BY <1>3, <2>1
  <2> QED
    BY <1>3, <1>4, <2>2 DEF ChainConnected, Here
<1>5. ASSUME NEW n \in 1 .. Len(p) - 1 PROVE edges[p[n]].to = edges[p[n + 1]].from
  <2>1. PICK k : k = Len(chain) - n
    OBVIOUS
  <2>2. /\ n \in 1 .. Len(chain) /\ n + 1 \in 1 .. Len(chain) /\ k \in 1 .. Len(chain) - 1
        /\ Len(chain) - n + 1 = k + 1 /\ Len(chain) - (n + 1) + 1 = k
    BY <1>1, <1>3, <2>1
  <2>3. p[n] = chain[k + 1] /\ p[n + 1] = chain[k]
    BY <1>3, <2>2
  <2>4. edges[chain[k]].from = edges[chain[k + 1]].to
    BY <2>2 DEF ChainConnected
  <2> QED
    BY <2>3, <2>4
<1>6. p = <<>> => Here = query.to
  BY <1>3 DEF Here
<1>7. Leads(edges, Here, query.to, p)
  BY <1>4, <1>5, <1>6 DEF Leads
<1>8. Recorded(edges, data[query.from], p)
  <2> SUFFICES ASSUME NEW n \in 1 .. Len(p)
               PROVE  /\ data[query.from][edges[p[n]].to] # NoRoute
                      /\ data[query.from][edges[p[n]].to].prev_edge = p[n]
    BY DEF Recorded
  <2>1. Recorded(edges, data[query.from], chain)
    BY DEF ItineraryInv
  <2>2. PICK k \in 1 .. Len(chain) : p[n] = chain[k]
    BY <1>3
  <2> QED
    BY <2>1, <2>2 DEF Recorded
<1> QED
  BY <1>2, <1>3, <1>7, <1>8

\* The next edge of the chain is what the table records for its head.
LEMMA FollowEdgeItinerary ==
    ASSUME RouterInv, ChainConnected, ItineraryInv, FollowEdge PROVE ItineraryInv'
<1>1. /\ phase = "walk" /\ phase' = "walk" /\ cursor # NoEdge /\ Built
      /\ chain' = Append(chain, cursor) /\ UNCHANGED <<edges, data, query>> /\ chain \in Seq(EdgeId)
  BY DEF FollowEdge, table, Built, RouterInv, TypeOK
<1>2. cursor \in EdgeId /\ edges[cursor].to = Here
  BY <1>1, TailReached
<1>3. data[query.from][Here] # NoRoute /\ cursor = data[query.from][Here].prev_edge
  BY <1>1 DEF ChainConnected, Here
<1>4. \A n \in 1 .. Len(chain) :
         data[query.from][edges[chain[n]].to] # NoRoute /\ data[query.from][edges[chain[n]].to].prev_edge = chain[n]
  BY <1>1 DEF ItineraryInv, Recorded
<1>5. ASSUME NEW n \in 1 .. Len(chain')
      PROVE  data[query.from][edges[chain'[n]].to] # NoRoute /\ data[query.from][edges[chain'[n]].to].prev_edge = chain'[n]
  <2>1. (n \in 1 .. Len(chain) /\ chain'[n] = chain[n]) \/ chain'[n] = cursor
    BY <1>1, <1>2
  <2> QED
    BY <1>2, <1>3, <1>4, <2>1
<1>6. Recorded(edges, data[query.from], chain')
  BY <1>5 DEF Recorded
<1> QED
  BY <1>1, <1>6 DEF ItineraryInv

\* When the cursor is empty the chain has come to where the request starts.
LEMMA ReturnItinerary ==
    ASSUME RouterInv, ChainConnected, ItineraryInv, Return PROVE ItineraryInv'
<1>1. /\ phase = "walk" /\ phase' = "answered" /\ cursor = NoEdge
      /\ answer' = [weight |-> data[query.from][query.to].weight, edges |-> Reverse(chain)]
      /\ UNCHANGED <<edges, data, query>> /\ EdgeId' = EdgeId /\ edges \in Seq(Edge)
      /\ query.from \in Vertex /\ query.to \in Vertex /\ data \in Table
  BY DEF Return, table, RouterInv, TypeOK, Table, EdgeId
<1>2. Here = query.from
  <2>1. Here \in Vertex
    BY HereType DEF RouterInv
  <2>2. data[query.from][Here] # NoRoute /\ data[query.from][Here].prev_edge = NoEdge
    BY <1>1 DEF ChainConnected, Here
  <2> QED
    BY <1>1, <2>1, <2>2 DEF RouterInv, PredecessorsFit
<1>3. PICK p : p = Reverse(chain)
  OBVIOUS
<1>4. /\ p \in Seq(EdgeId) /\ Leads(edges, query.from, query.to, p)
      /\ Recorded(edges, data[query.from], p)
  BY <1>1, <1>2, <1>3, ChainLeads
<1>5. data[query.from][query.to] # NoRoute
  BY <1>1 DEF ItineraryInv
<1>6. PICK w \in Int : w = data[query.from][query.to].weight
  BY <1>1, <1>5 DEF Table, RouteInternalData
<1>7. p \in Seq(Nat)
  <2>1. Len(p) \in Nat /\ \A n \in 1 .. Len(p) : p[n] \in EdgeId
    BY <1>4
  <2>2. \A n \in 1 .. Len(p) : p[n] \in Nat
    BY <1>1, <2>1, EdgeFields
  <2> QED
    BY <1>4, <2>1, <2>2
<1>8. answer' = [weight |-> w, edges |-> p]
  BY <1>1, <1>3, <1>6
<1>9. /\ answer' \in RouteInfo /\ answer' # NoRoute /\ answer'.weight = w /\ answer'.edges = p
  BY <1>7, <1>8, NoRouteAssumption DEF RouteInfo
<1> QED
  BY <1>1, <1>4, <1>5, <1>6, <1>9 DEF ItineraryInv

\* Every step keeps itineraries along recorded predecessors.
LEMMA ItineraryStep == RouterInv /\ ChainConnected /\ ItineraryInv /\ [Next]_vars => ItineraryInv'
<1> SUFFICES ASSUME RouterInv, ChainConnected, ItineraryInv, [Next]_vars PROVE ItineraryInv'
  OBVIOUS
<1>1. CASE Construct
  <2>1. phase' # "walk" /\ phase' # "answered"
    BY <1>1 DEF Construct, EnterRow, ScanEdge, RejectNegativeEdge, StartRelaxing, SkipRow,
                RelaxRoute, SkipCell, GoTo
  <2> QED
    BY <2>1 DEF ItineraryInv
<1>2. ASSUME NEW i \in Vertex, NEW j \in Vertex, Ask(i, j) PROVE ItineraryInv'
  BY <1>2 DEF Ask, ItineraryInv, Recorded, table
<1>3. CASE FollowEdge
  BY <1>3, FollowEdgeItinerary
<1>4. CASE Return
  BY <1>4, ReturnItinerary
<1>5. CASE UNCHANGED vars
  BY <1>5 DEF vars, ItineraryInv, EdgeId
<1> QED
  BY <1>1, <1>2, <1>3, <1>4, <1>5 DEF Next, Walk

\* The inductive invariant of BuildRoute, for the theorems below.
LEMMA ItineraryInvariant == Spec => [](RouterInv /\ CirclesInv /\ ChainConnected /\ ItineraryInv)
<1>1. Init => CirclesInv /\ ItineraryInv
  BY DEF Init, CirclesInv, TailsInv, HasLast, Built, ItineraryInv
<1> QED
  BY <1>1, CirclesStep, ItineraryStep, RouterInvariant, ChainAlwaysConnected, PTL DEF Spec

\* The loop of BuildRoute follows fewer edges than there are vertices, so it
\* ends, and a MaxHops of VertexCount leaves nothing out.
THEOREM WalkIsShort == Spec => [](phase = "walk" => Len(chain) < VertexCount)
<1>1. RouterInv /\ CirclesInv /\ ChainConnected /\ ItineraryInv /\ phase = "walk"
          => Len(chain) < VertexCount
  <2> SUFFICES ASSUME RouterInv, CirclesInv, ChainConnected, ItineraryInv, phase = "walk"
               PROVE  Len(chain) < VertexCount
    OBVIOUS
  <2>1. /\ edges \in Seq(Edge) /\ chain \in Seq(EdgeId) /\ query.from \in Vertex /\ Here \in Vertex
    BY HereType DEF RouterInv, TypeOK
  <2>2. Grounded(edges, data[query.from])
    BY <2>1 DEF CirclesInv, Built
  <2>3. PICK p : p = Reverse(chain)
    OBVIOUS
  <2>4. /\ p \in Seq(1 .. Len(edges)) /\ Leads(edges, Here, query.to, p)
        /\ Recorded(edges, data[query.from], p)
    BY <2>3, ChainLeads DEF EdgeId
  <2>5. Len(p) < VertexCount
    BY <2>1, <2>2, <2>4, ItineraryIsShort
  <2> QED
    BY <2>1, <2>3, <2>5, ReverseAt
<1> QED
  BY <1>1, ItineraryInvariant, PTL

-----------------------------------------------------------------------------
(* What an itinerary costs *)

\* Numbers have a least one.
LEMMA LeastNumber ==
    ASSUME NEW T \in SUBSET Nat, T # {}
    PROVE  \E x \in T : \A y \in T : x <= y
<1> DEFINE R == OpToRel(<, Nat)
<1>1. IsWellFoundedOn(R, Nat)
  BY NatLessThanWellFounded
<1>2. \A x, y \in Nat : y < x => <<y, x>> \in R
  BY DEF OpToRel
<1> HIDE DEF R
<1>3. PICK x \in T : \A y \in T : ~ (<<y, x>> \in R)
  BY <1>1, WFMin
<1>4. \A y \in T : x \in Nat /\ y \in Nat /\ ~(y < x)
  BY <1>2, <1>3
<1>5. \A y \in T : x <= y
  BY <1>4
<1> QED
  BY <1>5

\* Induction, of which a set says what is true of the numbers in it.
LEMMA Induction ==
    ASSUME NEW T \in SUBSET Nat, 0 \in T, \A n \in T : n + 1 \in T
    PROVE  T = Nat
<1> SUFFICES ASSUME Nat \ T # {} PROVE FALSE
  OBVIOUS
<1>1. PICK x \in Nat \ T : \A y \in Nat \ T : x <= y
  BY LeastNumber
<1>2. x # 0 /\ x - 1 \in Nat
  BY <1>1
<1>3. x - 1 \in T
  BY <1>1, <1>2
<1> QED
  BY <1>1, <1>2, <1>3

\* The equation of the function inside Cost.
IsCost(h, p) == h = [n \in 0 .. Len(p) |-> IF n = 0 THEN 0 ELSE h[n - 1] + edges[p[n]].weight]

CostStep(h, p, n) == h[n] = IF n = 0 THEN 0 ELSE h[n - 1] + edges[p[n]].weight

\* The equation, position by position.
LEMMA CostAt ==
    ASSUME NEW p, NEW h, IsCost(h, p), NEW n \in 0 .. Len(p)
    PROVE  CostStep(h, p, n)
<1>1. PICK f : f = [k \in 0 .. Len(p) |-> IF k = 0 THEN 0 ELSE h[k - 1] + edges[p[k]].weight]
  OBVIOUS
<1>2. f[n] = IF n = 0 THEN 0 ELSE h[n - 1] + edges[p[n]].weight
  BY <1>1
<1>3. h = f
  BY <1>1, Zenon DEF IsCost
<1> QED
  BY <1>2, <1>3 DEF CostStep

\* Any function that adds up as Cost does says what it comes to.
LEMMA CostIs ==
    ASSUME NEW p, Len(p) \in Nat, NEW f \in [0 .. Len(p) -> Int], f[0] = 0,
           \A n \in 1 .. Len(p) : f[n] = f[n - 1] + edges[p[n]].weight
    PROVE  Cost(p) = f[Len(p)]
<1>1. IsCost(f, p)
  <2>1. \A n \in 0 .. Len(p) : f[n] = IF n = 0 THEN 0 ELSE f[n - 1] + edges[p[n]].weight
    OBVIOUS
  <2>2. f = [n \in 0 .. Len(p) |-> f[n]]
    OBVIOUS
  <2> QED
    BY <2>1, <2>2 DEF IsCost
<1> DEFINE C == CHOOSE h : IsCost(h, p)
<1>2. IsCost(C, p)
  BY <1>1
<1>3. Cost(p) = C[Len(p)]
  BY DEF Cost, IsCost
<1> HIDE DEF C
<1> DEFINE T == {n \in Nat : n <= Len(p) => C[n] = f[n]}
<1>4. 0 \in T
  <2>1. 0 \in 0 .. Len(p)
    OBVIOUS
  <2>2. CostStep(C, p, 0)
    BY <1>2, <2>1, CostAt
  <2> QED
    BY <2>2 DEF CostStep
<1>5. ASSUME NEW n \in T PROVE n + 1 \in T
  <2> SUFFICES ASSUME n + 1 <= Len(p) PROVE C[n + 1] = f[n + 1]
    BY <1>5
  <2>1. PICK k : k = n + 1
    OBVIOUS
  <2>2. n \in Nat /\ k \in 0 .. Len(p) /\ k \in 1 .. Len(p) /\ k # 0 /\ k - 1 = n /\ n <= Len(p)
    BY <1>5, <2>1
  <2>3. C[n] = f[n]
    BY <1>5, <2>2
  <2>4. C[k] = C[k - 1] + edges[p[k]].weight
    <3>1. CostStep(C, p, k)
      BY <1>2, <2>2, CostAt
    <3> QED
      BY <2>2, <3>1, Zenon DEF CostStep
  <2>5. f[k] = f[k - 1] + edges[p[k]].weight
    BY <2>2
  <2> QED
    BY <2>1, <2>2, <2>3, <2>4, <2>5, Zenon
<1> HIDE DEF T
<1>6. T = Nat
  <2>1. T \in SUBSET Nat
    BY DEF T
  <2> QED
    BY <1>4, <1>5, <2>1, Induction
<1> QED
  BY <1>3, <1>6 DEF T

\* Along an itinerary of recorded predecessors the table's weights grow by
\* what the edges cost.
LEMMA WeightAlong ==
    ASSUME RouterInv, OptimalityCertificate, Built, NEW i \in Vertex, NEW j,
           Grounded(edges, data[i]), NEW p \in Seq(EdgeId),
           Recorded(edges, data[i], p), Leads(edges, i, j, p)
    PROVE  /\ Len(p) \in Nat /\ CallAt(edges, i, p, Len(p)) = j
           /\ data[i][CallAt(edges, i, p, 0)].weight = 0
           /\ \A n \in 0 .. Len(p) : /\ CallAt(edges, i, p, n) \in Vertex
                                     /\ data[i][CallAt(edges, i, p, n)].weight \in Int
           /\ \A n \in 1 .. Len(p) :
                 data[i][CallAt(edges, i, p, n)].weight
                     = data[i][CallAt(edges, i, p, n - 1)].weight + edges[p[n]].weight
<1>1. /\ Len(p) \in Nat /\ edges \in Seq(Edge) /\ p \in Seq(1 .. Len(edges))
      /\ data[i][i] # NoRoute /\ data[i][i].weight = 0
  BY Finished, ZeroRouteType DEF EdgeId
<1>2. \A n \in 0 .. Len(p) : CallAt(edges, i, p, n) \in Vertex
  BY <1>1, CallsDiffer
<1>3. CallAt(edges, i, p, Len(p)) = j
  <2>1. CASE p = <<>>
    BY <2>1 DEF Leads, CallAt
  <2>2. CASE p # <<>>
    <3>1. Len(p) # 0
      BY <2>2
    <3> QED
      BY <2>2, <3>1 DEF Leads, CallAt
  <2> QED
    BY <2>1, <2>2
<1>4. ASSUME NEW n \in 1 .. Len(p)
      PROVE  /\ data[i][CallAt(edges, i, p, n)] # NoRoute
             /\ data[i][CallAt(edges, i, p, n)].weight
                     = data[i][CallAt(edges, i, p, n - 1)].weight + edges[p[n]].weight
  <2>1. PICK e \in EdgeId : e = p[n]
    BY <1>1
  <2>2. PICK v \in Vertex : v = CallAt(edges, i, p, n)
    BY <1>1, <1>2
  <2>3. v = edges[e].to /\ edges[e].from = CallAt(edges, i, p, n - 1) /\ e # NoEdge
    <3>1. n # 0
      OBVIOUS
    <3>2. edges[p[n]].from = CallAt(edges, i, p, n - 1)
      BY TailIsCall
    <3> QED
      BY <2>1, <2>2, <3>1, <3>2, <1>1, EdgeFields DEF CallAt, NoEdge
  <2>4. data[i][v] # NoRoute /\ data[i][v].prev_edge = e
    BY <2>1, <2>3 DEF Recorded
  <2>5. data[i][v].weight = data[i][edges[e].from].weight + edges[e].weight
    BY <2>3, <2>4 DEF OptimalityCertificate
  <2> QED
    BY <2>1, <2>2, <2>3, <2>4, <2>5
<1>5. ASSUME NEW n \in 0 .. Len(p) PROVE data[i][CallAt(edges, i, p, n)].weight \in Int
  <2>1. CASE n = 0
    BY <1>1, <2>1 DEF CallAt
  <2>2. CASE n # 0
    <3>1. n \in 1 .. Len(p)
      BY <1>1, <2>2
    <3> QED
      BY <1>2, <1>4, <3>1, Finished
  <2> QED
    BY <2>1, <2>2
<1>6. CallAt(edges, i, p, 0) = i
  BY DEF CallAt
<1> QED
  BY <1>1, <1>2, <1>3, <1>4, <1>5, <1>6

\* The vertices that an itinerary calls at, in their order.
LEMMA CallsAt ==
    ASSUME NEW i, NEW p, Len(p) \in Nat
    PROVE  /\ Len(Calls(i, p)) = Len(p) + 1
           /\ \A n \in 1 .. Len(p) + 1 : Calls(i, p)[n] = CallAt(edges, i, p, n - 1)
<1> DEFINE heads == [n \in 1 .. Len(p) |-> edges[p[n]].to]
<1>1. /\ heads \in Seq({edges[p[n]].to : n \in 1 .. Len(p)}) /\ Len(heads) = Len(p)
      /\ \A n \in 1 .. Len(p) : heads[n] = edges[p[n]].to
  OBVIOUS
<1> HIDE DEF heads
<1>2. PICK T : T = {edges[p[n]].to : n \in 1 .. Len(p)} \cup {i}
  OBVIOUS
<1>3. heads \in Seq(T) /\ <<i>> \in Seq(T)
  <2>1. \A n \in 1 .. Len(heads) : heads[n] \in T
    BY <1>1, <1>2
  <2> QED
    BY <1>1, <1>2, <2>1
<1>4. /\ Len(<<i>> \o heads) = Len(p) + 1
      /\ \A n \in 1 .. Len(p) + 1 : (<<i>> \o heads)[n] = IF n = 1 THEN i ELSE heads[n - 1]
  BY <1>1, <1>3
<1>5. Calls(i, p) = <<i>> \o heads
  BY DEF Calls, heads
<1>6. ASSUME NEW n \in 1 .. Len(p) + 1 PROVE Calls(i, p)[n] = CallAt(edges, i, p, n - 1)
  <2>1. CASE n = 1
    BY <1>4, <1>5, <2>1 DEF CallAt
  <2>2. CASE n # 1
    <3>1. n - 1 \in 1 .. Len(p) /\ n - 1 # 0
      BY <2>2
    <3> QED
      BY <1>1, <1>4, <1>5, <2>2, <3>1 DEF CallAt
  <2> QED
    BY <2>1, <2>2
<1> QED
  BY <1>4, <1>5, <1>6

\* An answer is a path between the vertices asked for that visits none of them
\* twice, and its edges add up to its weight: for every graph and request.
THEOREM AnswersAlwaysAddUp == Spec => []AnswersAddUp
<1>1. ASSUME RouterInv, CirclesInv, ItineraryInv, OptimalityCertificate PROVE AnswersAddUp
  <2> SUFFICES ASSUME phase = "answered", answer # NoRoute
               PROVE  LET path == answer.edges
                          calls == Calls(query.from, path)
                      IN  /\ \A n \in 1 .. Len(path) : edges[path[n]].from = calls[n]
                          /\ calls[Len(calls)] = query.to
                          /\ \A m, n \in 1 .. Len(calls) : calls[m] = calls[n] => m = n
                          /\ Cost(path) = answer.weight
    BY DEF AnswersAddUp
  <2>1. PICK p : p = answer.edges
    OBVIOUS
  <2>2. PICK i \in Vertex : i = query.from
    BY <1>1 DEF RouterInv, TypeOK
  <2>3. PICK calls : calls = Calls(i, p)
    OBVIOUS
  <2>4. /\ p \in Seq(EdgeId) /\ Recorded(edges, data[i], p) /\ Leads(edges, i, query.to, p)
        /\ answer.weight = data[i][query.to].weight
        /\ Grounded(edges, data[i]) /\ Built /\ edges \in Seq(Edge)
    BY <1>1, <2>1, <2>2 DEF ItineraryInv, CirclesInv, Built, RouterInv, TypeOK
  <2>5. /\ Len(p) \in Nat /\ CallAt(edges, i, p, Len(p)) = query.to
        /\ data[i][CallAt(edges, i, p, 0)].weight = 0
        /\ \A n \in 0 .. Len(p) : data[i][CallAt(edges, i, p, n)].weight \in Int
        /\ \A n \in 1 .. Len(p) :
              data[i][CallAt(edges, i, p, n)].weight
                  = data[i][CallAt(edges, i, p, n - 1)].weight + edges[p[n]].weight
    BY <1>1, <2>4, WeightAlong
  <2>6. /\ Len(calls) = Len(p) + 1
        /\ \A n \in 1 .. Len(p) + 1 : calls[n] = CallAt(edges, i, p, n - 1)
    BY <2>3, <2>5, CallsAt
  <2>7. ASSUME NEW n \in 1 .. Len(p) PROVE edges[p[n]].from = calls[n]
    <3>1. edges[p[n]].from = CallAt(edges, i, p, n - 1)
      BY <2>4, TailIsCall
    <3>2. n \in 1 .. Len(p) + 1
      BY <2>5
    <3> QED
      BY <2>6, <3>1, <3>2
  <2>8. calls[Len(calls)] = query.to
    <3>1. Len(p) + 1 \in 1 .. Len(p) + 1 /\ (Len(p) + 1) - 1 = Len(p)
      BY <2>5
    <3> QED
      BY <2>5, <2>6, <3>1
  <2>9. ASSUME NEW m \in 1 .. Len(calls), NEW n \in 1 .. Len(calls), calls[m] = calls[n]
        PROVE  m = n
    <3>1. m - 1 \in 0 .. Len(p) /\ n - 1 \in 0 .. Len(p)
      BY <2>5, <2>6
    <3>2. CallAt(edges, i, p, m - 1) = CallAt(edges, i, p, n - 1)
      BY <2>6, <2>9
    <3>3. p \in Seq(1 .. Len(edges))
      BY <2>4 DEF EdgeId
    <3>4. \A a, b \in 0 .. Len(p) : CallAt(edges, i, p, a) = CallAt(edges, i, p, b) => a = b
      BY <2>4, <3>3, CallsDiffer
    <3>5. m - 1 = n - 1
      BY <3>1, <3>2, <3>4
    <3> QED
      BY <3>5, <2>5, <2>6
  <2>10. Cost(p) = answer.weight
    <3> DEFINE f == [n \in 0 .. Len(p) |-> data[i][CallAt(edges, i, p, n)].weight]
    <3>1. /\ f \in [0 .. Len(p) -> Int] /\ f[0] = 0 /\ f[Len(p)] = answer.weight
      BY <2>4, <2>5
    <3>2. \A n \in 1 .. Len(p) : f[n] = f[n - 1] + edges[p[n]].weight
      <4>1. \A n \in 1 .. Len(p) : n \in 0 .. Len(p) /\ n - 1 \in 0 .. Len(p)
        BY <2>5
      <4> QED
        BY <2>5, <4>1
    <3> HIDE DEF f
    <3> QED
      BY <2>5, <3>1, <3>2, CostIs
  <2> QED
    BY <2>1, <2>2, <2>3, <2>7, <2>8, <2>9, <2>10
<1> QED
  BY <1>1, ItineraryInvariant, TableIsOptimal, PTL

-----------------------------------------------------------------------------
(* Walks: that no other way is cheaper *)

\* The equation of the function inside WalkCosts, and its first m values.
IsWalkCosts(h, i) ==
    h = [n \in Nat |-> IF n = 0 THEN Standing(i) ELSE Lengthened(h[n - 1])]

Counts(h, i, m) ==
    /\ h[0] = Standing(i)
    /\ \A n \in 1 .. m : h[n] = Lengthened(h[n - 1])

\* However far one counts, there are such values,
LEMMA CountsExist == ASSUME NEW i, NEW m \in Nat PROVE \E h : Counts(h, i, m)
<1> DEFINE T == {k \in Nat : \E h : Counts(h, i, k)}
<1>1. 0 \in T
  <2>1. Counts([n \in 0 .. 0 |-> Standing(i)], i, 0)
    BY DEF Counts
  <2> QED
    BY <2>1
<1>2. ASSUME NEW k \in T PROVE k + 1 \in T
  <2>1. PICK h : Counts(h, i, k)
    BY <1>2
  <2>2. k \in Nat /\ k + 1 \in Nat
    BY <1>2
  <2> DEFINE f == [n \in 0 .. k + 1 |-> IF n = k + 1 THEN Lengthened(h[k]) ELSE h[n]]
  <2>3. \A n \in 0 .. k + 1 : f[n] = IF n = k + 1 THEN Lengthened(h[k]) ELSE h[n]
    OBVIOUS
  <2> HIDE DEF f
  <2>4. f[0] = Standing(i)
    <3>1. 0 \in 0 .. k + 1 /\ 0 # k + 1
      BY <2>2
    <3> QED
      BY <2>1, <2>3, <3>1 DEF Counts
  <2>5. ASSUME NEW n \in 1 .. k + 1 PROVE f[n] = Lengthened(f[n - 1])
    <3>1. PICK b : b = n - 1
      OBVIOUS
    <3>2. n \in 0 .. k + 1 /\ b \in 0 .. k + 1 /\ b # k + 1 /\ b \in 0 .. k
      BY <2>2, <3>1
    <3>3. f[b] = h[b]
      BY <2>3, <3>2
    <3>4. CASE n = k + 1
      <4>1. b = k
        BY <2>2, <3>1, <3>4
      <4>2. f[n] = Lengthened(h[k])
        BY <2>3, <3>2, <3>4
      <4> QED
        BY <3>1, <3>3, <4>1, <4>2
    <3>5. CASE n # k + 1
      <4>1. n \in 1 .. k
        BY <2>2, <3>5
      <4>2. f[n] = h[n]
        BY <2>3, <3>2, <3>5
      <4>3. h[n] = Lengthened(h[n - 1])
        BY <2>1, <4>1 DEF Counts
      <4> QED
        BY <3>1, <3>3, <4>2, <4>3
    <3> QED
      BY <3>4, <3>5
  <2>6. Counts(f, i, k + 1)
    BY <2>4, <2>5 DEF Counts
  <2> QED
    BY <2>2, <2>6
<1> HIDE DEF T
<1>3. T = Nat
  <2>1. T \in SUBSET Nat
    BY DEF T
  <2> QED
    BY <1>1, <1>2, <2>1, Induction
<1> QED
  BY <1>3 DEF T

\* and they do not depend on how far it was.
LEMMA CountsAgree ==
    ASSUME NEW i, NEW h, NEW f, NEW m \in Nat, Counts(h, i, m), Counts(f, i, m + 1)
    PROVE  h[m] = f[m]
<1> DEFINE T == {k \in Nat : k <= m => h[k] = f[k]}
<1>1. 0 \in T
  BY DEF Counts
<1>2. ASSUME NEW k \in T PROVE k + 1 \in T
  <2> SUFFICES ASSUME k + 1 <= m PROVE h[k + 1] = f[k + 1]
    BY <1>2
  <2>1. PICK n : n = k + 1
    OBVIOUS
  <2>2. k \in Nat /\ n \in 1 .. m /\ n \in 1 .. m + 1 /\ n - 1 = k /\ k <= m
    BY <1>2, <2>1
  <2>3. h[k] = f[k]
    BY <1>2, <2>2
  <2>4. h[n] = Lengthened(h[n - 1]) /\ f[n] = Lengthened(f[n - 1])
    BY <2>2 DEF Counts
  <2> QED
    BY <2>1, <2>2, <2>3, <2>4
<1> HIDE DEF T
<1>3. T = Nat
  <2>1. T \in SUBSET Nat
    BY DEF T
  <2> QED
    BY <1>1, <1>2, <2>1, Induction
<1> QED
  BY <1>3 DEF T

\* The costs of walks are what their equation says.
LEMMA WalkCostsAt ==
    ASSUME NEW i
    PROVE  /\ WalkCosts(i)[0] = Standing(i)
           /\ \A n \in Nat : WalkCosts(i)[n + 1] = Lengthened(WalkCosts(i)[n])
<1> DEFINE H(m) == CHOOSE h : Counts(h, i, m)
<1>1. \A m \in Nat : Counts(H(m), i, m)
  BY CountsExist
<1> HIDE DEF H
<1> DEFINE F == [m \in Nat |-> H(m)[m]]
<1>2. F[0] = Standing(i)
  BY <1>1 DEF Counts
<1>3. ASSUME NEW m \in Nat PROVE F[m + 1] = Lengthened(F[m])
  <2>1. PICK k \in Nat : k = m + 1
    OBVIOUS
  <2>2. Counts(H(m), i, m) /\ Counts(H(k), i, m + 1)
    BY <1>1, <2>1
  <2>3. H(m)[m] = H(k)[m]
    BY <2>2, CountsAgree
  <2>4. H(k)[k] = Lengthened(H(k)[k - 1])
    <3>1. k \in 1 .. m + 1
      BY <2>1
    <3> QED
      BY <2>2, <3>1 DEF Counts
  <2>5. k - 1 = m
    BY <2>1
  <2>6. F[m] = H(m)[m] /\ F[k] = H(k)[k]
    OBVIOUS
  <2> QED
    BY <2>1, <2>3, <2>4, <2>5, <2>6
<1>4. IsWalkCosts(F, i)
  <2>1. ASSUME NEW n \in Nat
        PROVE  F[n] = IF n = 0 THEN Standing(i) ELSE Lengthened(F[n - 1])
    <3>1. CASE n = 0
      BY <1>2, <3>1
    <3>2. CASE n # 0
      <4>1. PICK m \in Nat : n = m + 1 /\ n - 1 = m
        <5>1. n - 1 \in Nat /\ n = (n - 1) + 1
          BY <3>2
        <5> QED
          BY <5>1
      <4> QED
        BY <1>3, <3>2, <4>1
    <3> QED
      BY <3>1, <3>2
  <2>2. F = [n \in Nat |-> F[n]]
    OBVIOUS
  <2> HIDE DEF F
  <2> QED
    BY <2>1, <2>2 DEF IsWalkCosts
<1> DEFINE C == CHOOSE h : IsWalkCosts(h, i)
<1>5. IsWalkCosts(C, i)
  BY <1>4
<1>6. WalkCosts(i) = C
  BY DEF WalkCosts, IsWalkCosts
<1> HIDE DEF C, F
<1>7. PICK g : g = [n \in Nat |-> IF n = 0 THEN Standing(i) ELSE Lengthened(C[n - 1])]
  OBVIOUS
<1>8. C = g
  BY <1>5, <1>7, Zenon DEF IsWalkCosts
<1>9. C[0] = Standing(i)
  BY <1>7, <1>8
<1>10. ASSUME NEW n \in Nat PROVE C[n + 1] = Lengthened(C[n])
  <2>1. n + 1 \in Nat /\ n + 1 # 0 /\ (n + 1) - 1 = n
    OBVIOUS
  <2>2. g[n + 1] = Lengthened(C[(n + 1) - 1])
    BY <1>7, <2>1
  <2> QED
    BY <1>8, <2>1, <2>2
<1> QED
  BY <1>6, <1>9, <1>10

\* What a walk of one edge more costs, member by member.
LEMMA LengthenedAt ==
    ASSUME NEW costs, NEW j \in Vertex
    PROVE  \A c : c \in Lengthened(costs)[j] <=>
               \/ c \in costs[j]
               \/ \E e \in EdgeId : /\ edges[e].to = j
                                    /\ \E b \in costs[edges[e].from] : c = b + edges[e].weight
BY DEF Lengthened

\* No walk is cheaper than the table says, and where there is a walk the table
\* has a route, however long the walk.
LEMMA WalkCostsLess ==
    ASSUME RouterInv, Built, NEW i \in Vertex, NEW n \in Nat, NEW j \in Vertex,
           NEW c \in WalkCosts(i)[n][j]
    PROVE  c \in Int /\ data[i][j] # NoRoute /\ data[i][j].weight <= c
<1> DEFINE Less(v, x) == x \in Int /\ data[i][v] # NoRoute /\ data[i][v].weight <= x
           T == {m \in Nat : \A v \in Vertex : \A x \in WalkCosts(i)[m][v] : Less(v, x)}
<1>1. 0 \in T
  <2> SUFFICES ASSUME NEW v \in Vertex, NEW x \in WalkCosts(i)[0][v] PROVE Less(v, x)
    OBVIOUS
  <2>1. x \in Standing(i)[v]
    BY WalkCostsAt
  <2>2. v = i /\ x = 0
    BY <2>1 DEF Standing
  <2>3. data[i][i] # NoRoute /\ data[i][i].weight = 0
    BY Finished, ZeroRouteType
  <2> QED
    BY <2>2, <2>3
<1>2. ASSUME NEW m \in T PROVE m + 1 \in T
  <2>1. m \in Nat /\ m + 1 \in Nat /\ \A v \in Vertex : \A x \in WalkCosts(i)[m][v] : Less(v, x)
    BY <1>2
  <2>2. ASSUME NEW v \in Vertex, NEW x \in WalkCosts(i)[m + 1][v] PROVE Less(v, x)
    <3> HIDE DEF Less
    <3>1. x \in Lengthened(WalkCosts(i)[m])[v]
      BY <2>1, WalkCostsAt
    <3>2. CASE x \in WalkCosts(i)[m][v]
      BY <2>1, <3>2
    <3>3. CASE x \notin WalkCosts(i)[m][v]
      <4>1. PICK e \in EdgeId : /\ edges[e].to = v
                                /\ \E b \in WalkCosts(i)[m][edges[e].from] : x = b + edges[e].weight
        BY <3>1, <3>3, LengthenedAt
      <4>2. PICK b \in WalkCosts(i)[m][edges[e].from] : x = b + edges[e].weight
        BY <4>1
      <4>3. PICK u \in Vertex : u = edges[e].from
        BY EdgeFields, Finished
      <4>4. PICK w \in Int : w = edges[e].weight
        BY EdgeFields, Finished
      <4>5. b \in Int /\ data[i][u] # NoRoute /\ data[i][u].weight <= b
        BY <2>1, <4>2, <4>3 DEF Less
      <4>6. data[u][v] # NoRoute /\ data[u][v].weight <= w
        BY <4>1, <4>3, <4>4, Finished DEF Within
      <4>7. data[i][v] # NoRoute /\ data[i][v].weight <= data[i][u].weight + data[u][v].weight
        BY <4>5, <4>6, Finished DEF Within
      <4>8. data[i][u].weight \in Int /\ data[u][v].weight \in Int /\ data[i][v].weight \in Int
        BY <4>5, <4>6, <4>7, Finished
      <4>9. x = b + w
        BY <4>2, <4>4
      <4> QED
        BY <4>5, <4>6, <4>7, <4>8, <4>9 DEF Less
    <3> QED
      BY <3>2, <3>3
  <2> QED
    BY <2>1, <2>2
<1>3. T = Nat
  <2>1. T \in SUBSET Nat
    OBVIOUS
  <2> HIDE DEF T
  <2> QED
    BY <1>1, <1>2, <2>1, Induction
<1>4. \A v \in Vertex : \A x \in WalkCosts(i)[n][v] : Less(v, x)
  BY <1>3
<1> QED
  BY <1>4

\* A walk of at most m edges is one of at most n.
LEMMA WalkCostsGrow ==
    ASSUME NEW i, NEW j \in Vertex, NEW m \in Nat, NEW n \in Nat, m <= n,
           NEW c \in WalkCosts(i)[m][j]
    PROVE  c \in WalkCosts(i)[n][j]
<1> DEFINE T == {k \in Nat : c \in WalkCosts(i)[m + k][j]}
<1>1. 0 \in T
  <2>1. m + 0 = m
    OBVIOUS
  <2> QED
    BY <2>1
<1>2. ASSUME NEW k \in T PROVE k + 1 \in T
  <2>1. k \in Nat /\ k + 1 \in Nat /\ c \in WalkCosts(i)[m + k][j]
    BY <1>2
  <2>2. PICK l \in Nat : l = m + k
    BY <2>1
  <2>3. WalkCosts(i)[l + 1] = Lengthened(WalkCosts(i)[l])
    BY WalkCostsAt
  <2>4. c \in WalkCosts(i)[l + 1][j]
    BY <2>1, <2>2, <2>3, LengthenedAt
  <2>5. l + 1 = m + (k + 1)
    BY <2>1, <2>2
  <2> QED
    BY <2>1, <2>4, <2>5
<1>3. T = Nat
  <2>1. T \in SUBSET Nat
    OBVIOUS
  <2> HIDE DEF T
  <2> QED
    BY <1>1, <1>2, <2>1, Induction
<1>4. PICK k \in Nat : n = m + k
  <2>1. n - m \in Nat /\ n = m + (n - m)
    OBVIOUS
  <2> QED
    BY <2>1
<1> QED
  BY <1>3, <1>4

\* An itinerary along recorded predecessors is a walk that costs what the
\* table says.
LEMMA ItineraryIsWalk ==
    ASSUME RouterInv, OptimalityCertificate, Built, NEW i \in Vertex, NEW j \in Vertex,
           Grounded(edges, data[i]), NEW p \in Seq(EdgeId),
           Recorded(edges, data[i], p), Leads(edges, i, j, p)
    PROVE  Len(p) \in Nat /\ data[i][j].weight \in WalkCosts(i)[Len(p)][j]
<1>1. /\ Len(p) \in Nat /\ CallAt(edges, i, p, Len(p)) = j
      /\ data[i][CallAt(edges, i, p, 0)].weight = 0
      /\ \A n \in 0 .. Len(p) : /\ CallAt(edges, i, p, n) \in Vertex
                                /\ data[i][CallAt(edges, i, p, n)].weight \in Int
      /\ \A n \in 1 .. Len(p) :
            data[i][CallAt(edges, i, p, n)].weight
                = data[i][CallAt(edges, i, p, n - 1)].weight + edges[p[n]].weight
  BY WeightAlong
<1> DEFINE W(n) == data[i][CallAt(edges, i, p, n)].weight \in WalkCosts(i)[n][CallAt(edges, i, p, n)]
           T == {n \in Nat : n <= Len(p) => W(n)}
<1>2. 0 \in T
  <2>1. CallAt(edges, i, p, 0) = i
    BY DEF CallAt
  <2>2. 0 \in Standing(i)[i]
    BY DEF Standing
  <2> QED
    BY <1>1, <2>1, <2>2, WalkCostsAt
<1>3. ASSUME NEW n \in T PROVE n + 1 \in T
  <2> SUFFICES ASSUME n + 1 <= Len(p) PROVE W(n + 1)
    BY <1>3
  <2>1. PICK k : k = n + 1
    OBVIOUS
  <2>2. /\ n \in Nat /\ k \in 0 .. Len(p) /\ k \in 1 .. Len(p) /\ k - 1 = n /\ n <= Len(p) /\ k # 0
    BY <1>1, <1>3, <2>1
  <2>3. W(n)
    BY <1>3, <2>2
  <2>4. PICK v \in Vertex : v = CallAt(edges, i, p, k)
    BY <1>1, <2>2
  <2>5. PICK e \in EdgeId : e = p[k]
    BY <2>2
  <2>6. edges[e].to = v /\ edges[e].from = CallAt(edges, i, p, n)
    <3>1. edges[p[k]].from = CallAt(edges, i, p, k - 1)
      BY <2>2, TailIsCall
    <3> QED
      BY <2>2, <2>4, <2>5, <3>1 DEF CallAt
  <2>7. data[i][v].weight = data[i][edges[e].from].weight + edges[e].weight
    BY <1>1, <2>2, <2>4, <2>5, <2>6
  <2>8. data[i][edges[e].from].weight \in WalkCosts(i)[n][edges[e].from]
    BY <2>3, <2>6
  <2>9. data[i][v].weight \in Lengthened(WalkCosts(i)[n])[v]
    <3> HIDE DEF T, W
    <3> QED
      BY <2>6, <2>7, <2>8, LengthenedAt
  <2>10. data[i][v].weight \in WalkCosts(i)[k][v]
    BY <2>1, <2>2, <2>9, WalkCostsAt
  <2> QED
    BY <2>1, <2>4, <2>10
<1>4. T = Nat
  <2>1. T \in SUBSET Nat
    OBVIOUS
  <2> HIDE DEF T
  <2> QED
    BY <1>2, <1>3, <2>1, Induction
<1>5. W(Len(p))
  BY <1>1, <1>4
<1> QED
  BY <1>1, <1>5

\* BuildRoute answers with the weight of a cheapest walk if there is a walk
\* and with nothing otherwise: for every graph and request.
THEOREM AnswersAlwaysShortest == Spec => []AnswersAreShortest
<1>1. ASSUME RouterInv, CirclesInv, ItineraryInv, OptimalityCertificate PROVE AnswersAreShortest
  <2> SUFFICES ASSUME phase = "answered"
               PROVE  LET costs == WalkCosts(query.from)[VertexCount - 1][query.to] IN
                      IF costs = {} THEN answer = NoRoute
                      ELSE /\ answer # NoRoute
                           /\ answer.weight \in costs
                           /\ \A c \in costs : answer.weight <= c
    BY DEF AnswersAreShortest
  <2>1. PICK i \in Vertex : i = query.from
    BY <1>1 DEF RouterInv, TypeOK
  <2>2. PICK j \in Vertex : j = query.to
    BY <1>1 DEF RouterInv, TypeOK
  <2>3. PICK n \in Nat : n = VertexCount - 1
    BY VertexCountAssumption
  <2>4. PICK costs : costs = WalkCosts(i)[n][j]
    OBVIOUS
  <2>5. Built
    BY DEF Built
  <2>6. \A c \in costs : data[i][j] # NoRoute /\ data[i][j].weight <= c
    BY <1>1, <2>4, <2>5, WalkCostsLess
  <2>7. CASE answer = NoRoute
    <3>1. data[i][j] = NoRoute
      BY <1>1, <2>1, <2>2, <2>7 DEF ItineraryInv
    <3>2. costs = {}
      BY <2>6, <3>1
    <3> QED
      BY <2>1, <2>2, <2>3, <2>4, <2>7, <3>2
  <2>8. CASE answer # NoRoute
    <3>1. PICK p : p = answer.edges
      OBVIOUS
    <3>2. /\ p \in Seq(EdgeId) /\ Recorded(edges, data[i], p) /\ Leads(edges, i, j, p)
          /\ answer.weight = data[i][j].weight
          /\ Grounded(edges, data[i]) /\ edges \in Seq(Edge)
      BY <1>1, <2>1, <2>2, <2>5, <2>8, <3>1 DEF ItineraryInv, CirclesInv, RouterInv, TypeOK
    <3>3. Len(p) \in Nat /\ data[i][j].weight \in WalkCosts(i)[Len(p)][j]
      BY <1>1, <2>5, <3>2, ItineraryIsWalk
    <3>4. Len(p) < VertexCount
      <4>1. p \in Seq(1 .. Len(edges))
        BY <3>2 DEF EdgeId
      <4> QED
        BY <3>2, <4>1, ItineraryIsShort
    <3>5. Len(p) <= n
      BY <2>3, <3>3, <3>4, VertexCountAssumption
    <3>6. data[i][j].weight \in costs
      BY <2>4, <3>3, <3>5, WalkCostsGrow
    <3>7. costs # {} /\ \A c \in costs : answer.weight <= c
      BY <2>6, <3>2, <3>6
    <3> QED
      BY <2>1, <2>2, <2>3, <2>4, <2>8, <3>2, <3>6, <3>7
  <2> QED
    BY <2>7, <2>8
<1> QED
  BY <1>1, ItineraryInvariant, TableIsOptimal, PTL

\* Nor would a longer walk be cheaper, however many edges it had: where the
\* table has no route there is no walk at all.
THEOREM NoWalkIsCheaper ==
    Spec => [](Built => \A i, j \in Vertex : \A n \in Nat : \A c \in WalkCosts(i)[n][j] :
                            data[i][j] # NoRoute /\ data[i][j].weight <= c)
<1>1. ASSUME RouterInv
      PROVE  Built => \A i, j \in Vertex : \A n \in Nat : \A c \in WalkCosts(i)[n][j] :
                          data[i][j] # NoRoute /\ data[i][j].weight <= c
  BY <1>1, WalkCostsLess
<1> QED
  BY <1>1, RouterInvariant, PTL

-----------------------------------------------------------------------------
(* The table as the base file takes it *)

\* A base file, of which only what it says of a table is used.
File == INSTANCE CatalogueFile
        WITH StopName <- {}, BusName <- {}, Position <- {}, NoEntry <- NoRoute,
             Drawing <- NoRoute, NoDrawing <- NoRoute, WordSize <- 2

\* Rows and entries are counted from 1 there.
Stored == [v \in 1 .. VertexCount |-> [w \in 1 .. VertexCount |-> data[v - 1][w - 1]]]

\* Every predecessor leads to an entry of the same row.
LEMMA TailHasEntry ==
    ASSUME RouterInv, Built, NEW i \in Vertex, NEW j \in Vertex, HasLast(data[i][j])
    PROVE  /\ data[i][j].prev_edge \in EdgeId /\ edges[data[i][j].prev_edge].from \in Vertex
           /\ data[i][edges[data[i][j].prev_edge].from] # NoRoute
<1>1. edges \in Seq(Edge)
  BY DEF RouterInv, TypeOK
<1>2. PICK e : e = data[i][j].prev_edge
  OBVIOUS
<1>3. e \in EdgeId
  BY <1>2 DEF RouterInv, PredecessorsFit, HasLast
<1>4. edges[e] \in Edge
  BY <1>1, <1>3 DEF EdgeId
<1>5. Within(data, i, edges[e].from, data[i][j].weight - edges[e].weight)
  BY <1>2 DEF RouterInv, LastEdgeInv, HasLast, Built
<1> QED
  BY <1>2, <1>3, <1>4, <1>5 DEF Within, Edge

\* A finished table is routed, as reading and walking a base file expects it.
LEMMA BuiltIsRouted ==
    ASSUME RouterInv, Built, \A i \in Vertex : Grounded(edges, data[i])
    PROVE  File!Routed(VertexCount, edges, Stored)
<1>1. edges \in Seq(Edge) /\ DOMAIN edges = EdgeId /\ VertexCount \in Nat
  BY VertexCountAssumption DEF RouterInv, TypeOK, EdgeId
<1>2. PICK N : N = 1 .. VertexCount
  OBVIOUS
<1>3. \A v \in N : v \in Nat /\ v - 1 \in Vertex
  BY <1>1, <1>2 DEF Vertex
<1>4. \A j \in Vertex : j + 1 \in N /\ (j + 1) - 1 = j
  BY <1>1, <1>2 DEF Vertex
<1>5. DOMAIN Stored = N
  BY <1>2 DEF Stored
<1>6. ASSUME NEW v \in N, NEW row, row = Stored[v]
      PROVE  /\ DOMAIN row = N
             /\ \A w \in N : row[w] # NoRoute /\ row[w].prev_edge # NoEdge =>
                  /\ row[w].prev_edge \in DOMAIN edges
                  /\ edges[row[w].prev_edge].from + 1 \in N
                  /\ row[edges[row[w].prev_edge].from + 1] # NoRoute
             /\ \A S \in SUBSET N : S # {} =>
                  \E w \in S : \/ ~(row[w] # NoRoute /\ row[w].prev_edge # NoEdge)
                               \/ edges[row[w].prev_edge].from + 1 \notin S
  <2>1. PICK i \in Vertex : i = v - 1
    BY <1>3
  <2>2. row = [w \in N |-> data[i][w - 1]]
    BY <1>2, <1>6, <2>1 DEF Stored
  <2>3. DOMAIN row = N /\ \A w \in N : row[w] = data[i][w - 1]
    BY <2>2
  <2>4. \A j \in Vertex : row[j + 1] = data[i][j]
    BY <1>4, <2>3
  <2>5. ASSUME NEW w \in N, HasLast(row[w])
        PROVE  /\ row[w].prev_edge \in DOMAIN edges
               /\ edges[row[w].prev_edge].from \in Vertex
               /\ row[edges[row[w].prev_edge].from + 1] # NoRoute
    <3>1. PICK j \in Vertex : j = w - 1
      BY <1>3
    <3>2. row[w] = data[i][j]
      BY <2>3, <3>1
    <3>3. /\ row[w].prev_edge \in EdgeId /\ edges[row[w].prev_edge].from \in Vertex
          /\ data[i][edges[row[w].prev_edge].from] # NoRoute
      BY <2>5, <3>2, TailHasEntry
    <3> QED
      BY <1>1, <2>4, <3>3
  <2>6. ASSUME NEW S \in SUBSET N, S # {}
        PROVE  \E w \in S : HasLast(row[w]) => edges[row[w].prev_edge].from + 1 \notin S
    <3>1. PICK T : T = {w - 1 : w \in S}
      OBVIOUS
    <3>2. T \in SUBSET Vertex /\ T # {}
      BY <1>3, <2>6, <3>1
    <3>3. PICK j \in T : HasLast(data[i][j]) => edges[data[i][j].prev_edge].from \notin T
      BY <3>2 DEF Grounded
    <3>4. PICK w \in S : j = w - 1
      BY <3>1
    <3>5. row[w] = data[i][j]
      BY <2>3, <3>4
    <3>6. ASSUME HasLast(row[w]) PROVE edges[row[w].prev_edge].from + 1 \notin S
      <4>1. PICK u : u = edges[row[w].prev_edge].from
        OBVIOUS
      <4>2. u \in Vertex /\ u \notin T
        BY <2>5, <3>3, <3>5, <3>6, <4>1
      <4>3. (u + 1) - 1 = u
        BY <1>4, <4>2
      <4> QED
        BY <3>1, <4>1, <4>2, <4>3
    <3> QED
      BY <3>6
  <2> QED
    BY <1>4, <2>3, <2>5, <2>6 DEF HasLast
<1>7. File!NoEdge = NoEdge
  BY DEF NoEdge, File!NoEdge
<1> QED
  BY <1>2, <1>5, <1>6, <1>7 DEF File!Routed

\* The table that a router was built with leads every walk back to its start,
\* whatever the graph: what the answers from a base file rely on.
THEOREM FinishedTableIsRouted == Spec => [](Built => File!Routed(VertexCount, edges, Stored))
<1>1. RouterInv /\ (Built => \A i \in Vertex : Grounded(edges, data[i]))
        => (Built => File!Routed(VertexCount, edges, Stored))
  BY BuiltIsRouted
<1> QED
  BY <1>1, NeverACircle, RouterInvariant, PTL
=============================================================================
