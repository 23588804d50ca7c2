---------------------------- MODULE StatRequests ----------------------------
(***************************************************************************)
(* The answers to stat_requests (json_reader.cpp, with the queries of      *)
(* RequestHandler and Router::BuildRoute on a stored table), as functions  *)
(* of a base and a request.  What a response says is kept, the formatting  *)
(* is not; a map is what MapRenderer::Render is given.  Weights are whole  *)
(* minutes.                                                                *)
(***************************************************************************)
EXTENDS CatalogueFile

\* ParseStatRequests looks up the two stops of a route as it reads it.
NameRequest == [type : {"Bus"}, name : BusName] \cup [type : {"Stop"}, name : StopName]
RouteRequest == [type : {"Route"}, from : StopName, to : StopName]
MapRequest == [type : {"Map"}]
StatRequest == NameRequest \cup RouteRequest \cup MapRequest

ParseStatRequest(db, q) ==
    IF q.type = "Route" THEN [q EXCEPT !.from = GetStop(db, q.from), !.to = GetStop(db, q.to)]
    ELSE q

NotFound == [error_message |-> "not found"]

PositionOf(db, s) == StopOf(db, s).at

\* The curvature is the length over the geographical length, a function of
\* the positions along the route.
BusInfo(db, name) ==
    IF name \notin BusNames(db) THEN NotFound
    ELSE LET bus == BusOf(db, name) IN
         [route_length |-> ComputeRouteLength(db, bus),
          geo_length_of |-> [n \in DOMAIN bus.route |-> PositionOf(db, bus.route[n])],
          stop_count |-> Len(bus.route),
          unique_stop_count |-> bus.unique_stops]

\* A set of buses is ordered by name.
StopInfo(db, name) ==
    IF GetStop(db, name) = NoStop THEN NotFound
    ELSE [buses |-> IF IsStopInRoutes(db, GetStop(db, name))
                    THEN Ascending(GetBusesForStop(db, GetStop(db, name)))
                    ELSE <<>>]

MapInfo(base) ==
    LET db == base.db
        routed == Filter(GetAllStops(db), LAMBDA s : IsStopInRoutes(db, s))
    IN  [stops |-> [n \in DOMAIN routed |-> StopOf(db, routed[n])],
         buses |-> [n \in DOMAIN GetAllBuses(db) |-> BusOf(db, GetAllBuses(db)[n])],
         drawing |-> base.drawing]

-----------------------------------------------------------------------------

\* stops_to_vrtx_
VertexOf(base, s) == (CHOOSE n \in DOMAIN base.vrtx_to_stops : base.vrtx_to_stops[n] = s) - 1

\* stops_to_vrtx_.at() finds the stops and routes_internal_data_.at() the
\* row and the entry; else they throw.
RouteFound(base, q) ==
    LET v == VertexOf(base, q.from)
        w == VertexOf(base, q.to)
    IN  /\ q.from # NoStop /\ q.to # NoStop
        /\ v + 1 \in DOMAIN base.table /\ w + 1 \in DOMAIN base.table[v + 1]

Entry(base, v, w) == base.table[v + 1][w + 1]

HasEntry(base, v, w) == w + 1 \in DOMAIN base.table[v + 1] /\ Entry(base, v, w) # NoRoute

\* The edges of BuildRoute's walk back from w, one for every vertex it may
\* pass.  It stands still at the start of the route (NoEdge), at an edge that
\* does not exist, and when it hops to an entry that is empty or outside the
\* row, which nothing checks (Astray).
Astray == -1

Walk(base, v, w) ==
    LET edge[n \in 0 .. Len(base.db.stops)] ==
          IF n = 0 THEN Entry(base, v, w).prev_edge
          ELSE LET e == edge[n - 1] IN
               IF e \notin DOMAIN base.edges THEN e
               ELSE IF HasEntry(base, v, base.edges[e].from)
               THEN Entry(base, v, base.edges[e].from).prev_edge
               ELSE Astray
    IN  edge

\* The walk arrives; or its behaviour is undefined; or GetEdge throws; or it
\* still has an edge when it has passed more vertices than there are, and so
\* goes in circles, collecting edges until there is no memory left.
RouteOutcome(base, q) ==
    IF ~RouteFound(base, q) THEN "throws"
    ELSE LET v == VertexOf(base, q.from)
             w == VertexOf(base, q.to)
             last == Walk(base, v, w)[Len(base.db.stops)]
         IN  CASE Entry(base, v, w) = NoRoute -> "answered"
               [] Entry(base, v, w) # NoRoute /\ last = NoEdge -> "answered"
               [] Entry(base, v, w) # NoRoute /\ last = Astray -> "undefined"
               [] Entry(base, v, w) # NoRoute /\ last \in DOMAIN base.edges -> "circles"
               [] OTHER -> "throws"

EdgesBack(base, v, w) ==
    Filter([n \in 1 .. Len(base.db.stops) |-> Walk(base, v, w)[n - 1]], LAMBDA e : e # NoEdge)

\* One edge is a Wait item and a Bus item.
MakeRouteItems(base, path) ==
    [n \in DOMAIN path |->
        LET edge == base.edges[path[n]]
            wait == base.routing.bus_wait_time
        IN  [stop_name |-> base.vrtx_to_stops[edge.from + 1], wait_time |-> wait,
             bus |-> GetBusByEdge(base.db, path[n] - 1), span_count |-> edge.span_count,
             time |-> edge.weight - wait]]

RouteInfo(base, q) ==
    LET v == VertexOf(base, q.from)
        w == VertexOf(base, q.to)
    IN  IF Entry(base, v, w) = NoRoute THEN NotFound
        ELSE [total_time |-> Entry(base, v, w).weight,
              items |-> MakeRouteItems(base, Reverse(EdgesBack(base, v, w)))]

-----------------------------------------------------------------------------

\* A colour for a bus is palette[n % palette.size()]: the palette is empty
\* without render_settings and if they say so, and the remainder of a division
\* by zero is undefined.
MapOutcome(base) ==
    IF base.drawing.palette_size = 0 /\ \E n \in DOMAIN base.db.buses : base.db.buses[n].route # <<>>
    THEN "undefined" ELSE "answered"

Outcome(base, q) ==
    CASE q.type = "Route" -> RouteOutcome(base, q)
      [] q.type = "Map" -> MapOutcome(base)
      [] OTHER -> "answered"

Respond(base, q) ==
    CASE q.type = "Bus" -> BusInfo(base.db, q.name)
      [] q.type = "Stop" -> StopInfo(base.db, q.name)
      [] q.type = "Map" -> MapInfo(base)
      [] q.type = "Route" -> RouteInfo(base, q)
=============================================================================
