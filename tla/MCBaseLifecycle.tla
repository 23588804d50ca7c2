-------------------------- MODULE MCBaseLifecycle --------------------------
(***************************************************************************)
(* Bases for BaseLifecycle, made of documents the way the other modules    *)
(* say: the catalogue a document declares, the graph that offers its       *)
(* rides, and a table of cheapest routes with at most one change.          *)
(***************************************************************************)
EXTENDS BaseLifecycle, BaseRequests

WaitTime == 4

Dict(given) ==
    [s \in StopName |-> IF s \in {g[1] : g \in given}
                        THEN (CHOOSE g \in given : g[1] = s)[2] ELSE NoEntry]

StopAt(s, given) == [type |-> "Stop", name |-> s, at |-> s, road_distances |-> Dict(given)]
BusOn(b, stops, round) == [type |-> "Bus", name |-> b, stops |-> stops, is_roundtrip |-> round]

\* Two buses that meet at stop 1, declared out of order; stop 4 has no bus and
\* the way from 2 to 1 is downhill.
Town == <<StopAt(2, {<<1, -3>>}), StopAt(4, {}), StopAt(1, {<<3, 9>>}), StopAt(3, {}),
          BusOn(2, <<2, 1>>, FALSE), BusOn(1, <<1, 3, 1>>, TRUE)>>
Village == <<StopAt(1, {<<2, 5>>, <<1, 2>>}), StopAt(2, {}), BusOn(2, <<1, 1, 2>>, FALSE)>>
Hamlet == <<StopAt(2, {<<1, 1>>}), StopAt(1, {})>>

\* Documents that fail: a stop nobody declared at the start of a route or in
\* a dictionary, a route without stops, a ride that takes less than no time.
UnknownStart == <<StopAt(1, {}), BusOn(1, <<2, 1>>, FALSE)>>
UnknownDistance == <<StopAt(1, {<<2, 3>>})>>
NoStops == <<StopAt(1, {}), BusOn(1, <<>>, TRUE)>>
TooFast == <<StopAt(1, {<<2, -9>>}), StopAt(2, {}), BusOn(1, <<1, 2>>, TRUE)>>

Graph(d) == INSTANCE RouteGraph
            WITH db <- d, edges <- <<>>, buses <- <<>>,
                 from_at <- 1, to_at <- 2, weight <- 0, span_count <- 0,
                 Catalogues <- {}, BusWaitTime <- WaitTime, NormalVelocity <- 1

BetterOf(entries) ==
    IF entries = {} THEN NoRoute
    ELSE CHOOSE x \in entries : \A y \in entries : x.weight <= y.weight

Table(stop_count, edges) ==
    LET vertex == 0 .. stop_count - 1
        direct(v, w) ==
            IF v = w THEN {[weight |-> 0, prev_edge |-> NoEdge]}
            ELSE {[weight |-> edges[e].weight, prev_edge |-> e] :
                    e \in {k \in DOMAIN edges : edges[k].from = v /\ edges[k].to = w}}
        change(v, w) ==
            {[weight |-> e.weight + f.weight, prev_edge |-> f.prev_edge] :
                <<e, f>> \in UNION {direct(v, u) \X direct(u, w) : u \in vertex \ {v, w}}}
    IN  [v \in 1 .. stop_count |->
           [w \in 1 .. stop_count |->
              BetterOf(direct(v - 1, w - 1) \cup IF v = w THEN {} ELSE change(v - 1, w - 1))]]

\* Settings with so many colours.
Drawn(n) == [style |-> Drawing, palette_size |-> n]

BaseOf(document, render_settings) ==
    LET d == Declared(document)
        offers == Graph(d)!Offers(d)
        edges == [k \in DOMAIN offers |->
                    [from |-> GetVertexForStop(d, offers[k].from),
                     to |-> GetVertexForStop(d, offers[k].to),
                     weight |-> offers[k].weight, span_count |-> offers[k].span_count]]
    IN  [db |-> [d EXCEPT !.edges_to_buses = [k \in DOMAIN offers |-> offers[k].bus]],
         vrtx_to_stops |-> IndexStops(d),
         edges |-> edges,
         table |-> Table(Len(d.stops), edges),
         drawing |-> render_settings,
         routing |-> [bus_wait_time |-> WaitTime, bus_velocity |-> 6]]

SomeBases ==
    {BaseOf(Town, Drawn(2)), BaseOf(Village, Drawn(0)), BaseOf(Village, NoRenderSettings),
     BaseOf(Hamlet, Drawn(0))} \cup
    {BaseOf(document, Drawn(1)) : document \in {UnknownStart, UnknownDistance, NoStops, TooFast}}

Route(s, t) == [type |-> "Route", from |-> s, to |-> t]

SomeStatDocuments ==
    {<<[type |-> "Bus", name |-> 2], [type |-> "Map"], Route(2, 3)>>,
     <<Route(3, 2), [type |-> "Stop", name |-> 4], Route(4, 1)>>,
     <<Route(2, 1), Route(1, 1)>>}
=============================================================================
