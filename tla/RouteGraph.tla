----------------------------- MODULE RouteGraph -----------------------------
(***************************************************************************)
(* The constructor of RequestHandler that builds the graph of rides from a *)
(* loaded catalogue (request_handler.cpp:8-51), with the graph's AddEdge   *)
(* (graph.h).  A vertex is a stop; an edge is a ride on one bus from where *)
(* one boards it to where one leaves it, waiting included.                 *)
(*                                                                         *)
(* Weights, minutes in the code, are kept in units of one NormalVelocity-th*)
(* of a minute, in which the distance in metres is the time it takes: they *)
(* are integers, and rounding is not modelled.  Positions in a route count *)
(* from 1, vertices from 0 as in the code.                                 *)
(***************************************************************************)
EXTENDS TransportCatalogue

CONSTANTS
    Catalogues,      \* the loaded catalogues, edges_to_buses_ still empty
    BusWaitTime,     \* routing_settings.bus_wait_time, minutes
    NormalVelocity   \* GetNormalBusVelocity(), metres a minute

ASSUME CataloguesAssumption ==
    \A c \in Catalogues : c \in Catalogue /\ Resolved(c) /\ c.edges_to_buses = <<>>
ASSUME BusWaitTimeAssumption == BusWaitTime \in Int
ASSUME NormalVelocityAssumption == NormalVelocity \in Nat \ {0}

VARIABLES
    db,         \* the catalogue
    edges,      \* route_graph_.edges_
    buses,      \* buses of GetAllBuses() not finished, the current one first
    from_at,    \* position of from_it
    to_at,      \* position of to_it
    weight,     \* riding time so far
    span_count  \* stops ridden so far

ride == <<from_at, to_at, weight, span_count>>
vars == <<db, edges, buses, ride>>

\* Position of next(begin, size / 2), where a bus turns that is no roundtrip.
Middle(bus) == Len(bus.route) \div 2 + 1

CurrentBus == BusOf(db, Head(buses))

StartRides(at) ==
    from_at' = at /\ to_at' = at + 1 /\ weight' = 0 /\ span_count' = 0

Init ==
    /\ db \in Catalogues
    /\ edges = <<>>
    /\ buses = GetAllBuses(db)
    /\ from_at = 1 /\ to_at = 2 /\ weight = 0 /\ span_count = 0

\* Mutant: one stop beyond the middle.
LeaveAtTurnLate(bus) == ~bus.is_roundtrip /\ to_at = Middle(bus) + 1

LeaveAtTurn(bus) == ~bus.is_roundtrip /\ to_at = Middle(bus)

\* Mutant: the last leg alone is the riding time.
RidingTimeLastLeg(bus) == GetDistance(db, bus.route[to_at - 1], bus.route[to_at])

RidingTime(bus) == weight + GetDistance(db, bus.route[to_at - 1], bus.route[to_at])

\* One pass of the inner loop; the ride goes on unless this was the turn.
AddEdge ==
    /\ buses # <<>> /\ to_at <= Len(CurrentBus.route)
    /\ edges' = Append(edges,
                  [from |-> GetVertexForStop(db, CurrentBus.route[from_at]),
                   to |-> GetVertexForStop(db, CurrentBus.route[to_at]),
                   weight |-> RidingTime(CurrentBus) + NormalVelocity * BusWaitTime,
                   span_count |-> span_count + 1])
    /\ db' = SetBusForEdge(db, Head(buses))
    /\ IF LeaveAtTurn(CurrentBus) THEN StartRides(from_at + 1)
       ELSE /\ weight' = RidingTime(CurrentBus)
            /\ span_count' = span_count + 1
            /\ to_at' = to_at + 1
            /\ UNCHANGED from_at
    /\ UNCHANGED buses

\* The inner loop runs out of stops.
EndOfRoute ==
    /\ buses # <<>> /\ from_at <= Len(CurrentBus.route) /\ to_at > Len(CurrentBus.route)
    /\ StartRides(from_at + 1)
    /\ UNCHANGED <<db, edges, buses>>

\* Mutant: the next bus is boarded from its second stop on.
NextBusSkipFirst ==
    /\ buses # <<>> /\ from_at > Len(CurrentBus.route)
    /\ buses' = Tail(buses)
    /\ StartRides(2)
    /\ UNCHANGED <<db, edges>>

NextBus ==
    /\ buses # <<>> /\ from_at > Len(CurrentBus.route)
    /\ buses' = Tail(buses)
    /\ StartRides(1)
    /\ UNCHANGED <<db, edges>>

Next == AddEdge \/ EndOfRoute \/ NextBus

Spec == Init /\ [][Next]_vars

-----------------------------------------------------------------------------
(* Properties *)

Done == buses = <<>>

Vertex == 0 .. EvaluateVertexCount(db) - 1

\* From position i one can ride to any later stop, but on a bus that goes
\* there and back not past the turn.
Furthest(bus, i) ==
    IF bus.is_roundtrip \/ i >= Middle(bus) THEN Len(bus.route) ELSE Middle(bus)

\* The metres to each position of a route from the one before it, and those
\* from position i to position j.
Legs(d, bus) ==
    [n \in 2 .. Len(bus.route) |-> GetDistance(d, bus.route[n - 1], bus.route[n])]

Metres(legs, i, j) ==
    LET to[n \in i .. j] == IF n = i THEN 0 ELSE to[n - 1] + legs[n] IN to[j]

WaitingTime == NormalVelocity * BusWaitTime

\* What a catalogue offers: a ride on bus b from position i to position j, the
\* rides from one position, those of one bus, by the stop of boarding and then
\* by that of leaving, and those of all buses.
Offer(d, b, i, j) ==
    LET bus == BusOf(d, b) IN
    [bus |-> b, from |-> bus.route[i], to |-> bus.route[j],
     weight |-> Metres(Legs(d, bus), i, j) + WaitingTime, span_count |-> j - i]

OffersFrom(d, b, i) == [n \in 1 .. Furthest(BusOf(d, b), i) - i |-> Offer(d, b, i, i + n)]

OffersOf(d, b) == FlattenSeq([i \in DOMAIN BusOf(d, b).route |-> OffersFrom(d, b, i)])

Offers(d) == FlattenSeq([n \in DOMAIN GetAllBuses(d) |-> OffersOf(d, GetAllBuses(d)[n])])

\* The edges as the itinerary printer reads them: with the bus of their id and
\* the stops of their vertices.
Printed ==
    [k \in DOMAIN edges |->
        [bus |-> GetBusByEdge(db, k - 1),
         from |-> GetStopForVertex(db, edges[k].from), to |-> GetStopForVertex(db, edges[k].to),
         weight |-> edges[k].weight, span_count |-> edges[k].span_count]]

\* The graph offers every ride of every bus once, at the price of its
\* distances, and nothing else.  Edges and edges_to_buses_ are two lists that
\* only their positions tie together; the break in the inner loop decides
\* which rides are left out.
GraphIsOffers == IsPrefix(Printed, Offers(db)) /\ (Done => Len(Printed) = Len(Offers(db)))

\* Edge k carries the bus of position k, boards at i and leaves at j.
Carries(k, i, j) ==
    LET bus == BusOf(db, db.edges_to_buses[k]) IN
    /\ i \in DOMAIN bus.route /\ j \in DOMAIN bus.route
    /\ edges[k].from = GetVertexForStop(db, bus.route[i])
    /\ edges[k].to = GetVertexForStop(db, bus.route[j])
    /\ edges[k].span_count = j - i

\* The price of edge k from i to j: that of the edge before it, which ends one
\* stop earlier, and the last leg.
Priced(k, i, j) ==
    LET bus == BusOf(db, db.edges_to_buses[k])
        leg == GetDistance(db, bus.route[j - 1], bus.route[j])
    IN  IF j = i + 1 THEN edges[k].weight = WaitingTime + leg
        ELSE /\ k > 1 /\ db.edges_to_buses[k - 1] = db.edges_to_buses[k]
             /\ Carries(k - 1, i, j - 1)
             /\ edges[k].weight = edges[k - 1].weight + leg

\* The lists stay aligned whatever the catalogue: each edge is a ride of the
\* bus at its own position, not past the turn, priced leg by leg.
EdgesAligned ==
    /\ Len(db.edges_to_buses) = Len(edges)
    /\ \A k \in DOMAIN edges :
         /\ db.edges_to_buses[k] \in BusNames(db)
         /\ LET bus == BusOf(db, db.edges_to_buses[k]) IN
            \E i \in DOMAIN bus.route : \E j \in i + 1 .. Furthest(bus, i) :
                Carries(k, i, j) /\ Priced(k, i, j)
=============================================================================
