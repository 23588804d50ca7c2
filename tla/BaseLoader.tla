----------------------------- MODULE BaseLoader -----------------------------
(***************************************************************************)
(* JsonReader::ParseBaseRequests (json_reader.cpp): the requests are read  *)
(* once in document order; stops are stored at once, distances and buses   *)
(* are put aside and handled afterwards, because a request may name a stop *)
(* that comes later in the document.  Every round of a loop is a step.     *)
(*                                                                         *)
(* The document is well-formed JSON with the members the code asks for; a  *)
(* missing member throws out of the program and is not modelled.           *)
(***************************************************************************)
EXTENDS BaseRequests

VARIABLES
    requests,            \* base_requests
    next,                \* index of the next request to read
    phase,               \* "read", "distances", "routes", "done"
    db,                  \* the catalogue
    bus_queries,         \* buses put aside, in order
    distances_for_stop,  \* road_distances put aside, by stop
    from,                \* the stop whose distances are being stored
    node,                \* index of the next of the stops of a bus
    route                \* its stops that were found so far

loops == <<from, node, route>>
vars == <<requests, next, phase, db, bus_queries, distances_for_stop, loops>>

Init ==
    /\ requests \in RequestLists
    /\ next = 1
    /\ phase = "read"
    /\ db = EmptyCatalogue
    /\ bus_queries = <<>>
    /\ distances_for_stop = [s \in StopName |-> NoEntry]
    /\ from = NoStop /\ node = 1 /\ route = <<>>

Reading(type) ==
    /\ phase = "read" /\ next <= Len(requests)
    /\ requests[next].type = type
    /\ next' = next + 1
    /\ UNCHANGED <<requests, phase, loops>>

\* Mutant: the distances are those of the last request for the stop.
ReadStopKeepLast ==
    /\ Reading("Stop")
    /\ LET r == requests[next] IN
         /\ db' = AddStop(db, [name |-> r.name, at |-> r.at])
         /\ distances_for_stop' = [distances_for_stop EXCEPT ![r.name] = r.road_distances]
    /\ UNCHANGED bus_queries

\* insert() keeps the distances of the first request for the stop.
ReadStop ==
    /\ Reading("Stop")
    /\ LET r == requests[next] IN
         /\ db' = AddStop(db, [name |-> r.name, at |-> r.at])
         /\ distances_for_stop' =
                [distances_for_stop EXCEPT
                    ![r.name] = IF @ = NoEntry THEN r.road_distances ELSE @]
    /\ UNCHANGED bus_queries

ReadBus ==
    /\ Reading("Bus")
    /\ bus_queries' = Append(bus_queries, requests[next])
    /\ UNCHANGED <<db, distances_for_stop>>

ReadOther ==
    /\ Reading("Other")
    /\ UNCHANGED <<db, bus_queries, distances_for_stop>>

StartDistances ==
    /\ phase = "read" /\ next > Len(requests)
    /\ phase' = "distances"
    /\ UNCHANGED <<requests, next, db, bus_queries, distances_for_stop, loops>>

\* The outer loop of UpdateDistances is over a hash map: any order of stops.
TakeDistances(stop) ==
    /\ phase = "distances" /\ from = NoStop /\ distances_for_stop[stop] # NoEntry
    /\ from' = stop
    /\ UNCHANGED <<requests, next, phase, db, bus_queries, distances_for_stop, node, route>>

\* The inner one is in the order of the names; a name nobody declared becomes
\* the null pointer, where the first such name decides.
UpdateDistances(name) ==
    /\ phase = "distances" /\ from # NoStop
    /\ name \in Keys(distances_for_stop[from])
    /\ \A s \in Keys(distances_for_stop[from]) : name <= s
    /\ db' = SetDistance(db, from, GetStop(db, name), distances_for_stop[from][name])
    /\ distances_for_stop' = [distances_for_stop EXCEPT ![from][name] = NoEntry]
    /\ UNCHANGED <<requests, next, phase, bus_queries, loops>>

LeaveDistances ==
    /\ phase = "distances" /\ from # NoStop /\ Keys(distances_for_stop[from]) = {}
    /\ distances_for_stop' = [distances_for_stop EXCEPT ![from] = NoEntry]
    /\ from' = NoStop
    /\ UNCHANGED <<requests, next, phase, db, bus_queries, node, route>>

StartRoutes ==
    /\ phase = "distances" /\ \A s \in StopName : distances_for_stop[s] = NoEntry
    /\ phase' = "routes"
    /\ UNCHANGED <<requests, next, db, bus_queries, distances_for_stop, loops>>

\* The next stop of the bus is looked up.
PushStop ==
    /\ phase = "routes" /\ bus_queries # <<>> /\ node <= Len(Head(bus_queries).stops)
    /\ LET stop == Head(bus_queries).stops[node] IN
         route' = IF stop \in StopNames(db) THEN Append(route, stop) ELSE route
    /\ node' = node + 1
    /\ UNCHANGED <<requests, next, phase, db, bus_queries, distances_for_stop, from>>

\* The mirrored tail of a route that is not a roundtrip.
WayBack(stops) == IF stops = <<>> THEN <<>> ELSE Tail(Reverse(stops))

\* Mutant: the turning point is visited twice.
MakeBusTwiceAtTurn(q) ==
    [name |-> q.name,
     route |-> IF q.is_roundtrip THEN route ELSE route \o Reverse(route),
     unique_stops |-> Cardinality(ToSet(route)),
     is_roundtrip |-> q.is_roundtrip,
     start_stop |-> IF q.stops = <<>> THEN NoStop ELSE GetStop(db, Head(q.stops)),
     end_stop |-> IF q.stops = <<>> THEN NoStop ELSE GetStop(db, Last(q.stops))]

MakeBus(q) ==
    [name |-> q.name,
     route |-> IF q.is_roundtrip THEN route ELSE route \o WayBack(route),
     unique_stops |-> Cardinality(ToSet(route)),
     is_roundtrip |-> q.is_roundtrip,
     start_stop |-> IF q.stops = <<>> THEN NoStop ELSE GetStop(db, Head(q.stops)),
     end_stop |-> IF q.stops = <<>> THEN NoStop ELSE GetStop(db, Last(q.stops))]

\* Mutant: the next bus begins with the stops of this one.
UpdateRoutesKeepRoute ==
    /\ phase = "routes" /\ bus_queries # <<>> /\ node > Len(Head(bus_queries).stops)
    /\ db' = AddBus(db, MakeBus(Head(bus_queries)))
    /\ bus_queries' = Tail(bus_queries)
    /\ node' = 1
    /\ UNCHANGED <<requests, next, phase, distances_for_stop, from, route>>

UpdateRoutes ==
    /\ phase = "routes" /\ bus_queries # <<>> /\ node > Len(Head(bus_queries).stops)
    /\ db' = AddBus(db, MakeBus(Head(bus_queries)))
    /\ bus_queries' = Tail(bus_queries)
    /\ node' = 1 /\ route' = <<>>
    /\ UNCHANGED <<requests, next, phase, distances_for_stop, from>>

Finish ==
    /\ phase = "routes" /\ bus_queries = <<>>
    /\ phase' = "done"
    /\ UNCHANGED <<requests, next, db, bus_queries, distances_for_stop, loops>>

Next ==
    \/ ReadStop \/ ReadBus \/ ReadOther \/ StartDistances
    \/ \E s \in StopName : TakeDistances(s) \/ UpdateDistances(s)
    \/ LeaveDistances
    \/ StartRoutes \/ PushStop \/ UpdateRoutes \/ Finish

\* The loader is one thread that runs to its end.
Spec == Init /\ [][Next]_vars /\ WF_vars(Next)

-----------------------------------------------------------------------------
(* Properties *)

TypeOK ==
    /\ requests \in Seq(Request)
    /\ next \in 1 .. Len(requests) + 1
    /\ phase \in {"read", "distances", "routes", "done"}
    /\ db \in Catalogue
    /\ bus_queries \in Seq(BusRequest)
    /\ distances_for_stop \in [StopName -> {NoEntry} \cup RoadDistances]
    /\ from \in StopPtr
    /\ from # NoStop => distances_for_stop[from] # NoEntry
    /\ node \in Nat \ {0}
    /\ route \in Seq(StopName)

\* buses_for_stop_ and the routes of the stored buses say the same thing at
\* every moment, duplicates of stops and buses notwithstanding: a stop is a
\* key as soon as it is stored, and its set holds the buses that call there.
IndexMirrorsRoutes ==
    \A s \in StopName :
        db.buses_for_stop[s] =
            IF s \in StopNames(db)
            THEN {db.buses[k].name : k \in {m \in DOMAIN db.buses : s \in ToSet(db.buses[m].route)}}
            ELSE NoEntry

\* Routes call only at stored stops and begin at the first stop of the bus.  A
\* route that is not a roundtrip reads the same from both ends and turns at
\* position size / 2, where RequestHandler stops riding (request_handler.cpp:45).
RoutesWellFormed ==
    \A k \in DOMAIN db.buses :
        LET bus == db.buses[k]
            size == Len(bus.route)
        IN  /\ ToSet(bus.route) \subseteq StopNames(db)
            /\ bus.unique_stops = Cardinality(ToSet(bus.route))
            /\ bus.start_stop # NoStop => size > 0 /\ bus.start_stop = bus.route[1]
            /\ ~bus.is_roundtrip /\ size > 0 =>
                  /\ size % 2 = 1
                  /\ bus.route = Reverse(bus.route)
                  /\ bus.end_stop \in {NoStop, bus.route[size \div 2 + 1]}

\* What the loop over the stops of a bus keeps: it has found stored stops
\* only, the first and the last one read being the first and the last of them
\* if they were found at all, and it begins anew with each bus.
LoopInv ==
    /\ phase \in {"read", "distances"} => db.buses = <<>>
    /\ ToSet(route) \subseteq StopNames(db)
    /\ phase # "routes" \/ bus_queries = <<>> => node = 1
    /\ node = 1 => route = <<>>
    /\ node > 1 =>
          LET stops == Head(bus_queries).stops IN
          /\ node - 1 \in DOMAIN stops
          /\ stops[1] \in StopNames(db) => route # <<>> /\ route[1] = stops[1]
          /\ stops[node - 1] \in StopNames(db) => route # <<>> /\ Last(route) = stops[node - 1]

\* The inductive invariant behind the two before.
LoaderInv == TypeOK /\ LoopInv /\ IndexMirrorsRoutes /\ RoutesWellFormed

\* The loader computes what the document declares, whatever the order of the
\* requests and of the hash map, and it does compute it.
Promise == INSTANCE DeclaredBase
           WITH Documents <- Seq(Request), NotLoaded <- NoEntry,
                base <- IF phase = "done" THEN db ELSE NoEntry

LoadsWhatIsDeclared == Promise!Spec
=============================================================================
