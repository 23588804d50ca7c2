------------------------- MODULE TransportCatalogue -------------------------
(***************************************************************************)
(* TransportCatalogue (transport_catalogue.cpp): the store of stops, buses *)
(* and distances, as operators from one value of the store to the next.    *)
(* The modules that load, index and save a catalogue keep such a value in  *)
(* a variable.                                                             *)
(*                                                                         *)
(* Names are numbers, compared as std::map compares the strings.  A stop   *)
(* or a bus is pointed to by its name: stops_by_name_ and buses_by_name_   *)
(* hold one object per name, so the pointer and the name determine each    *)
(* other.  Coordinates are members of a set; distances are integers.       *)
(***************************************************************************)
EXTENDS Integers, Sequences, FiniteSets, SequencesExt

CONSTANTS
    StopName,   \* names a stop may have
    BusName,    \* names a bus may have
    Position,   \* latitude and longitude
    NoEntry     \* what is not in an associative container

ASSUME StopNameAssumption == StopName \subseteq Nat \ {0}
ASSUME BusNameAssumption == BusName \subseteq Nat \ {0}
ASSUME NoEntryAssumption == NoEntry \notin Int /\ \A S \in SUBSET BusName : S # NoEntry

\* The elements of an ordered container as they are iterated over: the n-th
\* is the one with n - 1 before it.
Rank(S, x) == Cardinality({y \in S : y < x})
Ascending(S) == [n \in 1 .. Cardinality(S) |-> CHOOSE x \in S : Rank(S, x) = n - 1]

\* The elements of a sequence that pass a test, in their order.
Filter(s, Test(_)) ==
    LET at == Ascending({n \in DOMAIN s : Test(s[n])}) IN [k \in DOMAIN at |-> s[at[k]]]

NoStop == 0                          \* a null StopPtr
StopPtr == StopName \cup {NoStop}
StopPair == StopPtr \X StopPtr

Stop == [name : StopName, at : Position]
Bus == [name : BusName, route : Seq(StopName), unique_stops : Nat,
        is_roundtrip : BOOLEAN, start_stop : StopPtr, end_stop : StopPtr]

Catalogue ==
    [stops : Seq(Stop), buses : Seq(Bus),
     buses_for_stop : [StopName -> {NoEntry} \cup SUBSET BusName],
     distances : [StopPair -> {NoEntry} \cup Int],
     edges_to_buses : Seq(BusName)]

EmptyCatalogue ==
    [stops |-> <<>>, buses |-> <<>>,
     buses_for_stop |-> [s \in StopName |-> NoEntry],
     distances |-> [p \in StopPair |-> NoEntry],
     edges_to_buses |-> <<>>]

StopNames(db) == {db.stops[n].name : n \in DOMAIN db.stops}
BusNames(db) == {db.buses[n].name : n \in DOMAIN db.buses}

\* All that a catalogue points to is in it, but for the null pointers that
\* names nobody declared become.
Resolved(db) ==
    LET known == StopNames(db) \cup {NoStop} IN
    /\ \A n \in DOMAIN db.buses :
         /\ ToSet(db.buses[n].route) \subseteq StopNames(db)
         /\ db.buses[n].start_stop \in known /\ db.buses[n].end_stop \in known
    /\ \A p \in StopPair : db.distances[p] # NoEntry => p \in known \X known
    /\ ToSet(db.edges_to_buses) \subseteq BusNames(db)

GetStop(db, name) == IF name \in StopNames(db) THEN name ELSE NoStop

\* The object a stop or bus pointer points to.
StopOf(db, s) == db.stops[CHOOSE n \in DOMAIN db.stops : db.stops[n].name = s]
BusOf(db, b) == db.buses[CHOOSE n \in DOMAIN db.buses : db.buses[n].name = b]

IsStopInRoutes(db, s) ==
    s # NoStop /\ db.buses_for_stop[s] # NoEntry /\ db.buses_for_stop[s] # {}

\* What a catalogue can be drawn from: one bus of a name; routes of stored
\* stops, indexed, that begin and turn at the ends of their buses, as they do
\* when the stops that the buses name are declared.
Mappable(db) ==
    /\ \A m, n \in DOMAIN db.buses : db.buses[m].name = db.buses[n].name => m = n
    /\ \A n \in DOMAIN db.buses :
         LET bus == db.buses[n] IN
         /\ ToSet(bus.route) \subseteq StopNames(db)
         /\ bus.route # <<>> =>
              /\ bus.start_stop = Head(bus.route)
              /\ bus.is_roundtrip \/ bus.end_stop = bus.route[Len(bus.route) \div 2 + 1]
    /\ \A s \in StopNames(db) :
         IsStopInRoutes(db, s) <=> \E n \in DOMAIN db.buses : s \in ToSet(db.buses[n].route)

\* The index of the stored stops holds the buses that call there.
Indexed(db) ==
    \A s \in StopNames(db) :
        db.buses_for_stop[s] =
            {db.buses[n].name : n \in {m \in DOMAIN db.buses : s \in ToSet(db.buses[m].route)}}

AddStop(db, stop) ==
    IF stop.name \in StopNames(db) THEN db
    ELSE [db EXCEPT !.stops = Append(@, stop), !.buses_for_stop[stop.name] = {}]

\* buses_for_stop_[s].insert(b), which creates the set when there is none.
InsertBus(index, s, b) == IF index[s] = NoEntry THEN {b} ELSE index[s] \cup {b}

IndexBus(index, bus) ==
    [s \in StopName |-> IF s \in ToSet(bus.route) THEN InsertBus(index, s, bus.name)
                        ELSE index[s]]

\* Mutant: the index is updated for a bus that is not stored.
AddBusIndexFirst(db, bus) ==
    [db EXCEPT !.buses = IF bus.name \in BusNames(db) THEN @ ELSE Append(@, bus),
               !.buses_for_stop = IndexBus(@, bus)]

AddBus(db, bus) ==
    IF bus.name \in BusNames(db) THEN db
    ELSE [db EXCEPT !.buses = Append(@, bus), !.buses_for_stop = IndexBus(@, bus)]

SetDistance(db, from, to, distance) ==
    IF db.distances[<<from, to>>] = NoEntry THEN [db EXCEPT !.distances[<<from, to>>] = distance]
    ELSE db

GetDistance(db, from, to) ==
    IF db.distances[<<from, to>>] # NoEntry THEN db.distances[<<from, to>>]
    ELSE IF db.distances[<<to, from>>] # NoEntry THEN db.distances[<<to, from>>]
    ELSE 0

\* Iteration over stops_by_name_ and buses_by_name_.
GetAllStops(db) == Ascending(StopNames(db))
GetAllBuses(db) == Ascending(BusNames(db))

GetBusesForStop(db, s) == IF s = NoStop THEN NoEntry ELSE db.buses_for_stop[s]

\* A RequestHandler that builds the graph lists the stops in the order of their
\* names; one that is given the graph does so again, in another process.
IndexStops(db) == GetAllStops(db)

\* Mutant: the second time in the order in which they were stored.
IndexStopsAsStored(db) == [n \in DOMAIN db.stops |-> db.stops[n].name]

IndexStopsAgain(db) == GetAllStops(db)

\* The place of a stop in that order, from 0.
GetVertexForStop(db, s) == Rank(StopNames(db), s)
GetStopForVertex(db, v) == GetAllStops(db)[v + 1]

EvaluateVertexCount(db) == Len(db.stops)

\* edges_to_buses_ by the code's edge id, which counts from 0.
GetBusByEdge(db, edge_id) == db.edges_to_buses[edge_id + 1]
SetBusForEdge(db, bus) == [db EXCEPT !.edges_to_buses = Append(@, bus)]

ComputeRouteLength(db, bus) ==
    FoldLeftDomain(LAMBDA sum, n : IF n = Len(bus.route) THEN sum
                                   ELSE sum + GetDistance(db, bus.route[n], bus.route[n + 1]),
                   0, bus.route)
=============================================================================
