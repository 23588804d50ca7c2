---------------------------- MODULE BaseRequests ----------------------------
(***************************************************************************)
(* The base_requests of a make_base document, and the catalogue they       *)
(* declare: what a reader of the document expects to be in the base,       *)
(* stated without an order of processing.                                  *)
(***************************************************************************)
EXTENDS TransportCatalogue

CONSTANT RequestLists  \* the base_requests arrays a document may hold

RoadDistances == [StopName -> {NoEntry} \cup Int]
StopRequest == [type : {"Stop"}, name : StopName, at : Position, road_distances : RoadDistances]
BusRequest == [type : {"Bus"}, name : BusName, stops : Seq(StopName), is_roundtrip : BOOLEAN]
OtherRequest == [type : {"Other"}]
Request == StopRequest \cup BusRequest \cup OtherRequest

ASSUME RequestListsAssumption == RequestLists \subseteq Seq(Request)
ASSUME RoadDistancesAssumption == NoEntry \notin RoadDistances

\* The keys of a road_distances dictionary.
Keys(dict) == {s \in StopName : dict[s] # NoEntry}

\* The requests that count: the first of each kind and name.
Declarations(rs, type) ==
    {n \in DOMAIN rs :
        /\ rs[n].type = type
        /\ ~\E m \in 1 .. n - 1 : rs[m].type = type /\ rs[m].name = rs[n].name}

InOrder(rs, type) ==
    LET at == Ascending(Declarations(rs, type))
    IN  [k \in DOMAIN at |-> rs[at[k]]]

DeclaredStops(rs) == {rs[n].name : n \in Declarations(rs, "Stop")}

\* Every stop the document declares somewhere, whether before or after the
\* bus, in the order of the bus; and back again unless it is a roundtrip.
DeclaredBus(rs, q) ==
    LET known == Filter(q.stops, LAMBDA s : s \in DeclaredStops(rs))
        k == Len(known)
        length == IF q.is_roundtrip \/ k = 0 THEN k ELSE 2 * k - 1
        end(n) == IF q.stops # <<>> /\ q.stops[n] \in DeclaredStops(rs)
                  THEN q.stops[n] ELSE NoStop
    IN  [name |-> q.name,
         route |-> [n \in 1 .. length |-> IF n <= k THEN known[n] ELSE known[2 * k - n]],
         unique_stops |-> Cardinality(ToSet(known)),
         is_roundtrip |-> q.is_roundtrip,
         start_stop |-> end(1),
         end_stop |-> end(Len(q.stops))]

\* The distance the first request for stop `from` gives to `to`; the names it
\* gives that are declared nowhere fall together in NoStop.
DeclaredDistance(rs, from, to) ==
    LET given == {rs[n].road_distances : n \in {m \in Declarations(rs, "Stop") : rs[m].name = from}}
        names(d) == {s \in Keys(d) : (IF s \in DeclaredStops(rs) THEN s ELSE NoStop) = to}
    IN  IF \E d \in given : names(d) # {}
        THEN LET d == CHOOSE d \in given : TRUE IN d[Min(names(d))]
        ELSE NoEntry

Declared(rs) ==
    LET stops == InOrder(rs, "Stop")
        buses == InOrder(rs, "Bus")
        made == [k \in DOMAIN buses |-> DeclaredBus(rs, buses[k])]
    IN  [stops |-> [k \in DOMAIN stops |-> [name |-> stops[k].name, at |-> stops[k].at]],
         buses |-> made,
         buses_for_stop |->
            [s \in StopName |->
               IF s \in DeclaredStops(rs)
               THEN {made[k].name : k \in {m \in DOMAIN made : s \in ToSet(made[m].route)}}
               ELSE NoEntry],
         distances |-> [p \in StopPair |-> DeclaredDistance(rs, p[1], p[2])],
         edges_to_buses |-> <<>>]
=============================================================================
