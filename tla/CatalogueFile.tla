--------------------------- MODULE CatalogueFile ---------------------------
(***************************************************************************)
(* CatalogueSerializer and CatalogueDeserializer (serialization.cpp): what *)
(* is kept of a base between make_base and process_requests.               *)
(*                                                                         *)
(* A base is the catalogue, the stops by vertex and the edges of the route *)
(* graph, the router's table and the settings.  Of render_settings it says *)
(* whether they are those of the document and how many colours the palette *)
(* has.  The file of a base is the sequence of the elements of the         *)
(* protobuf message in the order they are written, by field number         *)
(* (transport_catalogue.proto).  Pointers become indices, so that a file   *)
(* makes sense only if they point into what comes with it.  A file may be  *)
(* cut off anywhere, within an element too.                                *)
(*                                                                         *)
(* Edges are numbered from 1 and 0 is the empty optional, as in Router;    *)
(* in the file they count from 0 and the empty optional is -1.             *)
(***************************************************************************)
EXTENDS TransportCatalogue

CONSTANTS
    NoRoute,     \* an empty std::optional<RouteInternalData>
    Drawing,     \* how the document wants the map drawn
    NoDrawing,   \* any other way, as that of a renderer without settings
    WordSize     \* 2^32, the range of a protobuf uint32

ASSUME WordSizeAssumption == WordSize \in Nat /\ WordSize % 2 = 0 /\ WordSize > 0

NoEdge == 0

\* uint32 fields take an int modulo the word; the cast back restores the sign.
Uint32(n) == n % WordSize

\* Mutant: the cast back is forgotten.
Int32Unsigned(n) == n

Int32(n) == IF n < WordSize \div 2 THEN n ELSE n - WordSize

Edge == [from : Nat, to : Nat, weight : Int, span_count : Nat]
RouteInternalData == [weight : Int, prev_edge : Nat]
RoutingSettings == [bus_wait_time : Int, bus_velocity : Int]

\* The palette may have no colour, with or without render_settings.
RenderSettings == [style : {Drawing, NoDrawing}, palette_size : Nat]

Base == [db : Catalogue, vrtx_to_stops : Seq(StopName), edges : Seq(Edge),
         table : Seq(Seq({NoRoute} \cup RouteInternalData)),
         drawing : RenderSettings, routing : RoutingSettings]

\* The numbers an int holds.
FitsInt(n) == -(WordSize \div 2) <= n /\ n < WordSize \div 2

\* A base as the loader and the RequestHandler make it: a bus that begins at a
\* stop calls there, the stops are numbered, each edge has its bus and begins at
\* a stop, and what the code keeps in an int fits one.
AsMade(base) ==
    /\ Resolved(base.db) /\ Indexed(base.db)
    /\ \A n \in DOMAIN base.db.buses :
         base.db.buses[n].start_stop # NoStop => base.db.buses[n].route # <<>>
    /\ base.vrtx_to_stops = IndexStops(base.db)
    /\ Len(base.edges) = Len(base.db.edges_to_buses)
    /\ \A n \in DOMAIN base.edges : base.edges[n].from < EvaluateVertexCount(base.db)
    /\ \A p \in StopPair : base.db.distances[p] # NoEntry => FitsInt(base.db.distances[p])
    /\ FitsInt(base.routing.bus_wait_time)

\* A table as a Router of so many vertices makes it: a square, in which a
\* predecessor is an edge from a vertex that the row has an entry for, and the
\* predecessors of a row run in no circle.
Routed(count, edges, table) ==
    /\ DOMAIN table = 1 .. count
    /\ \A v \in 1 .. count :
         LET row == table[v]
             goesOn(w) == row[w] # NoRoute /\ row[w].prev_edge # NoEdge
             tail(w) == edges[row[w].prev_edge].from + 1
         IN  /\ DOMAIN row = 1 .. count
             /\ \A w \in 1 .. count : goesOn(w) =>
                  /\ row[w].prev_edge \in DOMAIN edges
                  /\ tail(w) \in 1 .. count /\ row[tail(w)] # NoRoute
             /\ \A S \in SUBSET (1 .. count) : S # {} =>
                  \E w \in S : ~goesOn(w) \/ tail(w) \notin S

NoSettings == [bus_wait_time |-> 0, bus_velocity |-> 0]
NoRenderSettings == [style |-> NoDrawing, palette_size |-> 0]

EmptyBase ==
    [db |-> EmptyCatalogue, vrtx_to_stops |-> IndexStops(EmptyCatalogue), edges |-> <<>>,
     table |-> <<>>, drawing |-> NoRenderSettings, routing |-> NoSettings]

-----------------------------------------------------------------------------
(* SerializeTo, up to the file *)

StopId(db, s) == (CHOOSE n \in DOMAIN db.stops : db.stops[n].name = s) - 1
BusId(db, b) == (CHOOSE n \in DOMAIN db.buses : db.buses[n].name = b) - 1

StoredPairs(db) == {p \in StopPair : db.distances[p] # NoEntry}

\* stops_id.at() throws for a null pointer: a bus whose first or last stop
\* is unknown, or which has none, and a distance to an unknown stop.
Serializable(db) ==
    /\ \A n \in DOMAIN db.buses : db.buses[n].start_stop # NoStop /\ db.buses[n].end_stop # NoStop
    /\ \A p \in StoredPairs(db) : p[1] # NoStop /\ p[2] # NoStop

BusToProto(db, bus) ==
    [name |-> bus.name,
     route |-> [n \in DOMAIN bus.route |-> StopId(db, bus.route[n])],
     unique_stops |-> bus.unique_stops,
     is_roundtrip |-> bus.is_roundtrip,
     start_stop |-> StopId(db, bus.start_stop),
     end_stop |-> StopId(db, bus.end_stop)]

DistanceToProto(db, p) ==
    [from |-> StopId(db, p[1]), to |-> StopId(db, p[2]), distance |-> Uint32(db.distances[p])]

\* Mutant: the empty predecessor is left at what protobuf takes for nothing.
EntryToProtoUnmarked(entry) ==
    IF entry = NoRoute THEN [has_value |-> FALSE]
    ELSE [has_value |-> TRUE, weight |-> entry.weight,
          prev_edge |-> IF entry.prev_edge # NoEdge THEN entry.prev_edge - 1 ELSE 0]

EntryToProto(entry) ==
    IF entry = NoRoute THEN [has_value |-> FALSE]
    ELSE [has_value |-> TRUE, weight |-> entry.weight,
          prev_edge |-> IF entry.prev_edge # NoEdge THEN entry.prev_edge - 1 ELSE -1]

\* The elements of a repeated field, or the one of a singular field.
Elements(field, values) == [n \in DOMAIN values |-> [field |-> field, value |-> values[n]]]

\* SerializeDb, SerializeGraph, SerializeRoutesInternalData and the settings.
StopElements(db) == Elements("stops", db.stops)
BusElements(db) == Elements("buses", [n \in DOMAIN db.buses |-> BusToProto(db, db.buses[n])])
DistanceElements(db, pairs) ==
    Elements("distances", [n \in DOMAIN pairs |-> DistanceToProto(db, pairs[n])])
EdgeBusElements(db) ==
    LET ids == [n \in DOMAIN db.edges_to_buses |-> BusId(db, db.edges_to_buses[n])]
    IN  Elements("edges_to_buses", IF ids = <<>> THEN <<>> ELSE <<ids>>)   \* packed
\* Mutant: the last row is left out.
RouterElementsShort(table) ==
    Elements("router", [v \in 1 .. Len(table) - 1 |-> [w \in DOMAIN table[v] |-> EntryToProto(table[v][w])]])

RouterElements(table) ==
    Elements("router", [v \in DOMAIN table |-> [w \in DOMAIN table[v] |-> EntryToProto(table[v][w])]])
RoutingSettingsToProto(settings) == [settings EXCEPT !.bus_wait_time = Uint32(@)]
SettingsElements(base) ==
    Elements("render_settings", <<base.drawing>>)
    \o Elements("routing_settings", <<RoutingSettingsToProto(base.routing)>>)

\* Mutant: the edges are written before the list of their buses.
MessageEdgesFirst(base, pairs) ==
    StopElements(base.db) \o BusElements(base.db) \o DistanceElements(base.db, pairs)
    \o Elements("edges", base.edges) \o RouterElements(base.table)
    \o EdgeBusElements(base.db) \o SettingsElements(base)

\* The message by field number, the distances in the order of the hash map.
Message(base, pairs) ==
    StopElements(base.db) \o BusElements(base.db) \o DistanceElements(base.db, pairs)
    \o EdgeBusElements(base.db) \o Elements("edges", base.edges)
    \o RouterElements(base.table) \o SettingsElements(base)

-----------------------------------------------------------------------------
(* What the parser makes of an element that the file ends in.  It keeps    *)
(* the fields before the cut and reports a failure that DeserializeFrom    *)
(* does not look at; a field that is missing reads as zero or empty.       *)

NoName == 0   \* a name that is cut short, smaller than any other

Missing ==
    [name |-> NoName, route |-> <<>>, unique_stops |-> 0, is_roundtrip |-> FALSE,
     start_stop |-> 0, end_stop |-> 0, from |-> 0, to |-> 0, distance |-> 0,
     weight |-> 0, span_count |-> 0, has_value |-> FALSE, prev_edge |-> 0,
     bus_wait_time |-> 0, bus_velocity |-> 0]

\* The fields of the messages by number.  The position of a stop is left
\* out: a stop that lost it has no bus, and only its name is ever told.
FieldOrder ==
    [stops |-> <<"name">>,
     buses |-> <<"name", "route", "unique_stops", "is_roundtrip", "start_stop", "end_stop">>,
     distances |-> <<"from", "to", "distance">>,
     edges |-> <<"from", "to", "weight", "span_count">>,
     entry |-> <<"has_value", "weight", "prev_edge">>,
     routing_settings |-> <<"bus_wait_time", "bus_velocity">>]

\* All but the first n fields are missing.
CutAfter(value, order, n) ==
    [f \in DOMAIN value |-> IF f \in ToSet(SubSeq(order, n + 1, Len(order))) THEN Missing[f] ELSE value[f]]

CutMessage(value, order) == {CutAfter(value, order, n) : n \in 0 .. Len(order) - 1}

CutList(list) == {SubSeq(list, 1, n) : n \in 0 .. Len(list) - 1}

CutBus(bus) ==
    CutMessage(bus, FieldOrder.buses)
    \cup {[CutAfter(bus, FieldOrder.buses, 1) EXCEPT !.route = r] : r \in CutList(bus.route)}

CutEntry(entry) == IF entry.has_value THEN CutMessage(entry, FieldOrder.entry) ELSE {}

CutRow(row) ==
    CutList(row)
    \cup UNION {{Append(SubSeq(row, 1, n - 1), t) : t \in CutEntry(row[n])} : n \in DOMAIN row}

\* The palette is the last field: what is cut off is some of it, or more.
CutRenderSettings(settings) ==
    {[style |-> NoDrawing, palette_size |-> n] : n \in 0 .. settings.palette_size}

Torn(element) ==
    {[field |-> element.field, value |-> v] : v \in
       CASE element.field = "buses" -> CutBus(element.value)
         [] element.field = "router" -> CutRow(element.value)
         [] element.field = "edges_to_buses" -> CutList(element.value)
         [] element.field = "render_settings" -> CutRenderSettings(element.value)
         [] OTHER -> CutMessage(element.value, FieldOrder[element.field])}

-----------------------------------------------------------------------------
(* DeserializeFrom, after the file.  Elements that are missing are zero or *)
(* empty; nothing tells the program that they are.                         *)

Field(file, field) ==
    LET mine == Filter(file, LAMBDA e : e.field = field)
    IN  [n \in DOMAIN mine |-> mine[n].value]

Singular(file, field, default) ==
    IF Field(file, field) = <<>> THEN default ELSE Last(Field(file, field))

BusFromProto(stops, bus) ==
    [name |-> bus.name,
     route |-> [n \in DOMAIN bus.route |-> stops[bus.route[n] + 1].name],
     unique_stops |-> bus.unique_stops,
     is_roundtrip |-> bus.is_roundtrip,
     start_stop |-> stops[bus.start_stop + 1].name,
     end_stop |-> stops[bus.end_stop + 1].name]

EdgesToBuses(file) == Singular(file, "edges_to_buses", <<>>)

\* Every at() of DeserializeDb, and that of AddEdge, finds its element; else
\* it throws.
Resolvable(file) ==
    LET stops == DOMAIN Field(file, "stops")
        buses == DOMAIN Field(file, "buses")
        isStop(id) == id + 1 \in stops
    IN  /\ \A bus \in ToSet(Field(file, "buses")) :
             isStop(bus.start_stop) /\ isStop(bus.end_stop) /\ \A id \in ToSet(bus.route) : isStop(id)
        /\ \A d \in ToSet(Field(file, "distances")) : isStop(d.from) /\ isStop(d.to)
        /\ \A id \in ToSet(EdgesToBuses(file)) : id + 1 \in buses
        /\ \A edge \in ToSet(Field(file, "edges")) : isStop(edge.from)

\* buses_for_stop_ gets no entry for a stop that no bus calls at, other than
\* in a catalogue that was loaded from requests.
DeserializeDb(file) ==
    LET stops == Field(file, "stops")
        proto == Field(file, "buses")
        buses == [n \in DOMAIN proto |-> BusFromProto(stops, proto[n])]
        calling(s) == {buses[n].name : n \in {m \in DOMAIN buses : s \in ToSet(buses[m].route)}}
        given(p) == Filter(Field(file, "distances"),
                           LAMBDA d : <<stops[d.from + 1].name, stops[d.to + 1].name>> = p)
    IN  [stops |-> stops,
         buses |-> buses,
         buses_for_stop |-> [s \in StopName |-> IF calling(s) = {} THEN NoEntry ELSE calling(s)],
         distances |-> [p \in StopPair |-> IF given(p) = <<>> THEN NoEntry
                                           ELSE Int32(Last(given(p)).distance)],
         edges_to_buses |-> [n \in DOMAIN EdgesToBuses(file) |-> buses[EdgesToBuses(file)[n] + 1].name]]

EntryFromProto(entry) ==
    IF entry.has_value
    THEN [weight |-> entry.weight,
          prev_edge |-> IF entry.prev_edge = -1 THEN NoEdge ELSE entry.prev_edge + 1]
    ELSE NoRoute

\* Mutant: rows that are missing are filled up with empty entries.
DeserializeRoutesPadded(file) ==
    LET rows == Field(file, "router")
        vertex == DOMAIN Field(file, "stops")
    IN  [v \in vertex |-> IF v \in DOMAIN rows THEN [w \in DOMAIN rows[v] |-> EntryFromProto(rows[v][w])]
                          ELSE [w \in vertex |-> NoRoute]]

DeserializeRoutesInternalData(file) ==
    LET rows == Field(file, "router")
    IN  [v \in DOMAIN rows |-> [w \in DOMAIN rows[v] |-> EntryFromProto(rows[v][w])]]

\* With the stops numbered anew by the RequestHandler that is made of it.
Deserialize(file) ==
    [db |-> DeserializeDb(file),
     vrtx_to_stops |-> IndexStopsAgain(DeserializeDb(file)),
     edges |-> Field(file, "edges"),
     table |-> DeserializeRoutesInternalData(file),
     drawing |-> Singular(file, "render_settings", NoRenderSettings),
     routing |-> LET r == Singular(file, "routing_settings", NoSettings)
                 IN  [r EXCEPT !.bus_wait_time = Int32(@)]]
=============================================================================
