---------------------------- MODULE MapRenderer ----------------------------
(***************************************************************************)
(* MapRenderer::Render (map_renderer.cpp): the map as four layers, route   *)
(* lines, bus names, stops, stop names, each drawn by a loop of its own.   *)
(* Coordinates and sizes are whole numbers and a point is kept multiplied  *)
(* by the denominator of the zoom, so nothing is rounded.  Fonts, strokes  *)
(* and offsets are left out.                                               *)
(***************************************************************************)
EXTENDS TransportCatalogue

CONSTANTS
    Catalogues,    \* what may be drawn
    PaletteSize,   \* color_palette.size()
    Width, Height, Padding,
    Largest        \* numeric_limits<double>::max(), above every coordinate

ASSUME PositionAssumption == Position \subseteq [latitude : Int, longitude : Int]
ASSUME MapCataloguesAssumption == \A c \in Catalogues : c \in Catalogue /\ Mappable(c)
ASSUME PaletteAssumption == PaletteSize \in Nat \ {0}
ASSUME SizeAssumption ==
    /\ Width \in Nat /\ Height \in Nat /\ Padding \in Nat
    /\ 2 * Padding < Width /\ 2 * Padding < Height
ASSUME LargestAssumption ==
    Largest \in Int /\ \A p \in Position : p.latitude < Largest /\ p.longitude < Largest

\* numeric_limits<double>::min() is the smallest positive double, which is as
\* good as zero, and not the lowest one.
Smallest == 0

VARIABLES
    db,         \* the catalogue
    bounds,     \* min_lat_, min_lon_, max_lat_ and max_lon_
    layer,      \* what is being drawn
    at,         \* position of the stop or bus of the loop
    counter,    \* bus_counter of the loop
    doc         \* what was drawn

vars == <<db, bounds, layer, at, counter, doc>>

Layers == <<"bounds", "lines", "bus_names", "stops", "stop_names", "done">>
After(l) == Layers[(CHOOSE n \in DOMAIN Layers : Layers[n] = l) + 1]

\* Mutant: stops that no bus calls at are drawn, too.
MapStopsAll == GetAllStops(db)

\* What RequestHandler::RenderMap passes on.
MapStops == Filter(GetAllStops(db), LAMBDA s : IsStopInRoutes(db, s))
MapBuses == [n \in DOMAIN GetAllBuses(db) |-> BusOf(db, GetAllBuses(db)[n])]

Latitude(s) == StopOf(db, s).at.latitude
Longitude(s) == StopOf(db, s).at.longitude

Init ==
    /\ db \in Catalogues
    /\ bounds = [min_lat |-> Largest, min_lon |-> Largest, max_lat |-> Smallest, max_lon |-> Smallest]
    /\ layer = "bounds" /\ at = 1 /\ counter = -1 /\ doc = <<>>

InitMap ==
    /\ layer = "bounds"
    /\ LET latitudes == {Latitude(s) : s \in ToSet(MapStops)}
           longitudes == {Longitude(s) : s \in ToSet(MapStops)}
       IN  bounds' = [min_lat |-> Min(latitudes \cup {Largest}),
                      min_lon |-> Min(longitudes \cup {Largest}),
                      max_lat |-> Max(latitudes \cup {Smallest}),
                      max_lon |-> Max(longitudes \cup {Smallest})]
    /\ layer' = After(layer)
    /\ UNCHANGED <<db, at, counter, doc>>

\* The zoom as a fraction, from the size of the canvas that is left by the
\* padding and the extent of the map.
Zoom(width, height, lon, lat) ==
    CASE lon # 0 /\ lat # 0 -> IF width * lat <= height * lon THEN <<width, lon>> ELSE <<height, lat>>
      [] lon # 0 /\ lat = 0 -> <<width, lon>>
      [] lon = 0 /\ lat # 0 -> <<height, lat>>
      [] lon = 0 /\ lat = 0 -> <<0, 1>>

\* Mutant: the larger of the two fractions.
GetZoomLarger(b) ==
    LET lon == b.max_lon - b.min_lon
        lat == b.max_lat - b.min_lat
    IN  IF lon # 0 /\ lat # 0 /\ (Width - 2 * Padding) * lat <= (Height - 2 * Padding) * lon
        THEN <<Height - 2 * Padding, lat>>
        ELSE Zoom(Width - 2 * Padding, Height - 2 * Padding, lon, lat)

\* Mutant: the padding is taken off twice too often.
GetZoomNarrow(b) ==
    Zoom(Width - 3 * Padding, Height - 3 * Padding, b.max_lon - b.min_lon, b.max_lat - b.min_lat)

GetZoomCoef(b) ==
    Zoom(Width - 2 * Padding, Height - 2 * Padding, b.max_lon - b.min_lon, b.max_lat - b.min_lat)

\* The point of a stop, times the denominator of the zoom.
GetPoint(s) ==
    LET zoom == GetZoomCoef(bounds) IN
    [x |-> (Longitude(s) - bounds.min_lon) * zoom[1] + Padding * zoom[2],
     y |-> (bounds.max_lat - Latitude(s)) * zoom[1] + Padding * zoom[2]]

-----------------------------------------------------------------------------

\* One pass of a loop: what it draws and how many colours it uses up.
Pass(drawn, used) ==
    /\ doc' = doc \o drawn
    /\ at' = at + 1
    /\ counter' = counter + used
    /\ UNCHANGED <<db, bounds, layer>>

\* palette[++bus_counter % palette.size()]
NextColour == (counter + 1) % PaletteSize

Polyline(bus) ==
    [what |-> "line", bus |-> bus.name, colour |-> NextColour,
     points |-> [k \in DOMAIN bus.route |-> GetPoint(bus.route[k])]]

\* Every name is drawn twice, first as its own background.
GetBusLabel(bus, s, what) ==
    [what |-> what, bus |-> bus.name, stop |-> s, points |-> <<GetPoint(s)>>,
     colour |-> IF what = "name" THEN NextColour ELSE -1]
BusLabels(bus, s) == <<GetBusLabel(bus, s, "background"), GetBusLabel(bus, s, "name")>>

GetStopLabel(s, what) == [what |-> what, stop |-> s, points |-> <<GetPoint(s)>>]

RenderRoute ==
    /\ layer = "lines" /\ at \in DOMAIN MapBuses
    /\ LET bus == MapBuses[at] IN
       IF bus.route = <<>> THEN Pass(<<>>, 0) ELSE Pass(<<Polyline(bus)>>, 1)

\* Mutant: both ends of every route are named.
TerminalsBoth(bus) == <<bus.start_stop, bus.end_stop>>

\* The stops at which the name of a bus is written.
Terminals(bus) ==
    IF ~bus.is_roundtrip /\ bus.start_stop # bus.end_stop THEN <<bus.start_stop, bus.end_stop>>
    ELSE <<bus.start_stop>>

\* Mutant: a bus without stops uses up a colour, too.
RenderRouteNameSkipsColour ==
    /\ layer = "bus_names" /\ at \in DOMAIN MapBuses
    /\ LET bus == MapBuses[at]
           labels == [k \in DOMAIN Terminals(bus) |-> BusLabels(bus, Terminals(bus)[k])]
       IN  Pass(IF bus.route = <<>> THEN <<>> ELSE FlattenSeq(labels), 1)

RenderRouteName ==
    /\ layer = "bus_names" /\ at \in DOMAIN MapBuses
    /\ LET bus == MapBuses[at]
           labels == [k \in DOMAIN Terminals(bus) |-> BusLabels(bus, Terminals(bus)[k])]
       IN  IF bus.route = <<>> THEN Pass(<<>>, 0) ELSE Pass(FlattenSeq(labels), 1)

RenderStop ==
    /\ layer = "stops" /\ at \in DOMAIN MapStops
    /\ Pass(<<GetStopLabel(MapStops[at], "circle")>>, 0)

RenderStopName ==
    /\ layer = "stop_names" /\ at \in DOMAIN MapStops
    /\ Pass(<<GetStopLabel(MapStops[at], "stop_background"), GetStopLabel(MapStops[at], "stop_name")>>, 0)

LoopIsOver ==
    /\ layer \notin {"bounds", "done"}
    /\ at > Len(IF layer \in {"lines", "bus_names"} THEN MapBuses ELSE MapStops)

\* The next loop begins with a counter of its own.
NextLayer ==
    /\ LoopIsOver
    /\ layer' = After(layer) /\ at' = 1 /\ counter' = -1
    /\ UNCHANGED <<db, bounds, doc>>

Next ==
    \/ InitMap \/ RenderRoute \/ RenderRouteName \/ RenderStop \/ RenderStopName
    \/ NextLayer

Spec == Init /\ [][Next]_vars

-----------------------------------------------------------------------------
(* Properties *)

Drawn(what) == {n \in DOMAIN doc : doc[n].what = what}
Routed == {bus \in ToSet(MapBuses) : bus.route # <<>>}

\* The name of a bus has the colour of its line, although two loops hand out
\* the colours, each with a counter of its own, and lines drawn one after the
\* other differ as long as the palette lasts.
ColoursAgree ==
    /\ \A i \in Drawn("line"), j \in Drawn("name") :
         doc[i].bus = doc[j].bus => doc[i].colour = doc[j].colour
    /\ \A i, j \in Drawn("line") : i < j /\ j - i < PaletteSize => doc[i].colour # doc[j].colour

\* Where a passenger looks for the name of a bus: at its first stop and, when
\* it goes there and back, where it turns.
Ends(bus) == {Head(bus.route)} \cup
             (IF bus.is_roundtrip THEN {} ELSE {bus.route[Len(bus.route) \div 2 + 1]})

\* What a name is drawn upon.
Background(x) ==
    [what |-> "background", bus |-> x.bus, stop |-> x.stop, points |-> x.points, colour |-> -1]

\* Every bus with a route is named exactly once at each of its ends and
\* nowhere else, each name upon its own background.
TerminalsLabelled ==
    layer \in {"stops", "stop_names", "done"} =>
        /\ {<<doc[n].bus, doc[n].stop>> : n \in Drawn("name")}
           = UNION {{bus.name} \X Ends(bus) : bus \in Routed}
        /\ \A i, j \in Drawn("name") :
             doc[i].bus = doc[j].bus /\ doc[i].stop = doc[j].stop => i = j
        /\ \A n \in Drawn("name") : doc[n - 1] = Background(doc[n])

\* All that is drawn.
Points == UNION {ToSet(doc[n].points) : n \in DOMAIN doc}
Denominator == GetZoomCoef(bounds)[2]
LeftEdge == Padding * Denominator
RightEdge == (Width - Padding) * Denominator
BottomEdge == (Height - Padding) * Denominator

\* Every point is inside the frame that the padding leaves, wherever the
\* stops are, although the bounds do not start from the lowest number.
OnCanvas ==
    \A p \in Points : p.x \in LeftEdge .. RightEdge /\ p.y \in LeftEdge .. BottomEdge

\* The map is drawn as large as it fits: it touches the left edge and, with a
\* stop that is not south of the equator, the top; with one not west of
\* Greenwich as well, and not all in one place, the right edge or the bottom.
FillsFrame ==
    layer = "done" /\ MapStops # <<>> =>
        LET north == \E s \in ToSet(MapStops) : Latitude(s) >= 0
            east == \E s \in ToSet(MapStops) : Longitude(s) >= 0
        IN  /\ \E p \in Points : p.x = LeftEdge
            /\ north => \E p \in Points : p.y = LeftEdge
            /\ north /\ east /\ Cardinality(Points) > 1 =>
                 \E p \in Points : p.x = RightEdge \/ p.y = BottomEdge

\* What is on the map: the circles are the stops that a line passes, each
\* drawn and named once, though the index of buses picks the stops.
StopsOfLines ==
    layer = "done" =>
        /\ {doc[n].stop : n \in Drawn("circle")} = UNION {ToSet(bus.route) : bus \in Routed}
        /\ \A what \in {"circle", "stop_background", "stop_name"} :
             /\ {doc[n].stop : n \in Drawn(what)} = {doc[n].stop : n \in Drawn("circle")}
             /\ \A i, j \in Drawn(what) : doc[i].stop = doc[j].stop => i = j
=============================================================================
