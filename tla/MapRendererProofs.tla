------------------------- MODULE MapRendererProofs -------------------------
(***************************************************************************)
(* Proofs about MapRenderer: for every catalogue that can be drawn, every  *)
(* palette and every size of the canvas.                                   *)
(***************************************************************************)
EXTENDS MapRenderer, CatalogueProofs

-----------------------------------------------------------------------------
(* What is drawn from *)

\* The buses to draw: the stored ones, one of each name, in ascending order.
LEMMA BusesToDraw ==
    ASSUME db \in Catalogues
    PROVE  /\ db \in Catalogue /\ Mappable(db)
           /\ MapBuses \in Seq(Bus)
           /\ \A n \in 1 .. Len(MapBuses) : MapBuses[n] \in Bus
           /\ \A m, n \in 1 .. Len(MapBuses) : MapBuses[m].name = MapBuses[n].name => m = n
           /\ \A n \in 1 .. Len(MapBuses) : \E k \in DOMAIN db.buses : MapBuses[n] = db.buses[k]
           /\ \A k \in DOMAIN db.buses : \E n \in 1 .. Len(MapBuses) : MapBuses[n] = db.buses[k]
<1>1. db \in Catalogue /\ Mappable(db)
  BY MapCataloguesAssumption
<1>2. PICK names : names = GetAllBuses(db)
  OBVIOUS
<1>3. PICK size \in Nat : size = Cardinality(BusNames(db))
  BY <1>1, NamesAreFinite, FS_CardinalityType
<1>4. /\ DOMAIN names = 1 .. size
      /\ \A n \in 1 .. size : names[n] \in BusNames(db)
      /\ \A m, n \in 1 .. size : m < n => names[m] < names[n]
      /\ \A b \in BusNames(db) : \E n \in 1 .. size : names[n] = b
  <2>1. BusNames(db) \in SUBSET Int /\ IsFiniteSet(BusNames(db))
    BY <1>1, NamesAreFinite
  <2>2. /\ DOMAIN names = 1 .. size /\ ToSet(names) = BusNames(db)
        /\ \A m, n \in 1 .. size : m < n => names[m] < names[n]
    BY <1>2, <1>3, <2>1, AscendingOrder DEF GetAllBuses
  <2> QED
    BY <2>2 DEF ToSet
<1>5. MapBuses = [n \in 1 .. size |-> BusOf(db, names[n])]
  BY <1>2, <1>4 DEF MapBuses
<1>6. \A n \in 1 .. size : /\ BusOf(db, names[n]) \in Bus /\ BusOf(db, names[n]).name = names[n]
                           /\ \E k \in DOMAIN db.buses : BusOf(db, names[n]) = db.buses[k]
  BY <1>1, <1>4, BusOfName
<1>7. MapBuses \in Seq(Bus) /\ Len(MapBuses) = size
  <2>1. MapBuses \in [1 .. size -> Bus]
    BY <1>5, <1>6
  <2> QED
    BY <2>1, FunctionSeq
<1>8. \A n \in 1 .. size : MapBuses[n] = BusOf(db, names[n])
  BY <1>5
<1>9. \A m, n \in 1 .. size : MapBuses[m].name = MapBuses[n].name => m = n
  <2> SUFFICES ASSUME NEW m \in 1 .. size, NEW n \in 1 .. size, names[m] = names[n], m # n PROVE FALSE
    BY <1>6, <1>8
  <2>1. names[m] \in Int /\ names[n] \in Int
    BY <1>1, <1>4, NamesAreFinite
  <2>2. m < n \/ n < m
    OBVIOUS
  <2> QED
    BY <1>4, <2>1, <2>2
<1>10. ASSUME NEW k \in DOMAIN db.buses
       PROVE  \E n \in 1 .. size : MapBuses[n] = db.buses[k]
  <2>1. db.buses[k].name \in BusNames(db)
    BY DEF BusNames
  <2>2. PICK n \in 1 .. size : names[n] = db.buses[k].name
    BY <1>4, <2>1
  <2>3. PICK j \in DOMAIN db.buses : MapBuses[n] = db.buses[j]
    BY <1>6, <1>8
  <2>4. db.buses[j].name = db.buses[k].name
    BY <1>6, <1>8, <2>2, <2>3
  <2>5. j = k
    BY <1>1, <2>4 DEF Mappable
  <2> QED
    BY <2>3, <2>5
<1> QED
  BY <1>1, <1>6, <1>7, <1>8, <1>9, <1>10

\* Their routes and their ends, which are where the names are written.
LEMMA BusesHaveEnds ==
    ASSUME db \in Catalogues, NEW n \in 1 .. Len(MapBuses), MapBuses[n].route # <<>>
    PROVE  LET bus == MapBuses[n] IN
           /\ bus.name \in BusName /\ bus.route \in Seq(StopName) /\ Len(bus.route) \in Nat \ {0}
           /\ ToSet(bus.route) \subseteq StopNames(db)
           /\ bus.start_stop = Head(bus.route)
           /\ bus.is_roundtrip \/ bus.end_stop = bus.route[Len(bus.route) \div 2 + 1]
           /\ bus.is_roundtrip \in BOOLEAN
           /\ Ends(bus) \subseteq ToSet(bus.route)
<1>1. PICK bus \in Bus : bus = MapBuses[n]
  BY BusesToDraw
<1>2. PICK k \in DOMAIN db.buses : bus = db.buses[k]
  BY <1>1, BusesToDraw
<1>3. /\ bus.name \in BusName /\ bus.route \in Seq(StopName) /\ Len(bus.route) \in Nat \ {0}
      /\ bus.is_roundtrip \in BOOLEAN
  BY <1>1 DEF Bus
<1>4. /\ ToSet(bus.route) \subseteq StopNames(db)
      /\ bus.start_stop = Head(bus.route)
      /\ bus.is_roundtrip \/ bus.end_stop = bus.route[Len(bus.route) \div 2 + 1]
  BY <1>1, <1>2, BusesToDraw DEF Mappable
<1>5. Ends(bus) \subseteq ToSet(bus.route)
  <2>1. PICK size \in Nat \ {0} : size = Len(bus.route)
    BY <1>3
  <2>2. size \div 2 + 1 \in 1 .. size /\ 1 \in 1 .. size
    <3>1. size \in Int /\ 2 \in Nat \ {0} /\ size >= 1
      OBVIOUS
    <3>2. size \div 2 \in Int
      BY <3>1
    <3>3. 2 * (size \div 2) <= size /\ size < 2 * (size \div 2) + 2
      BY <3>1
    <3> QED
      BY <3>1, <3>2, <3>3
  <2>3. Head(bus.route) = bus.route[1] /\ DOMAIN bus.route = 1 .. size
    BY <1>3, <2>1
  <2> QED
    BY <2>1, <2>2, <2>3 DEF Ends, ToSet
<1> QED
  BY <1>1, <1>3, <1>4, <1>5

\* The stops to draw: those that a route passes, each once.
LEMMA StopsToDraw ==
    ASSUME db \in Catalogues
    PROVE  /\ MapStops \in Seq(StopName)
           /\ \A m, n \in 1 .. Len(MapStops) : MapStops[m] = MapStops[n] => m = n
           /\ ToSet(MapStops) = {s \in StopNames(db) : IsStopInRoutes(db, s)}
           /\ \A s \in ToSet(MapStops) : Latitude(s) \in Int /\ Longitude(s) \in Int
           /\ \A s \in ToSet(MapStops) : Latitude(s) < Largest /\ Longitude(s) < Largest
           /\ \A n \in 1 .. Len(MapBuses) : ToSet(MapBuses[n].route) \subseteq ToSet(MapStops)
           /\ \A s \in ToSet(MapStops) :
                \E n \in 1 .. Len(MapBuses) : s \in ToSet(MapBuses[n].route)
<1>1. /\ db \in Catalogue /\ Mappable(db)
      /\ StopNames(db) \in SUBSET Int /\ IsFiniteSet(StopNames(db)) /\ StopNames(db) \subseteq StopName
  BY BusesToDraw, NamesAreFinite, CatalogueFields
<1>2. PICK all : all = GetAllStops(db)
  OBVIOUS
<1>3. PICK size \in Nat : size = Cardinality(StopNames(db))
  BY <1>1, FS_CardinalityType
<1>4. /\ DOMAIN all = 1 .. size /\ ToSet(all) = StopNames(db)
      /\ \A m, n \in 1 .. size : m < n => all[m] < all[n]
  BY <1>1, <1>2, <1>3, AscendingOrder DEF GetAllStops
<1>5. PICK kept \in SUBSET (1 .. size) : kept = {n \in 1 .. size : IsStopInRoutes(db, all[n])}
  OBVIOUS
<1>6. kept \in SUBSET Int /\ IsFiniteSet(kept)
  <2>1. IsFiniteSet(1 .. size)
    BY FS_Interval
  <2>2. IsFiniteSet(kept)
    BY <2>1, FS_Subset
  <2>3. 1 .. size \subseteq Int
    OBVIOUS
  <2> QED
    BY <2>2, <2>3
<1>7. PICK at1 : at1 = Ascending(kept)
  OBVIOUS
<1>8. PICK count \in Nat : count = Cardinality(kept)
  BY <1>6, FS_CardinalityType
<1>9. /\ DOMAIN at1 = 1 .. count /\ ToSet(at1) = kept
      /\ \A m, n \in 1 .. count : m < n => at1[m] < at1[n]
  BY <1>6, <1>7, <1>8, AscendingOrder
<1>10. MapStops = [k \in 1 .. count |-> all[at1[k]]]
  BY <1>2, <1>4, <1>5, <1>7, <1>9 DEF MapStops, Filter
<1>11. \A k \in 1 .. count : at1[k] \in kept
  BY <1>9 DEF ToSet
<1>12. \A k \in 1 .. count : all[at1[k]] \in StopNames(db) /\ IsStopInRoutes(db, all[at1[k]])
  BY <1>4, <1>5, <1>11 DEF ToSet
<1>13. MapStops \in Seq(StopName) /\ Len(MapStops) = count
  <2>1. MapStops \in [1 .. count -> StopName]
    BY <1>1, <1>10, <1>12
  <2> QED
    BY <2>1, FunctionSeq
<1>14. \A k \in 1 .. count : MapStops[k] = all[at1[k]]
  BY <1>10
<1>15. \A m, n \in 1 .. count : MapStops[m] = MapStops[n] => m = n
  <2>1. ASSUME NEW m \in 1 .. count, NEW n \in 1 .. count, m < n PROVE MapStops[m] # MapStops[n]
    <3>1. at1[m] < at1[n] /\ at1[m] \in 1 .. size /\ at1[n] \in 1 .. size
      BY <1>9, <1>11, <2>1
    <3>2. all[at1[m]] < all[at1[n]] /\ all[at1[m]] \in Int /\ all[at1[n]] \in Int
      BY <1>1, <1>4, <1>12, <3>1
    <3> QED
      BY <1>14, <3>2
  <2> SUFFICES ASSUME NEW m \in 1 .. count, NEW n \in 1 .. count, MapStops[m] = MapStops[n], m # n
               PROVE  FALSE
    OBVIOUS
  <2>2. m < n \/ n < m
    OBVIOUS
  <2> QED
    BY <2>1, <2>2
<1>16. ToSet(MapStops) = {s \in StopNames(db) : IsStopInRoutes(db, s)}
  <2>1. DOMAIN MapStops = 1 .. count
    BY <1>10
  <2>2. ASSUME NEW s \in StopNames(db), IsStopInRoutes(db, s) PROVE \E k \in 1 .. count : MapStops[k] = s
    <3>1. PICK n \in 1 .. size : all[n] = s
      BY <1>4 DEF ToSet
    <3>2. n \in kept
      BY <1>5, <2>2, <3>1
    <3>3. PICK k \in 1 .. count : at1[k] = n
      BY <1>9, <3>2 DEF ToSet
    <3> QED
      BY <1>14, <3>1, <3>3
  <2> QED
    BY <1>12, <1>14, <2>1, <2>2 DEF ToSet
<1>17. ASSUME NEW s \in ToSet(MapStops)
       PROVE  /\ Latitude(s) \in Int /\ Longitude(s) \in Int
              /\ Latitude(s) < Largest /\ Longitude(s) < Largest
  <2>1. \E n \in DOMAIN db.stops : db.stops[n].name = s
    BY <1>16 DEF StopNames
  <2>2. \A n \in DOMAIN db.stops : db.stops[n] \in Stop
    BY <1>1, CatalogueFields
  <2>3. StopOf(db, s) \in Stop
    BY <2>1, <2>2 DEF StopOf
  <2>4. StopOf(db, s).at \in Position
    BY <2>3 DEF Stop
  <2> QED
    BY <2>4, PositionAssumption, LargestAssumption DEF Latitude, Longitude
<1>18. ASSUME NEW n \in 1 .. Len(MapBuses)
       PROVE  ToSet(MapBuses[n].route) \subseteq ToSet(MapStops)
  <2>1. PICK k \in DOMAIN db.buses : MapBuses[n] = db.buses[k]
    BY BusesToDraw
  <2>2. ToSet(db.buses[k].route) \subseteq StopNames(db)
    BY <1>1 DEF Mappable
  <2>3. \A s \in ToSet(db.buses[k].route) : IsStopInRoutes(db, s)
    BY <1>1, <2>2 DEF Mappable
  <2> QED
    BY <1>16, <2>1, <2>2, <2>3
<1>19. ASSUME NEW s \in ToSet(MapStops)
       PROVE  \E n \in 1 .. Len(MapBuses) : s \in ToSet(MapBuses[n].route)
  <2>1. PICK k \in DOMAIN db.buses : s \in ToSet(db.buses[k].route)
    BY <1>1, <1>16 DEF Mappable
  <2> QED
    BY <2>1, BusesToDraw
<1> QED
  BY <1>13, <1>15, <1>16, <1>17, <1>18, <1>19

-----------------------------------------------------------------------------
(* Lists of what was drawn *)

Of(dc, what) == {i \in DOMAIN dc : dc[i].what = what}

\* The entries of a kind are the members of E, each once.
Lists(dc, what, E) ==
    /\ {dc[i] : i \in Of(dc, what)} = E
    /\ \A i, j \in Of(dc, what) : dc[i] = dc[j] => i = j

\* Nothing is drawn at first.
LEMMA ListsNothing == \A what : Lists(<<>>, what, {})
  BY DEF Lists, Of

\* An entry of the kind is one more of its kind, and leaves the others alone.
LEMMA ListsOneMore ==
    ASSUME NEW S, NEW dc \in Seq(S), NEW x \in S, NEW what, NEW E,
           Lists(dc, what, E), x \notin E
    PROVE  Lists(Append(dc, x), what, IF x.what = what THEN E \cup {x} ELSE E)
<1>1. PICK n \in Nat : n = Len(dc)
  OBVIOUS
<1>2. PICK more : more = Append(dc, x)
  OBVIOUS
<1>3. /\ DOMAIN dc = 1 .. n /\ DOMAIN more = (1 .. n) \cup {n + 1} /\ n + 1 \notin 1 .. n
      /\ \A i \in 1 .. n : more[i] = dc[i]
      /\ more[n + 1] = x
  BY <1>1, <1>2, Appended
<1>4. CASE x.what = what
  <2>1. Of(more, what) = Of(dc, what) \cup {n + 1}
    BY <1>3, <1>4 DEF Of
  <2>2. \A i \in Of(dc, what) : i \in 1 .. n /\ more[i] = dc[i] /\ dc[i] \in E
    BY <1>3 DEF Of, Lists
  <2>3. {more[i] : i \in Of(more, what)} = E \cup {x}
    <3>1. {more[i] : i \in Of(more, what)} = {more[i] : i \in Of(dc, what)} \cup {x}
      BY <1>3, <2>1
    <3>2. {more[i] : i \in Of(dc, what)} = {dc[i] : i \in Of(dc, what)}
      BY <2>2
    <3> QED
      BY <3>1, <3>2 DEF Lists
  <2>4. \A i, j \in Of(more, what) : more[i] = more[j] => i = j
    <3> SUFFICES ASSUME NEW i \in Of(more, what), NEW j \in Of(more, what), more[i] = more[j]
                 PROVE  i = j
      OBVIOUS
    <3>1. CASE i \in Of(dc, what) /\ j \in Of(dc, what)
      BY <2>2, <3>1 DEF Lists
    <3>2. CASE i = n + 1 \/ j = n + 1
      BY <1>3, <2>1, <2>2, <3>2
    <3> QED
      BY <2>1, <3>1, <3>2
  <2>5. Lists(more, what, E \cup {x})
    BY <2>3, <2>4 DEF Lists
  <2> QED
    BY <1>2, <1>4, <2>5
<1>5. CASE x.what # what
  <2>1. Of(more, what) = Of(dc, what)
    BY <1>3, <1>5 DEF Of
  <2>2. \A i \in Of(dc, what) : more[i] = dc[i]
    BY <1>3 DEF Of
  <2>3. {more[i] : i \in Of(dc, what)} = {dc[i] : i \in Of(dc, what)}
    BY <2>2
  <2>4. Lists(more, what, E)
    BY <2>1, <2>2, <2>3 DEF Lists
  <2> QED
    BY <1>2, <1>5, <2>4
<1> QED
  BY <1>4, <1>5

-----------------------------------------------------------------------------
(* What is to be drawn *)

IsRouted(n) == MapBuses[n].route # <<>>

\* How many lines come before that of a bus, which tells its colour.
Before(n) == Cardinality({m \in 1 .. n - 1 : IsRouted(m)})

LineOf(n) ==
    [what |-> "line", bus |-> MapBuses[n].name, colour |-> Before(n) % PaletteSize,
     points |-> [k \in DOMAIN MapBuses[n].route |-> GetPoint(MapBuses[n].route[k])]]
LabelOf(n, s, what) ==
    [what |-> what, bus |-> MapBuses[n].name, stop |-> s, points |-> <<GetPoint(s)>>,
     colour |-> IF what = "name" THEN Before(n) % PaletteSize ELSE -1]
MarkOf(n, what) == GetStopLabel(MapStops[n], what)

LabelsOf(n, what) == {LabelOf(n, s, what) : s \in Ends(MapBuses[n])}

\* The entries that the first k buses or stops give.
Lines(k) == {LineOf(n) : n \in {m \in 1 .. k : IsRouted(m)}}
Labels(k, what) == UNION {LabelsOf(n, what) : n \in {m \in 1 .. k : IsRouted(m)}}
Marks(k, what) == {MarkOf(n, what) : n \in 1 .. k}

\* Those of the whole map.
Entries ==
    LET buses == Len(MapBuses)
        stops == Len(MapStops)
    IN  Lines(buses) \cup Labels(buses, "background") \cup Labels(buses, "name")
        \cup Marks(stops, "circle") \cup Marks(stops, "stop_background") \cup Marks(stops, "stop_name")

\* Nothing comes before the first bus, and one line more after each that has
\* a route.
LEMMA BeforeCounts ==
    /\ Before(1) = 0
    /\ \A n \in Nat \ {0} : /\ Before(n) \in Nat
                            /\ Before(n + 1) = IF IsRouted(n) THEN Before(n) + 1 ELSE Before(n)
<1> DEFINE F(n) == {m \in 1 .. n - 1 : IsRouted(m)}
<1>1. F(1) = {}
  OBVIOUS
<1>2. Before(1) = 0
  BY <1>1, FS_EmptySet DEF Before
<1>3. ASSUME NEW n \in Nat \ {0}
      PROVE  /\ Before(n) \in Nat
             /\ Before(n + 1) = IF IsRouted(n) THEN Before(n) + 1 ELSE Before(n)
  <2>1. IsFiniteSet(1 .. n - 1)
    BY FS_Interval
  <2>2. IsFiniteSet(F(n))
    BY <2>1, FS_Subset
  <2>3. Cardinality(F(n)) \in Nat
    BY <2>2, FS_CardinalityType
  <2>4. 1 .. (n + 1) - 1 = (1 .. n - 1) \cup {n} /\ n \notin 1 .. n - 1
    OBVIOUS
  <2>5. F(n + 1) = IF IsRouted(n) THEN F(n) \cup {n} ELSE F(n)
    BY <2>4
  <2>6. n \notin F(n)
    OBVIOUS
  <2>7. Cardinality(F(n) \cup {n}) = Cardinality(F(n)) + 1
    BY <2>2, <2>6, FS_AddElement
  <2> QED
    BY <2>3, <2>5, <2>7 DEF Before
<1> QED
  BY <1>2, <1>3

\* One more bus or stop gives its own entries more.
LEMMA OneMore ==
    ASSUME NEW n \in Nat \ {0}, NEW what
    PROVE  /\ Lines(n) = IF IsRouted(n) THEN Lines(n - 1) \cup {LineOf(n)} ELSE Lines(n - 1)
           /\ Labels(n, what) =
                IF IsRouted(n) THEN Labels(n - 1, what) \cup LabelsOf(n, what) ELSE Labels(n - 1, what)
           /\ Marks(n, what) = Marks(n - 1, what) \cup {MarkOf(n, what)}
           /\ Lines(0) = {} /\ Labels(0, what) = {} /\ Marks(0, what) = {}
<1>1. 1 .. n = (1 .. n - 1) \cup {n}
  OBVIOUS
<1>2. {m \in 1 .. n : IsRouted(m)} =
         {m \in 1 .. n - 1 : IsRouted(m)} \cup (IF IsRouted(n) THEN {n} ELSE {})
  BY <1>1
<1>3. Lines(n) = IF IsRouted(n) THEN Lines(n - 1) \cup {LineOf(n)} ELSE Lines(n - 1)
  BY <1>2 DEF Lines
<1>4. Labels(n, what) =
        IF IsRouted(n) THEN Labels(n - 1, what) \cup LabelsOf(n, what) ELSE Labels(n - 1, what)
  BY <1>2 DEF Labels
<1>5. Marks(n, what) = Marks(n - 1, what) \cup {MarkOf(n, what)}
  BY <1>1 DEF Marks
<1>6. Lines(0) = {} /\ Labels(0, what) = {} /\ Marks(0, what) = {}
  BY DEF Lines, Labels, Marks
<1> QED
  BY <1>3, <1>4, <1>5, <1>6

\* They are new, and all of them are on the map.
LEMMA NewEntries ==
    ASSUME db \in Catalogues
    PROVE  /\ \A n \in 1 .. Len(MapBuses) : IsRouted(n) =>
                /\ LineOf(n) \in Entries /\ LineOf(n) \notin Lines(n - 1)
                /\ \A what \in {"background", "name"}, s \in Ends(MapBuses[n]) :
                     LabelOf(n, s, what) \in Entries /\ LabelOf(n, s, what) \notin Labels(n - 1, what)
           /\ \A n \in 1 .. Len(MapStops), what \in {"circle", "stop_background", "stop_name"} :
                MarkOf(n, what) \in Entries /\ MarkOf(n, what) \notin Marks(n - 1, what)
<1>1. PICK buses \in Nat, stops \in Nat : buses = Len(MapBuses) /\ stops = Len(MapStops)
  BY BusesToDraw, StopsToDraw
<1>2. ASSUME NEW n \in 1 .. buses, IsRouted(n)
      PROVE  /\ LineOf(n) \in Entries /\ LineOf(n) \notin Lines(n - 1)
             /\ \A what \in {"background", "name"}, s \in Ends(MapBuses[n]) :
                  LabelOf(n, s, what) \in Entries /\ LabelOf(n, s, what) \notin Labels(n - 1, what)
  <2>1. \A m \in 1 .. n - 1 : MapBuses[m].name # MapBuses[n].name
    <3>1. \A m \in 1 .. n - 1 : m \in 1 .. buses /\ m # n
      OBVIOUS
    <3> QED
      BY <1>1, <3>1, BusesToDraw
  <2>2. LineOf(n) \notin Lines(n - 1)
    <3>1. \A m \in 1 .. n - 1 : LineOf(m).bus # LineOf(n).bus
      BY <2>1 DEF LineOf
    <3> QED
      BY <3>1 DEF Lines
  <2>3. \A what, s : LabelOf(n, s, what) \notin Labels(n - 1, what)
    <3>1. \A m \in 1 .. n - 1 : \A what, s, t : LabelOf(m, t, what).bus # LabelOf(n, s, what).bus
      BY <2>1 DEF LabelOf
    <3> QED
      BY <3>1 DEF Labels, LabelsOf
  <2>4. n \in {m \in 1 .. buses : IsRouted(m)}
    BY <1>2
  <2>5. LineOf(n) \in Lines(buses)
    BY <2>4 DEF Lines
  <2>6. \A what : \A s \in Ends(MapBuses[n]) : LabelOf(n, s, what) \in Labels(buses, what)
    BY <2>4 DEF Labels, LabelsOf
  <2>7. /\ Lines(buses) \subseteq Entries /\ Labels(buses, "background") \subseteq Entries
        /\ Labels(buses, "name") \subseteq Entries
    BY <1>1 DEF Entries
  <2> QED
    BY <2>2, <2>3, <2>5, <2>6, <2>7
<1>3. ASSUME NEW n \in 1 .. stops, NEW what \in {"circle", "stop_background", "stop_name"}
      PROVE  MarkOf(n, what) \in Entries /\ MarkOf(n, what) \notin Marks(n - 1, what)
  <2>1. ASSUME NEW m \in 1 .. n - 1 PROVE m \in 1 .. stops /\ m # n
    OBVIOUS
  <2>2. \A m \in 1 .. n - 1 : MapStops[m] # MapStops[n]
    BY <1>1, <2>1, StopsToDraw
  <2>3. \A m \in 1 .. n - 1 : MarkOf(m, what).stop # MarkOf(n, what).stop
    BY <2>2 DEF MarkOf, GetStopLabel
  <2> QED
    BY <1>1, <2>3 DEF Entries, Marks
<1> QED
  BY <1>1, <1>2, <1>3

-----------------------------------------------------------------------------
(* The document so far *)

Kinds == {"line", "background", "name", "circle", "stop_background", "stop_name"}

AllLists(dc, E) == \A what \in Kinds : Lists(dc, what, E[what])

\* What a document shows when so many buses have lines and labels, and so
\* many stops circles and names.
Expected(lines, labels, circles, names) ==
    [what \in Kinds |->
        IF what = "line" THEN Lines(lines)
        ELSE IF what \in {"background", "name"} THEN Labels(labels, what)
        ELSE IF what = "circle" THEN Marks(circles, what)
        ELSE Marks(names, what)]

\* The n-th line has the n-th colour.
Coloured(dc) == \A i \in Of(dc, "line") : dc[i].colour = (i - 1) % PaletteSize

\* A name is upon its background.
Backed(dc) == \A i \in Of(dc, "name") : i > 1 /\ dc[i - 1] = Background(dc[i])

OnMap(dc, E) == dc \in Seq(Entries) /\ AllLists(dc, E) /\ Coloured(dc) /\ Backed(dc)

\* A new entry: a line of the colour that is due, a name after its background,
\* or anything else.
LEMMA Added ==
    ASSUME NEW E, DOMAIN E = Kinds, NEW dc, OnMap(dc, E),
           NEW x \in Entries, x.what \in Kinds, x \notin E[x.what],
           x.what = "line" => x.colour = Len(dc) % PaletteSize,
           x.what = "name" => Len(dc) # 0 /\ dc[Len(dc)] = Background(x)
    PROVE  OnMap(Append(dc, x), [E EXCEPT ![x.what] = @ \cup {x}])
<1>1. PICK n \in Nat : n = Len(dc)
  BY DEF OnMap
<1>2. PICK more : more = Append(dc, x)
  OBVIOUS
<1>3. /\ DOMAIN dc = 1 .. n /\ DOMAIN more = (1 .. n) \cup {n + 1} /\ n + 1 \notin 1 .. n
      /\ more \in Seq(Entries)
      /\ \A i \in 1 .. n : more[i] = dc[i]
      /\ more[n + 1] = x
  BY <1>1, <1>2, Appended DEF OnMap
<1>4. PICK F : F = [E EXCEPT ![x.what] = @ \cup {x}]
  OBVIOUS
<1>5. \A what \in Kinds : F[what] = IF x.what = what THEN E[what] \cup {x} ELSE E[what]
  BY <1>4
<1>6. AllLists(more, F)
  <2> SUFFICES ASSUME NEW what \in Kinds PROVE Lists(more, what, F[what])
    BY DEF AllLists
  <2>1. dc \in Seq(Entries) /\ Lists(dc, what, E[what])
    BY DEF OnMap, AllLists
  <2>2. CASE x.what = what
    <3>1. Lists(more, what, IF x.what = what THEN E[what] \cup {x} ELSE E[what])
      BY <1>2, <2>1, <2>2, ListsOneMore
    <3> QED
      BY <1>5, <3>1
  <2>3. CASE x.what # what
    <3>1. Lists(more, what, E[what])
      <4>1. Of(more, what) = Of(dc, what)
        BY <1>3, <2>3 DEF Of
      <4>2. \A i \in Of(dc, what) : more[i] = dc[i]
        BY <1>3 DEF Of
      <4>3. {more[i] : i \in Of(dc, what)} = {dc[i] : i \in Of(dc, what)}
        BY <4>2
      <4> QED
        BY <2>1, <4>1, <4>2, <4>3 DEF Lists
    <3> QED
      BY <1>5, <2>3, <3>1
  <2> QED
    BY <2>2, <2>3
<1>7. Coloured(more)
  <2> SUFFICES ASSUME NEW i \in Of(more, "line") PROVE more[i].colour = (i - 1) % PaletteSize
    BY DEF Coloured
  <2>1. CASE i \in 1 .. n
    BY <1>3, <2>1 DEF OnMap, Coloured, Of
  <2>2. CASE i = n + 1
    <3>1. (n + 1) - 1 = n /\ x.what = "line"
      BY <1>3, <2>2 DEF Of
    <3> QED
      BY <1>1, <1>3, <2>2, <3>1
  <2> QED
    BY <1>3, <2>1, <2>2 DEF Of
<1>8. Backed(more)
  <2> SUFFICES ASSUME NEW i \in Of(more, "name") PROVE i > 1 /\ more[i - 1] = Background(more[i])
    BY DEF Backed
  <2>1. CASE i \in 1 .. n
    <3>1. i \in Of(dc, "name")
      BY <1>3, <2>1 DEF Of
    <3>2. i > 1 /\ dc[i - 1] = Background(dc[i])
      BY <3>1 DEF OnMap, Backed
    <3>3. i - 1 \in 1 .. n
      BY <2>1, <3>2
    <3> QED
      BY <1>3, <2>1, <3>2, <3>3
  <2>2. CASE i = n + 1
    <3>1. x.what = "name" /\ n # 0 /\ dc[n] = Background(x)
      BY <1>1, <1>3, <2>2 DEF Of
    <3>2. i - 1 = n /\ n \in 1 .. n /\ i > 1
      BY <2>2, <3>1
    <3> QED
      BY <1>3, <2>2, <3>1, <3>2
  <2> QED
    BY <1>3, <2>1, <2>2 DEF Of
<1> QED
  BY <1>2, <1>3, <1>4, <1>6, <1>7, <1>8 DEF OnMap

\* A name and its background.
LEMMA AddedPair ==
    ASSUME NEW E, DOMAIN E = Kinds, NEW dc, OnMap(dc, E),
           NEW a \in Entries, NEW b \in Entries,
           a.what = "background", b.what = "name", a = Background(b),
           a \notin E["background"], b \notin E["name"]
    PROVE  OnMap(dc \o <<a, b>>,
                 [E EXCEPT !["background"] = @ \cup {a}, !["name"] = @ \cup {b}])
<1>1. PICK F : F = [E EXCEPT !["background"] = @ \cup {a}]
  OBVIOUS
<1>2. PICK more : more = Append(dc, a)
  OBVIOUS
<1>3. dc \in Seq(Entries)
  BY DEF OnMap
<1>4. OnMap(more, F)
  <2>1. a.what \in Kinds /\ a.what # "line" /\ a.what # "name"
    BY DEF Kinds
  <2>2. OnMap(Append(dc, a), [E EXCEPT ![a.what] = @ \cup {a}])
    BY <2>1, Added
  <2> QED
    BY <1>1, <1>2, <2>2
<1>5. DOMAIN F = Kinds /\ b \notin F["name"] /\ F["name"] = E["name"]
  BY <1>1
<1>6. more \in Seq(Entries) /\ Len(more) = Len(dc) + 1 /\ more[Len(dc) + 1] = a /\ Len(dc) \in Nat
  BY <1>2, <1>3, Appended
<1>7. OnMap(Append(more, b), [F EXCEPT !["name"] = @ \cup {b}])
  <2>1. b.what \in Kinds /\ b.what # "line"
    BY DEF Kinds
  <2>2. Len(more) # 0 /\ more[Len(more)] = Background(b)
    BY <1>6
  <2>3. b \notin F[b.what]
    BY <1>5
  <2>4. OnMap(Append(more, b), [F EXCEPT ![b.what] = @ \cup {b}])
    BY <1>4, <1>5, <2>1, <2>2, <2>3, Added
  <2> QED
    BY <2>4
<1>8. Append(more, b) = dc \o <<a, b>>
  BY <1>2, <1>3
<1>9. [F EXCEPT !["name"] = @ \cup {b}]
      = [E EXCEPT !["background"] = @ \cup {a}, !["name"] = @ \cup {b}]
  BY <1>1
<1> QED
  BY <1>7, <1>8, <1>9

-----------------------------------------------------------------------------
(* The steps *)

PairOf(n, s) == <<LabelOf(n, s, "background"), LabelOf(n, s, "name")>>

\* What RenderRouteName draws for a bus.
Written(bus) == FlattenSeq([k \in DOMAIN Terminals(bus) |-> BusLabels(bus, Terminals(bus)[k])])

\* The names of a bus are written at its ends, in the colour of its line.
LEMMA LabelsOfBus ==
    ASSUME db \in Catalogues, NEW n \in 1 .. Len(MapBuses), IsRouted(n), counter + 1 = Before(n)
    PROVE  \/ \E s : Ends(MapBuses[n]) = {s} /\ Written(MapBuses[n]) = PairOf(n, s)
           \/ \E s, t : /\ s # t /\ Ends(MapBuses[n]) = {s, t}
                        /\ Written(MapBuses[n]) = PairOf(n, s) \o PairOf(n, t)
<1>1. PICK bus : bus = MapBuses[n]
  OBVIOUS
<1>2. /\ bus.start_stop = Head(bus.route)
      /\ bus.is_roundtrip \/ bus.end_stop = bus.route[Len(bus.route) \div 2 + 1]
      /\ bus.is_roundtrip \in BOOLEAN
  BY <1>1, BusesHaveEnds DEF IsRouted
<1>3. ASSUME NEW s PROVE BusLabels(bus, s) = PairOf(n, s)
  <2>1. GetBusLabel(bus, s, "background") = LabelOf(n, s, "background")
    BY <1>1 DEF GetBusLabel, LabelOf
  <2>2. GetBusLabel(bus, s, "name") = LabelOf(n, s, "name")
    BY <1>1 DEF GetBusLabel, LabelOf, NextColour
  <2> QED
    BY <2>1, <2>2 DEF BusLabels, PairOf
<1>4. CASE Terminals(bus) = <<bus.start_stop>> /\ Ends(bus) = {bus.start_stop}
  <2>1. PICK s : s = bus.start_stop
    OBVIOUS
  <2>2. [k \in DOMAIN Terminals(bus) |-> BusLabels(bus, Terminals(bus)[k])] = <<PairOf(n, s)>>
    BY <1>3, <1>4, <2>1
  <2>3. PairOf(n, s) \in Seq({LabelOf(n, s, "background"), LabelOf(n, s, "name")})
    BY DEF PairOf
  <2>4. FlattenSeq(<<PairOf(n, s)>>) = PairOf(n, s)
    BY <2>3, FlattenedOne
  <2> QED
    BY <1>1, <1>4, <2>1, <2>2, <2>4 DEF Written
<1>5. CASE /\ Terminals(bus) = <<bus.start_stop, bus.end_stop>>
           /\ Ends(bus) = {bus.start_stop, bus.end_stop} /\ bus.start_stop # bus.end_stop
  <2>1. PICK s, t : s = bus.start_stop /\ t = bus.end_stop
    OBVIOUS
  <2>2. [k \in DOMAIN Terminals(bus) |-> BusLabels(bus, Terminals(bus)[k])]
        = <<PairOf(n, s), PairOf(n, t)>>
    BY <1>3, <1>5, <2>1
  <2>3. PICK W : W = {LabelOf(n, s, "background"), LabelOf(n, s, "name"),
                      LabelOf(n, t, "background"), LabelOf(n, t, "name")}
    OBVIOUS
  <2>4. PairOf(n, s) \in Seq(W) /\ PairOf(n, t) \in Seq(W)
    BY <2>3 DEF PairOf
  <2>5. FlattenSeq(<<PairOf(n, s), PairOf(n, t)>>) = PairOf(n, s) \o PairOf(n, t)
    BY <2>4, FlattenedTwo
  <2>6. Ends(MapBuses[n]) = {s, t} /\ s # t
    BY <1>1, <1>5, <2>1
  <2>7. Written(MapBuses[n]) = PairOf(n, s) \o PairOf(n, t)
    BY <1>1, <2>2, <2>5 DEF Written
  <2> QED
    BY <2>6, <2>7, Zenon
<1>6. \/ Terminals(bus) = <<bus.start_stop>> /\ Ends(bus) = {bus.start_stop}
      \/ /\ Terminals(bus) = <<bus.start_stop, bus.end_stop>>
         /\ Ends(bus) = {bus.start_stop, bus.end_stop} /\ bus.start_stop # bus.end_stop
  BY <1>2 DEF Terminals, Ends
<1> QED
  BY <1>4, <1>5, <1>6

\* One pair more on the map.
LEMMA PairAdded ==
    ASSUME db \in Catalogues, NEW n \in 1 .. Len(MapBuses), IsRouted(n),
           NEW s \in Ends(MapBuses[n]), NEW E, DOMAIN E = Kinds, NEW dc, OnMap(dc, E),
           LabelOf(n, s, "background") \notin E["background"],
           LabelOf(n, s, "name") \notin E["name"]
    PROVE  OnMap(dc \o PairOf(n, s),
                 [E EXCEPT !["background"] = @ \cup {LabelOf(n, s, "background")},
                           !["name"] = @ \cup {LabelOf(n, s, "name")}])
<1>1. PICK a, b : a = LabelOf(n, s, "background") /\ b = LabelOf(n, s, "name")
  OBVIOUS
<1>2. a \in Entries /\ b \in Entries
  BY <1>1, NewEntries
<1>3. a.what = "background" /\ b.what = "name" /\ a = Background(b)
  <2>1. PICK bus, points, colour : /\ bus = MapBuses[n].name /\ points = <<GetPoint(s)>>
                                   /\ colour = Before(n) % PaletteSize
    OBVIOUS
  <2>2. b = [what |-> "name", bus |-> bus, stop |-> s, points |-> points, colour |-> colour]
    BY <1>1, <2>1 DEF LabelOf
  <2>3. a = [what |-> "background", bus |-> bus, stop |-> s, points |-> points, colour |-> -1]
    BY <1>1, <2>1 DEF LabelOf
  <2>4. Background(b) = [what |-> "background", bus |-> bus, stop |-> s, points |-> points, colour |-> -1]
    BY <2>2 DEF Background
  <2> QED
    BY <2>2, <2>3, <2>4
<1>4. a \notin E["background"] /\ b \notin E["name"]
  BY <1>1
<1>5. OnMap(dc \o <<a, b>>,
            [E EXCEPT !["background"] = @ \cup {a}, !["name"] = @ \cup {b}])
  BY <1>2, <1>3, <1>4, AddedPair
<1> QED
  BY <1>1, <1>5 DEF PairOf

\* What is expected is one set of entries for each kind.
LEMMA ExpectedKinds ==
    ASSUME NEW lines, NEW labels, NEW circles, NEW names
    PROVE  LET E == Expected(lines, labels, circles, names) IN
           /\ DOMAIN E = Kinds
           /\ E["line"] = Lines(lines)
           /\ E["background"] = Labels(labels, "background") /\ E["name"] = Labels(labels, "name")
           /\ E["circle"] = Marks(circles, "circle")
           /\ E["stop_background"] = Marks(names, "stop_background")
           /\ E["stop_name"] = Marks(names, "stop_name")
  BY DEF Expected, Kinds

\* The line of the next bus.
LEMMA LineDrawn ==
    ASSUME db \in Catalogues, NEW n \in 1 .. Len(MapBuses), NEW dc,
           OnMap(dc, Expected(n - 1, 0, 0, 0)), IsRouted(n), Len(dc) = Before(n)
    PROVE  OnMap(Append(dc, LineOf(n)), Expected(n, 0, 0, 0))
<1>1. PICK E : E = Expected(n - 1, 0, 0, 0)
  OBVIOUS
<1>2. PICK x : x = LineOf(n)
  OBVIOUS
<1>3. x \in Entries /\ x.what = "line" /\ x.colour = Len(dc) % PaletteSize
  BY <1>2, NewEntries DEF LineOf
<1>4. DOMAIN E = Kinds /\ x \notin E["line"]
  BY <1>1, <1>2, NewEntries, ExpectedKinds
<1>5. OnMap(Append(dc, x), [E EXCEPT !["line"] = @ \cup {x}])
  <2>1. x.what \in Kinds /\ x.what # "name" /\ x \notin E[x.what]
    BY <1>3, <1>4 DEF Kinds
  <2>2. OnMap(Append(dc, x), [E EXCEPT ![x.what] = @ \cup {x}])
    BY <1>1, <1>3, <1>4, <2>1, Added
  <2> QED
    BY <1>3, <2>2
<1>6. [E EXCEPT !["line"] = @ \cup {x}] = Expected(n, 0, 0, 0)
  <2>1. n \in Nat \ {0}
    OBVIOUS
  <2>2. Lines(n) = Lines(n - 1) \cup {x}
    BY <1>2, <2>1, OneMore
  <2> QED
    BY <1>1, <2>2 DEF Expected, Kinds
<1> QED
  BY <1>2, <1>5, <1>6

\* The names of the next bus.
LEMMA LabelsDrawn ==
    ASSUME db \in Catalogues, NEW n \in 1 .. Len(MapBuses), NEW k, NEW dc,
           OnMap(dc, Expected(k, n - 1, 0, 0)), IsRouted(n), counter + 1 = Before(n)
    PROVE  OnMap(dc \o Written(MapBuses[n]), Expected(k, n, 0, 0))
<1>1. PICK E : E = Expected(k, n - 1, 0, 0)
  OBVIOUS
<1>2. PICK B, M : B = LabelsOf(n, "background") /\ M = LabelsOf(n, "name")
  OBVIOUS
<1>3. /\ DOMAIN E = Kinds /\ OnMap(dc, E)
      /\ E["background"] = Labels(n - 1, "background") /\ E["name"] = Labels(n - 1, "name")
  BY <1>1, ExpectedKinds
<1>4. \A s \in Ends(MapBuses[n]) : /\ LabelOf(n, s, "background") \notin E["background"]
                                   /\ LabelOf(n, s, "name") \notin E["name"]
  BY <1>3, NewEntries
<1>5. [E EXCEPT !["background"] = @ \cup B, !["name"] = @ \cup M] = Expected(k, n, 0, 0)
  <2>1. n \in Nat \ {0}
    OBVIOUS
  <2>2. \A what : Labels(n, what) = Labels(n - 1, what) \cup LabelsOf(n, what)
    BY <2>1, OneMore
  <2> QED
    BY <1>1, <1>2, <2>2 DEF Expected, Kinds
<1>6. CASE \E s : Ends(MapBuses[n]) = {s} /\ Written(MapBuses[n]) = PairOf(n, s)
  <2>1. PICK s : Ends(MapBuses[n]) = {s} /\ Written(MapBuses[n]) = PairOf(n, s)
    BY <1>6
  <2>2. B = {LabelOf(n, s, "background")} /\ M = {LabelOf(n, s, "name")}
    BY <1>2, <2>1 DEF LabelsOf
  <2>3. s \in Ends(MapBuses[n])
    BY <2>1
  <2>4. /\ LabelOf(n, s, "background") \notin E["background"]
        /\ LabelOf(n, s, "name") \notin E["name"]
    BY <1>4, <2>3
  <2>5. OnMap(dc \o PairOf(n, s),
              [E EXCEPT !["background"] = @ \cup {LabelOf(n, s, "background")},
                        !["name"] = @ \cup {LabelOf(n, s, "name")}])
    BY <1>3, <2>3, <2>4, PairAdded
  <2> QED
    BY <1>5, <2>1, <2>2, <2>5
<1>7. CASE \E s, t : /\ s # t /\ Ends(MapBuses[n]) = {s, t}
                     /\ Written(MapBuses[n]) = PairOf(n, s) \o PairOf(n, t)
  <2>1. PICK s, t : /\ s # t /\ Ends(MapBuses[n]) = {s, t}
                    /\ Written(MapBuses[n]) = PairOf(n, s) \o PairOf(n, t)
    BY <1>7
  <2>2. /\ B = {LabelOf(n, s, "background"), LabelOf(n, t, "background")}
        /\ M = {LabelOf(n, s, "name"), LabelOf(n, t, "name")}
    BY <1>2, <2>1 DEF LabelsOf
  <2>3. s \in Ends(MapBuses[n]) /\ t \in Ends(MapBuses[n])
    BY <2>1
  <2>4. /\ LabelOf(n, s, "background") \notin E["background"]
        /\ LabelOf(n, s, "name") \notin E["name"]
    BY <1>4, <2>3
  <2>5. PICK F : F = [E EXCEPT !["background"] = @ \cup {LabelOf(n, s, "background")},
                               !["name"] = @ \cup {LabelOf(n, s, "name")}]
    OBVIOUS
  <2>6. OnMap(dc \o PairOf(n, s), F) /\ DOMAIN F = Kinds
    BY <1>3, <2>3, <2>4, <2>5, PairAdded
  <2>7. /\ F["background"] = E["background"] \cup {LabelOf(n, s, "background")}
        /\ F["name"] = E["name"] \cup {LabelOf(n, s, "name")}
    BY <1>3, <2>5 DEF Kinds
  <2>8. /\ LabelOf(n, t, "background") \notin F["background"]
        /\ LabelOf(n, t, "name") \notin F["name"]
    <3>1. \A what : LabelOf(n, t, what) # LabelOf(n, s, what)
      BY <2>1 DEF LabelOf
    <3> QED
      BY <1>4, <2>3, <2>7, <3>1
  <2>9. OnMap((dc \o PairOf(n, s)) \o PairOf(n, t),
              [F EXCEPT !["background"] = @ \cup {LabelOf(n, t, "background")},
                        !["name"] = @ \cup {LabelOf(n, t, "name")}])
    BY <2>3, <2>6, <2>8, PairAdded
  <2>10. [F EXCEPT !["background"] = @ \cup {LabelOf(n, t, "background")},
                   !["name"] = @ \cup {LabelOf(n, t, "name")}]
         = [E EXCEPT !["background"] = @ \cup B, !["name"] = @ \cup M]
    BY <1>3, <2>2, <2>5, <2>7 DEF Kinds
  <2>11. (dc \o PairOf(n, s)) \o PairOf(n, t) = dc \o (PairOf(n, s) \o PairOf(n, t))
    <3>1. PICK W : W = Entries \cup {LabelOf(n, s, "background"), LabelOf(n, s, "name"),
                                    LabelOf(n, t, "background"), LabelOf(n, t, "name")}
      OBVIOUS
    <3>2. PairOf(n, s) \in Seq(W) /\ PairOf(n, t) \in Seq(W) /\ dc \in Seq(W)
      BY <3>1 DEF PairOf, OnMap
    <3> QED
      BY <3>2, ConcatAssociative
  <2> QED
    BY <1>5, <2>1, <2>9, <2>10, <2>11
<1> QED
  BY <1>6, <1>7, LabelsOfBus

\* The circle of the next stop.
LEMMA CircleDrawn ==
    ASSUME db \in Catalogues, NEW n \in 1 .. Len(MapStops), NEW k, NEW l, NEW dc,
           OnMap(dc, Expected(k, l, n - 1, 0))
    PROVE  OnMap(Append(dc, MarkOf(n, "circle")), Expected(k, l, n, 0))
<1>1. PICK E : E = Expected(k, l, n - 1, 0)
  OBVIOUS
<1>2. PICK x : x = MarkOf(n, "circle")
  OBVIOUS
<1>3. x \in Entries /\ x.what = "circle"
  BY <1>2, NewEntries DEF MarkOf, GetStopLabel
<1>4. DOMAIN E = Kinds /\ x \notin E["circle"]
  BY <1>1, <1>2, NewEntries, ExpectedKinds
<1>5. OnMap(Append(dc, x), [E EXCEPT !["circle"] = @ \cup {x}])
  <2>1. x.what \in Kinds /\ x.what # "name" /\ x.what # "line" /\ x \notin E[x.what]
    BY <1>3, <1>4 DEF Kinds
  <2>2. OnMap(Append(dc, x), [E EXCEPT ![x.what] = @ \cup {x}])
    BY <1>1, <1>3, <1>4, <2>1, Added
  <2> QED
    BY <1>3, <2>2
<1>6. [E EXCEPT !["circle"] = @ \cup {x}] = Expected(k, l, n, 0)
  <2>1. n \in Nat \ {0}
    OBVIOUS
  <2>2. Marks(n, "circle") = Marks(n - 1, "circle") \cup {x}
    BY <1>2, <2>1, OneMore
  <2> QED
    BY <1>1, <2>2 DEF Expected, Kinds
<1> QED
  BY <1>2, <1>5, <1>6

\* The name of the next stop, upon its background.
LEMMA NameDrawn ==
    ASSUME db \in Catalogues, NEW n \in 1 .. Len(MapStops), NEW k, NEW l, NEW j, NEW dc,
           OnMap(dc, Expected(k, l, j, n - 1))
    PROVE  OnMap(dc \o <<MarkOf(n, "stop_background"), MarkOf(n, "stop_name")>>, Expected(k, l, j, n))
<1>1. PICK E : E = Expected(k, l, j, n - 1)
  OBVIOUS
<1>2. PICK x, y : x = MarkOf(n, "stop_background") /\ y = MarkOf(n, "stop_name")
  OBVIOUS
<1>3. x \in Entries /\ x.what = "stop_background" /\ y \in Entries /\ y.what = "stop_name"
  BY <1>2, NewEntries DEF MarkOf, GetStopLabel
<1>4. DOMAIN E = Kinds /\ x \notin E["stop_background"] /\ y \notin E["stop_name"]
  BY <1>1, <1>2, NewEntries, ExpectedKinds
<1>5. PICK F : F = [E EXCEPT !["stop_background"] = @ \cup {x}]
  OBVIOUS
<1>6. OnMap(Append(dc, x), F)
  <2>1. x.what \in Kinds /\ x.what # "name" /\ x.what # "line" /\ x \notin E[x.what]
    BY <1>3, <1>4 DEF Kinds
  <2>2. OnMap(Append(dc, x), [E EXCEPT ![x.what] = @ \cup {x}])
    BY <1>1, <1>3, <1>4, <2>1, Added
  <2> QED
    BY <1>3, <1>5, <2>2
<1>7. DOMAIN F = Kinds /\ y \notin F["stop_name"]
  BY <1>4, <1>5 DEF Kinds
<1>8. OnMap(Append(Append(dc, x), y), [F EXCEPT !["stop_name"] = @ \cup {y}])
  <2>1. y.what \in Kinds /\ y.what # "name" /\ y.what # "line" /\ y \notin F[y.what]
    BY <1>3, <1>7 DEF Kinds
  <2>2. OnMap(Append(Append(dc, x), y), [F EXCEPT ![y.what] = @ \cup {y}])
    BY <1>3, <1>6, <1>7, <2>1, Added
  <2> QED
    BY <1>3, <2>2
<1>9. [F EXCEPT !["stop_name"] = @ \cup {y}] = Expected(k, l, j, n)
  <2>1. n \in Nat \ {0}
    OBVIOUS
  <2>2. /\ Marks(n, "stop_background") = Marks(n - 1, "stop_background") \cup {x}
        /\ Marks(n, "stop_name") = Marks(n - 1, "stop_name") \cup {y}
    BY <1>2, <2>1, OneMore
  <2> QED
    BY <1>1, <1>5, <2>2 DEF Expected, Kinds
<1>10. Append(Append(dc, x), y) = dc \o <<x, y>>
  BY DEF OnMap
<1> QED
  BY <1>2, <1>8, <1>9, <1>10

-----------------------------------------------------------------------------
(* The invariant *)

LinesDone(l, n) == IF l = "bounds" THEN 0 ELSE IF l = "lines" THEN n - 1 ELSE Len(MapBuses)
LabelsDone(l, n) ==
    IF l \in {"bounds", "lines"} THEN 0 ELSE IF l = "bus_names" THEN n - 1 ELSE Len(MapBuses)
CirclesDone(l, n) ==
    IF l = "stops" THEN n - 1 ELSE IF l \in {"stop_names", "done"} THEN Len(MapStops) ELSE 0
NamesDone(l, n) == IF l = "stop_names" THEN n - 1 ELSE IF l = "done" THEN Len(MapStops) ELSE 0

\* Where the loops are says what the document shows; the counter says how many
\* lines came before.
Progress(l, n, c, dc) ==
    /\ l \in {"bounds", "lines", "bus_names", "stops", "stop_names", "done"}
    /\ n \in Nat \ {0} /\ c \in Int
    /\ l = "bounds" => n = 1 /\ c = -1 /\ dc = <<>>
    /\ l \in {"lines", "bus_names"} => n <= Len(MapBuses) + 1 /\ c + 1 = Before(n)
    /\ l \in {"stops", "stop_names"} => n <= Len(MapStops) + 1
    /\ l = "lines" => Len(dc) = c + 1
    /\ OnMap(dc, Expected(LinesDone(l, n), LabelsDone(l, n), CirclesDone(l, n), NamesDone(l, n)))

\* What InitMap computes.
Extent ==
    LET latitudes == {Latitude(s) : s \in ToSet(MapStops)}
        longitudes == {Longitude(s) : s \in ToSet(MapStops)}
    IN  [min_lat |-> Min(latitudes \cup {Largest}), min_lon |-> Min(longitudes \cup {Largest}),
         max_lat |-> Max(latitudes \cup {Smallest}), max_lon |-> Max(longitudes \cup {Smallest})]

MapInv ==
    /\ db \in Catalogues
    /\ layer # "bounds" => bounds = Extent
    /\ Progress(layer, at, counter, doc)

\* Nothing is drawn before the first loop.
LEMMA NothingDrawn ==
    db \in Catalogues => Progress("bounds", 1, -1, <<>>) /\ Progress("lines", 1, -1, <<>>)
<1> SUFFICES ASSUME db \in Catalogues
             PROVE  Progress("bounds", 1, -1, <<>>) /\ Progress("lines", 1, -1, <<>>)
  OBVIOUS
<1>1. OnMap(<<>>, Expected(0, 0, 0, 0))
  <2>1. \A what : Labels(0, what) = {} /\ Marks(0, what) = {} /\ Lines(0) = {}
    BY DEF Labels, Marks, Lines
  <2>2. \A what \in Kinds : Expected(0, 0, 0, 0)[what] = {}
    BY <2>1 DEF Expected
  <2>3. AllLists(<<>>, Expected(0, 0, 0, 0))
    BY <2>2, ListsNothing DEF AllLists
  <2>4. <<>> \in Seq(Entries) /\ Coloured(<<>>) /\ Backed(<<>>)
    BY DEF Coloured, Backed, Of
  <2> QED
    BY <2>3, <2>4 DEF OnMap
<1>2. Len(MapBuses) \in Nat /\ Before(1) = 0
  BY BusesToDraw, BeforeCounts
<1>3. Len(<<>>) = -1 + 1 /\ 1 <= Len(MapBuses) + 1 /\ -1 + 1 = Before(1) /\ 1 - 1 = 0
  BY <1>2
<1> QED
  BY <1>1, <1>3 DEF Progress, LinesDone, LabelsDone, CirclesDone, NamesDone

\* While the catalogue and the bounds stay, so does what is to be drawn.
LEMMA Frozen ==
    ASSUME db' = db, bounds' = bounds, Progress(layer', at', counter', doc')
    PROVE  Progress(layer, at, counter, doc)'
<1>1. MapBuses' = MapBuses /\ MapStops' = MapStops
  <2>1. MapBuses' = MapBuses
    BY DEF MapBuses
  <2>2. MapStops' = MapStops
    BY DEF MapStops, Filter
  <2> QED
    BY <2>1, <2>2
<1>2. \A s : GetPoint(s)' = GetPoint(s)
  BY DEF GetPoint, GetZoomCoef, Longitude, Latitude
<1>3. \A n : IsRouted(n)' = IsRouted(n)
  BY <1>1 DEF IsRouted
<1>4. \A n : Before(n)' = Before(n)
  BY <1>3 DEF Before
<1>5. \A n : LineOf(n)' = LineOf(n)
  BY <1>1, <1>2, <1>4 DEF LineOf
<1>6. \A n, s, what : LabelOf(n, s, what)' = LabelOf(n, s, what)
  BY <1>1, <1>2, <1>4 DEF LabelOf
<1>7. \A n, what : MarkOf(n, what)' = MarkOf(n, what)
  BY <1>1, <1>2 DEF MarkOf, GetStopLabel
<1>8. \A k : Lines(k)' = Lines(k)
  BY <1>3, <1>5 DEF Lines
<1>9. \A k, what : Labels(k, what)' = Labels(k, what)
  BY <1>1, <1>3, <1>6 DEF Labels, LabelsOf
<1>10. \A k, what : Marks(k, what)' = Marks(k, what)
  BY <1>7 DEF Marks
<1>11. Entries' = Entries
  BY <1>1, <1>8, <1>9, <1>10 DEF Entries
<1>12. \A k, l, m, n : Expected(k, l, m, n)' = Expected(k, l, m, n)
  BY <1>8, <1>9, <1>10 DEF Expected
<1>13. \A dc, E : OnMap(dc, E)' = OnMap(dc, E)
  BY <1>11 DEF OnMap, Coloured, Backed, AllLists
<1> QED
  BY <1>1, <1>4, <1>12, <1>13 DEF Progress, LinesDone, LabelsDone, CirclesDone, NamesDone

\* The renderer begins with nothing drawn.
LEMMA MapInvInit == Init => MapInv
  BY NothingDrawn DEF Init, MapInv

\* The bounds are taken, and the first loop begins.
LEMMA MapInvInitMap == MapInv /\ InitMap => MapInv'
<1>1. (db \in Catalogues => Progress("bounds", 1, -1, <<>>) /\ Progress("lines", 1, -1, <<>>))'
  BY NothingDrawn, PTL
<1> SUFFICES ASSUME MapInv, InitMap PROVE MapInv'
  OBVIOUS
<1>2. /\ db' = db /\ at' = at /\ counter' = counter /\ doc' = doc /\ layer = "bounds"
      /\ layer' = After("bounds") /\ at = 1 /\ counter = -1 /\ doc = <<>>
      /\ db \in Catalogues
  BY DEF MapInv, Progress, InitMap
<1>3. layer' = "lines"
  BY <1>2 DEF After, Layers
<1>4. Progress(layer, at, counter, doc)'
  BY <1>1, <1>2, <1>3
<1>5. bounds' = Extent'
  <2>1. bounds' = Extent
    BY DEF InitMap, Extent
  <2>2. MapStops' = MapStops
    BY <1>2 DEF MapStops, Filter
  <2>3. \A s : Latitude(s)' = Latitude(s) /\ Longitude(s)' = Longitude(s)
    BY <1>2 DEF Latitude, Longitude
  <2>4. Extent' = Extent
    BY <2>2, <2>3 DEF Extent
  <2> QED
    BY <2>1, <2>4
<1> QED
  BY <1>2, <1>4, <1>5 DEF MapInv

\* A pass of a loop goes on with what it drew.
LEMMA MapInvPass ==
    ASSUME MapInv, db' = db, bounds' = bounds, layer' # "bounds", layer # "bounds",
           Progress(layer', at', counter', doc')
    PROVE  MapInv'
<1>1. Progress(layer, at, counter, doc)'
  BY Frozen
<1>2. MapStops' = MapStops
  BY DEF MapStops, Filter
<1>3. \A s : Latitude(s)' = Latitude(s) /\ Longitude(s)' = Longitude(s)
  BY DEF Latitude, Longitude
<1>4. Extent' = Extent
  BY <1>2, <1>3 DEF Extent
<1> QED
  BY <1>1, <1>4 DEF MapInv

\* A bus without a route gives no entries.
LEMMA NotRouted ==
    ASSUME NEW n \in Nat \ {0}, ~IsRouted(n), NEW k
    PROVE  /\ Expected(n, 0, 0, 0) = Expected(n - 1, 0, 0, 0)
           /\ Expected(k, n, 0, 0) = Expected(k, n - 1, 0, 0)
           /\ Before(n + 1) = Before(n)
<1>1. Lines(n) = Lines(n - 1) /\ \A what : Labels(n, what) = Labels(n - 1, what)
  BY OneMore
<1> QED
  BY <1>1, BeforeCounts DEF Expected

\* The numbers that the loops go by.
LEMMA LoopNumbers ==
    ASSUME MapInv
    PROVE  /\ at \in Nat \ {0} /\ counter \in Int
           /\ Len(MapBuses) \in Nat /\ Len(MapStops) \in Nat
<1>1. at \in Nat \ {0} /\ counter \in Int /\ db \in Catalogues
  BY DEF MapInv, Progress
<1>2. Len(MapBuses) \in Nat
  BY <1>1, BusesToDraw
<1>3. Len(MapStops) \in Nat
  BY <1>1, StopsToDraw
<1> QED
  BY <1>1, <1>2, <1>3

\* The loop over lines.
LEMMA MapInvRenderRoute == MapInv /\ RenderRoute => MapInv'
<1> SUFFICES ASSUME MapInv, RenderRoute PROVE MapInv'
  OBVIOUS
<1>1. PICK n \in Nat \ {0}, c \in Int, size \in Nat :
        n = at /\ c = counter /\ size = Len(MapBuses)
  BY LoopNumbers
<1>2. /\ db \in Catalogues /\ n \in 1 .. size /\ layer = "lines"
      /\ c + 1 = Before(n) /\ Len(doc) = c + 1
      /\ OnMap(doc, Expected(n - 1, 0, 0, 0))
      /\ DOMAIN MapBuses = 1 .. size
  <2>1. layer = "lines" /\ n \in DOMAIN MapBuses /\ db \in Catalogues
    BY <1>1 DEF RenderRoute, MapInv
  <2>2. DOMAIN MapBuses = 1 .. size
    BY <1>1, <2>1, BusesToDraw
  <2>3. c + 1 = Before(n) /\ Len(doc) = c + 1
    BY <1>1, <2>1 DEF MapInv, Progress
  <2>4. OnMap(doc, Expected(n - 1, 0, 0, 0))
    BY <1>1, <2>1 DEF MapInv, Progress, LinesDone, LabelsDone, CirclesDone, NamesDone
  <2> QED
    BY <2>1, <2>2, <2>3, <2>4
<1>3. Before(n + 1) = IF IsRouted(n) THEN Before(n) + 1 ELSE Before(n)
  BY BeforeCounts
<1>4. (n + 1) - 1 = n /\ n + 1 \in Nat \ {0} /\ n + 1 <= size + 1
  BY <1>2
<1>5. CASE IsRouted(n)
  <2>1. /\ doc' = doc \o <<Polyline(MapBuses[n])>> /\ at' = n + 1 /\ counter' = c + 1
        /\ db' = db /\ bounds' = bounds /\ layer' = "lines"
    BY <1>1, <1>2, <1>5 DEF RenderRoute, Pass, IsRouted
  <2>2. Polyline(MapBuses[n]) = LineOf(n)
    BY <1>1, <1>2 DEF Polyline, LineOf, NextColour
  <2>3. doc' = Append(doc, LineOf(n))
    BY <1>2, <2>1, <2>2 DEF OnMap
  <2>4. OnMap(doc', Expected(n, 0, 0, 0))
    BY <1>1, <1>2, <1>5, <2>3, LineDrawn
  <2>5. Len(doc') = (c + 1) + 1 /\ (c + 1) + 1 = Before(n + 1) /\ c + 1 \in Int
    <3>1. Len(doc') = Len(doc) + 1
      BY <1>2, <2>3 DEF OnMap
    <3> QED
      BY <1>2, <1>3, <1>5, <3>1
  <2>6. Progress(layer', at', counter', doc')
    BY <1>1, <1>4, <2>1, <2>4, <2>5
       DEF Progress, LinesDone, LabelsDone, CirclesDone, NamesDone
  <2> QED
    BY <1>2, <2>1, <2>6, MapInvPass
<1>6. CASE ~IsRouted(n)
  <2>1. /\ doc' = doc \o <<>> /\ at' = n + 1 /\ counter' = c + 0
        /\ db' = db /\ bounds' = bounds /\ layer' = "lines"
    BY <1>1, <1>2, <1>6 DEF RenderRoute, Pass, IsRouted
  <2>2. doc' = doc /\ counter' = c
    BY <1>2, <2>1 DEF OnMap
  <2>3. OnMap(doc', Expected(n, 0, 0, 0))
    BY <1>2, <1>6, <2>2, NotRouted
  <2>4. Progress(layer', at', counter', doc')
    BY <1>1, <1>2, <1>3, <1>4, <1>6, <2>1, <2>2, <2>3
       DEF Progress, LinesDone, LabelsDone, CirclesDone, NamesDone
  <2> QED
    BY <1>2, <2>1, <2>4, MapInvPass
<1> QED
  BY <1>5, <1>6

\* The loop over the names of buses.
LEMMA MapInvRenderRouteName == MapInv /\ RenderRouteName => MapInv'
<1> SUFFICES ASSUME MapInv, RenderRouteName PROVE MapInv'
  OBVIOUS
<1>1. PICK n \in Nat \ {0}, c \in Int, size \in Nat :
        n = at /\ c = counter /\ size = Len(MapBuses)
  BY LoopNumbers
<1>2. /\ db \in Catalogues /\ n \in 1 .. size /\ layer = "bus_names"
      /\ c + 1 = Before(n)
      /\ OnMap(doc, Expected(size, n - 1, 0, 0))
  <2>1. layer = "bus_names" /\ n \in DOMAIN MapBuses /\ db \in Catalogues
    BY <1>1 DEF RenderRouteName, MapInv
  <2>2. DOMAIN MapBuses = 1 .. size
    BY <1>1, <2>1, BusesToDraw
  <2>3. c + 1 = Before(n)
    BY <1>1, <2>1 DEF MapInv, Progress
  <2>4. OnMap(doc, Expected(size, n - 1, 0, 0))
    BY <1>1, <2>1 DEF MapInv, Progress, LinesDone, LabelsDone, CirclesDone, NamesDone
  <2> QED
    BY <2>1, <2>2, <2>3, <2>4
<1>3. Before(n + 1) = IF IsRouted(n) THEN Before(n) + 1 ELSE Before(n)
  BY BeforeCounts
<1>4. (n + 1) - 1 = n /\ n + 1 \in Nat \ {0} /\ n + 1 <= size + 1
  BY <1>2
<1>5. CASE IsRouted(n)
  <2>1. /\ doc' = doc \o Written(MapBuses[n]) /\ at' = n + 1 /\ counter' = c + 1
        /\ db' = db /\ bounds' = bounds /\ layer' = "bus_names"
    BY <1>1, <1>2, <1>5 DEF RenderRouteName, Pass, IsRouted, Written
  <2>2. OnMap(doc', Expected(size, n, 0, 0))
    BY <1>1, <1>2, <1>5, <2>1, LabelsDrawn
  <2>3. (c + 1) + 1 = Before(n + 1) /\ c + 1 \in Int
    BY <1>2, <1>3, <1>5
  <2>4. Progress(layer', at', counter', doc')
    BY <1>1, <1>4, <2>1, <2>2, <2>3
       DEF Progress, LinesDone, LabelsDone, CirclesDone, NamesDone
  <2> QED
    BY <1>2, <2>1, <2>4, MapInvPass
<1>6. CASE ~IsRouted(n)
  <2>1. /\ doc' = doc \o <<>> /\ at' = n + 1 /\ counter' = c + 0
        /\ db' = db /\ bounds' = bounds /\ layer' = "bus_names"
    BY <1>1, <1>2, <1>6 DEF RenderRouteName, Pass, IsRouted
  <2>2. doc' = doc /\ counter' = c
    BY <1>2, <2>1 DEF OnMap
  <2>3. OnMap(doc', Expected(size, n, 0, 0))
    BY <1>2, <1>6, <2>2, NotRouted
  <2>4. Progress(layer', at', counter', doc')
    BY <1>1, <1>2, <1>3, <1>4, <1>6, <2>1, <2>2, <2>3
       DEF Progress, LinesDone, LabelsDone, CirclesDone, NamesDone
  <2> QED
    BY <1>2, <2>1, <2>4, MapInvPass
<1> QED
  BY <1>5, <1>6

\* The loop over stops.
LEMMA MapInvRenderStop == MapInv /\ RenderStop => MapInv'
<1> SUFFICES ASSUME MapInv, RenderStop PROVE MapInv'
  OBVIOUS
<1>1. PICK n \in Nat \ {0}, c \in Int, size \in Nat, buses \in Nat :
        n = at /\ c = counter /\ size = Len(MapStops) /\ buses = Len(MapBuses)
  BY LoopNumbers
<1>2. /\ db \in Catalogues /\ n \in 1 .. size /\ layer = "stops"
      /\ OnMap(doc, Expected(buses, buses, n - 1, 0))
  <2>1. layer = "stops" /\ n \in DOMAIN MapStops /\ db \in Catalogues
    BY <1>1 DEF RenderStop, MapInv
  <2>2. DOMAIN MapStops = 1 .. size
    BY <1>1, <2>1, StopsToDraw
  <2>3. OnMap(doc, Expected(buses, buses, n - 1, 0))
    BY <1>1, <2>1 DEF MapInv, Progress, LinesDone, LabelsDone, CirclesDone, NamesDone
  <2> QED
    BY <2>1, <2>2, <2>3
<1>3. (n + 1) - 1 = n /\ n + 1 \in Nat \ {0} /\ n + 1 <= size + 1
  BY <1>2
<1>4. /\ doc' = doc \o <<MarkOf(n, "circle")>> /\ at' = n + 1 /\ counter' = c + 0
      /\ db' = db /\ bounds' = bounds /\ layer' = "stops"
  BY <1>1, <1>2 DEF RenderStop, Pass, MarkOf
<1>5. doc' = Append(doc, MarkOf(n, "circle")) /\ counter' \in Int
  BY <1>2, <1>4 DEF OnMap
<1>6. OnMap(doc', Expected(buses, buses, n, 0))
  BY <1>1, <1>2, <1>5, CircleDrawn
<1>7. Progress(layer', at', counter', doc')
  BY <1>1, <1>3, <1>4, <1>5, <1>6 DEF Progress, LinesDone, LabelsDone, CirclesDone, NamesDone
<1> QED
  BY <1>2, <1>4, <1>7, MapInvPass

\* The loop over the names of stops.
LEMMA MapInvRenderStopName == MapInv /\ RenderStopName => MapInv'
<1> SUFFICES ASSUME MapInv, RenderStopName PROVE MapInv'
  OBVIOUS
<1>1. PICK n \in Nat \ {0}, c \in Int, size \in Nat, buses \in Nat :
        n = at /\ c = counter /\ size = Len(MapStops) /\ buses = Len(MapBuses)
  BY LoopNumbers
<1>2. /\ db \in Catalogues /\ n \in 1 .. size /\ layer = "stop_names"
      /\ OnMap(doc, Expected(buses, buses, size, n - 1))
  <2>1. layer = "stop_names" /\ n \in DOMAIN MapStops /\ db \in Catalogues
    BY <1>1 DEF RenderStopName, MapInv
  <2>2. DOMAIN MapStops = 1 .. size
    BY <1>1, <2>1, StopsToDraw
  <2>3. OnMap(doc, Expected(buses, buses, size, n - 1))
    BY <1>1, <2>1 DEF MapInv, Progress, LinesDone, LabelsDone, CirclesDone, NamesDone
  <2> QED
    BY <2>1, <2>2, <2>3
<1>3. (n + 1) - 1 = n /\ n + 1 \in Nat \ {0} /\ n + 1 <= size + 1
  BY <1>2
<1>4. /\ doc' = doc \o <<MarkOf(n, "stop_background"), MarkOf(n, "stop_name")>>
      /\ at' = n + 1 /\ counter' = c + 0
      /\ db' = db /\ bounds' = bounds /\ layer' = "stop_names"
  BY <1>1, <1>2 DEF RenderStopName, Pass, MarkOf
<1>5. counter' \in Int
  BY <1>4
<1>6. OnMap(doc', Expected(buses, buses, size, n))
  BY <1>1, <1>2, <1>4, NameDrawn
<1>7. Progress(layer', at', counter', doc')
  BY <1>1, <1>3, <1>4, <1>5, <1>6 DEF Progress, LinesDone, LabelsDone, CirclesDone, NamesDone
<1> QED
  BY <1>2, <1>4, <1>7, MapInvPass

\* A loop that is over has drawn all that it had to.
LEMMA MapInvNextLayer == MapInv /\ NextLayer => MapInv'
<1> SUFFICES ASSUME MapInv, NextLayer PROVE MapInv'
  OBVIOUS
<1>1. PICK n \in Nat \ {0}, stops \in Nat, buses \in Nat :
        n = at /\ stops = Len(MapStops) /\ buses = Len(MapBuses)
  BY LoopNumbers
<1>2. /\ db' = db /\ bounds' = bounds /\ doc' = doc /\ at' = 1 /\ counter' = -1
      /\ layer' = After(layer) /\ db \in Catalogues
      /\ layer \in {"lines", "bus_names", "stops", "stop_names"}
  BY DEF NextLayer, LoopIsOver, MapInv, Progress
<1>3. Before(1) = 0 /\ -1 + 1 = 0 /\ 1 - 1 = 0 /\ 1 <= stops + 1 /\ 1 <= buses + 1
  BY BeforeCounts
<1>4. CASE layer \in {"lines", "bus_names"}
  <2>1. n > buses /\ n <= buses + 1
    BY <1>1, <1>4 DEF NextLayer, LoopIsOver, MapInv, Progress
  <2>2. n - 1 = buses
    BY <2>1
  <2>3. layer' = IF layer = "lines" THEN "bus_names" ELSE "stops"
    BY <1>2, <1>4 DEF After, Layers
  <2>4. OnMap(doc, Expected(buses, IF layer = "lines" THEN 0 ELSE buses, 0, 0))
    BY <1>1, <1>4, <2>2 DEF MapInv, Progress, LinesDone, LabelsDone, CirclesDone, NamesDone
  <2>5. Progress(layer', at', counter', doc')
    BY <1>1, <1>2, <1>3, <1>4, <2>3, <2>4
       DEF Progress, LinesDone, LabelsDone, CirclesDone, NamesDone
  <2> QED
    BY <1>2, <2>3, <2>5, MapInvPass
<1>5. CASE layer \in {"stops", "stop_names"}
  <2>1. n > stops /\ n <= stops + 1
    BY <1>1, <1>5 DEF NextLayer, LoopIsOver, MapInv, Progress
  <2>2. n - 1 = stops
    BY <2>1
  <2>3. layer' = IF layer = "stops" THEN "stop_names" ELSE "done"
    BY <1>2, <1>5 DEF After, Layers
  <2>4. OnMap(doc, Expected(buses, buses, stops, IF layer = "stops" THEN 0 ELSE stops))
    BY <1>1, <1>5, <2>2 DEF MapInv, Progress, LinesDone, LabelsDone, CirclesDone, NamesDone
  <2>5. Progress(layer', at', counter', doc')
    BY <1>1, <1>2, <1>3, <1>5, <2>3, <2>4
       DEF Progress, LinesDone, LabelsDone, CirclesDone, NamesDone
  <2> QED
    BY <1>2, <2>3, <2>5, MapInvPass
<1> QED
  BY <1>2, <1>4, <1>5

\* Every step keeps the invariant.
LEMMA MapInvNext == MapInv /\ [Next]_vars => MapInv'
<1> SUFFICES ASSUME MapInv, [Next]_vars PROVE MapInv'
  OBVIOUS
<1>1. CASE UNCHANGED vars
  <2>1. /\ db' = db /\ bounds' = bounds /\ layer' = layer /\ at' = at
        /\ counter' = counter /\ doc' = doc
    BY <1>1 DEF vars
  <2>2. Progress(layer', at', counter', doc')
    BY <2>1 DEF MapInv
  <2>3. Progress(layer, at, counter, doc)'
    BY <2>1, <2>2, Frozen
  <2>4. Extent' = Extent
    BY <2>1 DEF Extent, MapStops, Filter, Latitude, Longitude
  <2> QED
    BY <2>1, <2>3, <2>4 DEF MapInv
<1> QED
  BY <1>1, MapInvInitMap, MapInvRenderRoute, MapInvRenderRouteName, MapInvRenderStop,
     MapInvRenderStopName, MapInvNextLayer DEF Next

-----------------------------------------------------------------------------
(* Colours and labels *)

\* Numbers that are not a multiple of the divisor apart leave different rests.
LEMMA RestsDiffer ==
    ASSUME NEW p \in Nat \ {0}, NEW a \in Nat, NEW b \in Nat, a < b, b - a < p
    PROVE  a % p # b % p
<1> SUFFICES ASSUME a % p = b % p PROVE FALSE
  OBVIOUS
<1>1. PICK r \in Int, m \in Int, n \in Int : a = p * m + r /\ b = p * n + r
  <2>1. a \div p \in Int /\ b \div p \in Int /\ a % p \in Int
    OBVIOUS
  <2>2. a = p * (a \div p) + (a % p) /\ b = p * (b \div p) + (b % p)
    OBVIOUS
  <2> QED
    BY <2>1, <2>2
<1>2. PICK d \in Int : d = n - m
  OBVIOUS
<1>3. b - a = p * d
  BY <1>1, <1>2
<1>4. d <= 0 \/ d >= 1
  BY <1>2
<1>5. CASE d <= 0
  <2>1. p * d <= 0
    BY <1>5
  <2> QED
    BY <1>3, <2>1
<1>6. CASE d >= 1
  <2>1. p * d >= p
    BY <1>6
  <2> QED
    BY <1>3, <2>1
<1> QED
  BY <1>4, <1>5, <1>6

\* What is in the document, of each kind.
LEMMA Shown ==
    ASSUME MapInv
    PROVE  /\ db \in Catalogues /\ doc \in Seq(Entries)
           /\ \A what : Drawn(what) = Of(doc, what)
           /\ \A what \in Kinds : Drawn(what) \subseteq 1 .. Len(doc)
           /\ \A what \in Kinds : \A i, j \in Drawn(what) : doc[i] = doc[j] => i = j
           /\ \A i \in Drawn("line") : \E n \in 1 .. Len(MapBuses) : IsRouted(n) /\ doc[i] = LineOf(n)
           /\ \A i \in Drawn("name") : \E n \in 1 .. Len(MapBuses) :
                IsRouted(n) /\ \E s \in Ends(MapBuses[n]) : doc[i] = LabelOf(n, s, "name")
           /\ Coloured(doc) /\ Backed(doc)
<1>1. PICK lines, labels, circles, names, E :
        /\ lines = LinesDone(layer, at) /\ labels = LabelsDone(layer, at)
        /\ circles = CirclesDone(layer, at) /\ names = NamesDone(layer, at)
        /\ E = Expected(lines, labels, circles, names)
  OBVIOUS
<1>2. db \in Catalogues /\ OnMap(doc, E)
  BY <1>1 DEF MapInv, Progress
<1>3. \A what : Drawn(what) = Of(doc, what)
  BY DEF Drawn, Of
<1>4. /\ \A what \in Kinds : {doc[i] : i \in Drawn(what)} = E[what]
      /\ \A what \in Kinds : \A i, j \in Drawn(what) : doc[i] = doc[j] => i = j
  BY <1>2, <1>3 DEF OnMap, AllLists, Lists
<1>5. \A i \in Drawn("line") : doc[i] \in Lines(lines)
  BY <1>1, <1>4, ExpectedKinds DEF Kinds
<1>6. \A i \in Drawn("name") : doc[i] \in Labels(labels, "name")
  BY <1>1, <1>4, ExpectedKinds DEF Kinds
<1>7. 1 .. lines \subseteq 1 .. Len(MapBuses) /\ 1 .. labels \subseteq 1 .. Len(MapBuses)
  <2>1. PICK n \in Nat \ {0}, size \in Nat : n = at /\ size = Len(MapBuses)
    BY LoopNumbers
  <2>2. layer \in {"lines", "bus_names"} => n - 1 <= size
    BY <2>1 DEF MapInv, Progress
  <2>3. lines \in {0, size} \/ (lines = n - 1 /\ n - 1 <= size)
    BY <1>1, <2>1, <2>2 DEF LinesDone
  <2>4. labels \in {0, size} \/ (labels = n - 1 /\ n - 1 <= size)
    BY <1>1, <2>1, <2>2 DEF LabelsDone
  <2>5. 1 .. lines \subseteq 1 .. size
    BY <2>3
  <2>6. 1 .. labels \subseteq 1 .. size
    BY <2>4
  <2> QED
    BY <2>1, <2>5, <2>6
<1>8. \A i \in Drawn("line") : \E n \in 1 .. Len(MapBuses) : IsRouted(n) /\ doc[i] = LineOf(n)
  BY <1>5, <1>7 DEF Lines
<1>9. \A i \in Drawn("name") : \E n \in 1 .. Len(MapBuses) :
        IsRouted(n) /\ \E s \in Ends(MapBuses[n]) : doc[i] = LabelOf(n, s, "name")
  BY <1>6, <1>7 DEF Labels, LabelsOf
<1>10. doc \in Seq(Entries) /\ Coloured(doc) /\ Backed(doc)
  BY <1>2 DEF OnMap
<1>11. DOMAIN doc = 1 .. Len(doc)
  BY <1>10
<1>12. \A what \in Kinds : Drawn(what) \subseteq 1 .. Len(doc)
  BY <1>11 DEF Drawn
<1> QED
  BY <1>2, <1>3, <1>4, <1>8, <1>9, <1>10, <1>12

\* The names have the colours of the lines.
LEMMA MapInvColours == MapInv => ColoursAgree
<1> SUFFICES ASSUME MapInv PROVE ColoursAgree
  OBVIOUS
<1>1. ASSUME NEW i \in Drawn("line"), NEW j \in Drawn("name"), doc[i].bus = doc[j].bus
      PROVE  doc[i].colour = doc[j].colour
  <2>1. PICK n \in 1 .. Len(MapBuses) : doc[i] = LineOf(n)
    BY Shown
  <2>2. PICK m \in 1 .. Len(MapBuses) : \E s : doc[j] = LabelOf(m, s, "name")
    BY Shown
  <2>3. MapBuses[n].name = MapBuses[m].name
    BY <1>1, <2>1, <2>2 DEF LineOf, LabelOf
  <2>4. n = m
    BY <2>3, Shown, BusesToDraw
  <2> QED
    BY <2>1, <2>2, <2>4 DEF LineOf, LabelOf
<1>2. ASSUME NEW i \in Drawn("line"), NEW j \in Drawn("line"), i < j, j - i < PaletteSize
      PROVE  doc[i].colour # doc[j].colour
  <2>1. i \in 1 .. Len(doc) /\ j \in 1 .. Len(doc) /\ Len(doc) \in Nat
    BY Shown DEF Kinds
  <2>2. PICK a \in Nat, b \in Nat : a = i - 1 /\ b = j - 1
    BY <2>1
  <2>3. a < b /\ b - a < PaletteSize
    BY <1>2, <2>1, <2>2
  <2>4. a % PaletteSize # b % PaletteSize
    BY <2>3, RestsDiffer, PaletteAssumption
  <2>5. doc[i].colour = (i - 1) % PaletteSize /\ doc[j].colour = (j - 1) % PaletteSize
    BY Shown DEF Coloured
  <2> QED
    BY <2>2, <2>4, <2>5
<1> QED
  BY <1>1, <1>2 DEF ColoursAgree

\* Two loops with a counter each give the name of every bus the colour of its
\* line, for every catalogue and palette.
THEOREM ColoursAlwaysAgree == Spec => []ColoursAgree
  BY MapInvInit, MapInvNext, MapInvColours, PTL DEF Spec

\* Every bus is named at its ends.
LEMMA MapInvTerminals == MapInv => TerminalsLabelled
<1> SUFFICES ASSUME MapInv, layer \in {"stops", "stop_names", "done"} PROVE TerminalsLabelled
  BY DEF TerminalsLabelled
<1>1. PICK size \in Nat : size = Len(MapBuses)
  BY LoopNumbers
<1>2. {doc[i] : i \in Drawn("name")} = Labels(size, "name")
  <2>1. PICK E : E = Expected(LinesDone(layer, at), size, CirclesDone(layer, at), NamesDone(layer, at))
    OBVIOUS
  <2>2. LabelsDone(layer, at) = size
    BY <1>1 DEF LabelsDone
  <2>3. OnMap(doc, E)
    BY <2>1, <2>2 DEF MapInv, Progress
  <2>4. E["name"] = Labels(size, "name") /\ "name" \in Kinds
    BY <2>1, ExpectedKinds DEF Kinds
  <2>5. {doc[i] : i \in Of(doc, "name")} = E["name"]
    BY <2>3, <2>4 DEF OnMap, AllLists, Lists
  <2> QED
    BY <2>4, <2>5, Shown
<1>3. MapBuses \in Seq(Bus) /\ DOMAIN MapBuses = 1 .. size
  BY <1>1, Shown, BusesToDraw
<1>4. {<<doc[n].bus, doc[n].stop>> : n \in Drawn("name")}
      = UNION {{bus.name} \X Ends(bus) : bus \in Routed}
  <2>1. ASSUME NEW i \in Drawn("name")
        PROVE  <<doc[i].bus, doc[i].stop>> \in UNION {{bus.name} \X Ends(bus) : bus \in Routed}
    <3>1. PICK n \in 1 .. size : IsRouted(n) /\ \E s \in Ends(MapBuses[n]) : doc[i] = LabelOf(n, s, "name")
      BY <1>1, Shown
    <3>2. PICK s \in Ends(MapBuses[n]) : doc[i] = LabelOf(n, s, "name")
      BY <3>1
    <3>3. doc[i].bus = MapBuses[n].name /\ doc[i].stop = s
      BY <3>2 DEF LabelOf
    <3>4. MapBuses[n] \in Routed
      BY <1>3, <3>1 DEF Routed, IsRouted, ToSet
    <3> QED
      BY <3>3, <3>4
  <2>2. ASSUME NEW bus \in Routed, NEW s \in Ends(bus)
        PROVE  \E i \in Drawn("name") : doc[i].bus = bus.name /\ doc[i].stop = s
    <3>1. PICK n \in 1 .. size : bus = MapBuses[n] /\ IsRouted(n)
      BY <1>3 DEF Routed, IsRouted, ToSet
    <3>2. LabelOf(n, s, "name") \in Labels(size, "name")
      BY <2>2, <3>1 DEF Labels, LabelsOf
    <3>3. PICK i \in Drawn("name") : doc[i] = LabelOf(n, s, "name")
      BY <1>2, <3>2
    <3>4. doc[i].bus = bus.name /\ doc[i].stop = s
      BY <3>1, <3>3 DEF LabelOf
    <3> QED
      BY <3>4
  <2>3. ASSUME NEW x \in UNION {{bus.name} \X Ends(bus) : bus \in Routed}
        PROVE  x \in {<<doc[n].bus, doc[n].stop>> : n \in Drawn("name")}
    <3>1. PICK bus \in Routed : x \in {bus.name} \X Ends(bus)
      OBVIOUS
    <3>2. PICK s \in Ends(bus) : x = <<bus.name, s>>
      BY <3>1
    <3>3. PICK i \in Drawn("name") : doc[i].bus = bus.name /\ doc[i].stop = s
      BY <2>2
    <3> QED
      BY <3>2, <3>3
  <2> QED
    BY <2>1, <2>3
<1>5. ASSUME NEW i \in Drawn("name"), NEW j \in Drawn("name"),
             doc[i].bus = doc[j].bus, doc[i].stop = doc[j].stop
      PROVE  i = j
  <2>1. PICK n \in 1 .. Len(MapBuses), m \in 1 .. Len(MapBuses) :
           \E s, t : doc[i] = LabelOf(n, s, "name") /\ doc[j] = LabelOf(m, t, "name")
    BY Shown
  <2>2. PICK s, t : doc[i] = LabelOf(n, s, "name") /\ doc[j] = LabelOf(m, t, "name")
    BY <2>1
  <2>3. MapBuses[n].name = MapBuses[m].name /\ s = t
    BY <1>5, <2>2 DEF LabelOf
  <2>4. n = m
    BY <2>3, Shown, BusesToDraw
  <2> QED
    BY <2>2, <2>3, <2>4, Shown DEF Kinds
<1>6. \A n \in Drawn("name") : doc[n - 1] = Background(doc[n])
  BY Shown DEF Backed
<1> QED
  BY <1>4, <1>5, <1>6 DEF TerminalsLabelled

\* For every catalogue that can be drawn, each bus with a route is named once
\* at each of its ends, upon a background, and nowhere else.
THEOREM TerminalsAlwaysLabelled == Spec => []TerminalsLabelled
  BY MapInvInit, MapInvNext, MapInvTerminals, PTL DEF Spec

-----------------------------------------------------------------------------
(* Stops *)

\* The stops that a finished map shows.
LEMMA ShownStops ==
    ASSUME MapInv, layer = "done", NEW what \in {"circle", "stop_background", "stop_name"}
    PROVE  /\ {doc[i] : i \in Drawn(what)} = Marks(Len(MapStops), what)
           /\ {doc[i].stop : i \in Drawn(what)} = ToSet(MapStops)
           /\ \A i, j \in Drawn(what) : doc[i].stop = doc[j].stop => i = j
<1>1. PICK size \in Nat : size = Len(MapStops)
  BY LoopNumbers
<1>2. {doc[i] : i \in Drawn(what)} = Marks(size, what)
  <2>1. PICK E : E = Expected(LinesDone(layer, at), LabelsDone(layer, at), size, size)
    OBVIOUS
  <2>2. CirclesDone(layer, at) = size /\ NamesDone(layer, at) = size
    BY <1>1 DEF CirclesDone, NamesDone
  <2>3. OnMap(doc, E)
    BY <2>1, <2>2 DEF MapInv, Progress
  <2>4. E[what] = Marks(size, what) /\ what \in Kinds
    BY <2>1, ExpectedKinds DEF Kinds
  <2>5. {doc[i] : i \in Of(doc, what)} = E[what]
    BY <2>3, <2>4 DEF OnMap, AllLists, Lists
  <2> QED
    BY <2>4, <2>5, Shown
<1>3. \A i \in Drawn(what) : \E n \in 1 .. size : doc[i] = MarkOf(n, what)
  BY <1>2 DEF Marks
<1>4. \A n \in 1 .. size : \E i \in Drawn(what) : doc[i] = MarkOf(n, what)
  BY <1>2 DEF Marks
<1>5. \A n : MarkOf(n, what).stop = MapStops[n]
  BY DEF MarkOf, GetStopLabel
<1>6. ToSet(MapStops) = {MapStops[n] : n \in 1 .. size}
  <2>1. DOMAIN MapStops = 1 .. size
    BY <1>1, Shown, StopsToDraw
  <2> QED
    BY <2>1 DEF ToSet
<1>7. {doc[i].stop : i \in Drawn(what)} = ToSet(MapStops)
  <2>1. ASSUME NEW i \in Drawn(what) PROVE doc[i].stop \in ToSet(MapStops)
    BY <1>3, <1>5, <1>6
  <2>2. ASSUME NEW s \in ToSet(MapStops) PROVE \E i \in Drawn(what) : doc[i].stop = s
    BY <1>4, <1>5, <1>6
  <2> QED
    BY <2>1, <2>2
<1>8. ASSUME NEW i \in Drawn(what), NEW j \in Drawn(what), doc[i].stop = doc[j].stop
      PROVE  i = j
  <2>1. PICK m \in 1 .. size, n \in 1 .. size : doc[i] = MarkOf(m, what) /\ doc[j] = MarkOf(n, what)
    BY <1>3
  <2>2. MapStops[m] = MapStops[n]
    BY <1>5, <1>8, <2>1
  <2>3. m = n
    BY <1>1, <2>2, Shown, StopsToDraw
  <2> QED
    BY <2>1, <2>3, Shown DEF Kinds
<1> QED
  BY <1>1, <1>2, <1>7, <1>8

\* The stops on the map are those of the lines.
LEMMA MapInvStops == MapInv => StopsOfLines
<1> SUFFICES ASSUME MapInv, layer = "done" PROVE StopsOfLines
  BY DEF StopsOfLines
<1>1. MapBuses \in Seq(Bus) /\ DOMAIN MapBuses = 1 .. Len(MapBuses)
  BY Shown, BusesToDraw
<1>2. UNION {ToSet(bus.route) : bus \in Routed} = ToSet(MapStops)
  <2>1. ASSUME NEW bus \in Routed PROVE ToSet(bus.route) \subseteq ToSet(MapStops)
    BY <1>1, Shown, StopsToDraw DEF Routed, ToSet
  <2>2. ASSUME NEW s \in ToSet(MapStops) PROVE \E bus \in Routed : s \in ToSet(bus.route)
    <3>1. PICK n \in 1 .. Len(MapBuses) : s \in ToSet(MapBuses[n].route)
      BY Shown, StopsToDraw
    <3>2. MapBuses[n].route # <<>>
      BY <3>1 DEF ToSet
    <3>3. MapBuses[n] \in Routed
      BY <1>1, <3>2 DEF Routed, ToSet
    <3> QED
      BY <3>1, <3>3
  <2> QED
    BY <2>1, <2>2
<1>3. /\ {doc[n].stop : n \in Drawn("circle")} = ToSet(MapStops)
      /\ \A i, j \in Drawn("circle") : doc[i].stop = doc[j].stop => i = j
  BY ShownStops
<1>4. /\ {doc[n].stop : n \in Drawn("stop_background")} = ToSet(MapStops)
      /\ \A i, j \in Drawn("stop_background") : doc[i].stop = doc[j].stop => i = j
  BY ShownStops
<1>5. /\ {doc[n].stop : n \in Drawn("stop_name")} = ToSet(MapStops)
      /\ \A i, j \in Drawn("stop_name") : doc[i].stop = doc[j].stop => i = j
  BY ShownStops
<1> QED
  BY <1>2, <1>3, <1>4, <1>5 DEF StopsOfLines

\* For every catalogue that can be drawn, the circles are the stops that lines
\* pass, each drawn and named once.
THEOREM StopsAlwaysOfLines == Spec => []StopsOfLines
  BY MapInvInit, MapInvNext, MapInvStops, PTL DEF Spec

-----------------------------------------------------------------------------
(* The frame *)

\* A larger number has a larger product.
LEMMA ProductGrows ==
    ASSUME NEW a \in Nat, NEW b \in Nat, NEW c \in Nat, a <= b
    PROVE  a * c <= b * c /\ a * c \in Nat
<1>1. PICK d \in Nat : b = a + d
  <2>1. b - a \in Nat /\ b = a + (b - a)
    OBVIOUS
  <2> QED
    BY <2>1
<1>2. d * c \in Nat /\ a * c \in Nat
  OBVIOUS
<1>3. b * c = a * c + d * c
  BY <1>1
<1> QED
  BY <1>2, <1>3

\* What is within the extent is within the canvas when zoomed, and the farther
\* side fills it.
LEMMA ZoomFits ==
    ASSUME NEW w \in Nat \ {0}, NEW h \in Nat \ {0}, NEW lon \in Nat, NEW lat \in Nat,
           NEW p, NEW q, <<p, q>> = Zoom(w, h, lon, lat)
    PROVE  /\ p \in Nat /\ q \in Nat \ {0}
           /\ \A a \in 0 .. lon : a * p \in 0 .. w * q
           /\ \A b \in 0 .. lat : b * p \in 0 .. h * q
           /\ lon # 0 \/ lat # 0 => lon * p = w * q \/ lat * p = h * q
<1>1. CASE lon # 0 /\ (lat = 0 \/ w * lat <= h * lon)
  <2>1. p = w /\ q = lon
    BY <1>1 DEF Zoom
  <2>2. ASSUME NEW a \in 0 .. lon PROVE a * w \in 0 .. w * lon
    <3>1. a * w <= lon * w /\ a * w \in Nat
      BY ProductGrows
    <3> QED
      BY <3>1
  <2>3. ASSUME NEW b \in 0 .. lat PROVE b * w \in 0 .. h * lon
    <3>1. b * w <= lat * w /\ b * w \in Nat
      BY ProductGrows
    <3>2. lat * w <= h * lon
      <4>1. CASE lat = 0
        <5>1. h * lon \in Nat /\ 0 * w = 0
          OBVIOUS
        <5> QED
          BY <4>1, <5>1
      <4>2. CASE lat # 0
        BY <1>1, <4>2
      <4> QED
        BY <4>1, <4>2
    <3>3. h * lon \in Nat /\ lat * w \in Nat
      OBVIOUS
    <3> QED
      BY <3>1, <3>2, <3>3
  <2>4. lon * w = w * lon
    OBVIOUS
  <2> QED
    BY <1>1, <2>1, <2>2, <2>3, <2>4
<1>2. CASE lat # 0 /\ (lon = 0 \/ ~(w * lat <= h * lon))
  <2>1. p = h /\ q = lat
    BY <1>2 DEF Zoom
  <2>2. ASSUME NEW b \in 0 .. lat PROVE b * h \in 0 .. h * lat
    <3>1. b * h <= lat * h /\ b * h \in Nat
      BY ProductGrows
    <3> QED
      BY <3>1
  <2>3. ASSUME NEW a \in 0 .. lon PROVE a * h \in 0 .. w * lat
    <3>1. a * h <= lon * h /\ a * h \in Nat
      BY ProductGrows
    <3>2. lon * h <= w * lat
      <4>1. CASE lon = 0
        <5>1. w * lat \in Nat /\ 0 * h = 0
          OBVIOUS
        <5> QED
          BY <4>1, <5>1
      <4>2. CASE lon # 0
        <5>1. w * lat \in Nat /\ h * lon \in Nat /\ h * lon = lon * h
          OBVIOUS
        <5> QED
          BY <1>2, <4>2, <5>1
      <4> QED
        BY <4>1, <4>2
    <3>3. w * lat \in Nat /\ lon * h \in Nat
      OBVIOUS
    <3> QED
      BY <3>1, <3>2, <3>3
  <2>4. lat * h = h * lat
    OBVIOUS
  <2> QED
    BY <1>2, <2>1, <2>2, <2>3, <2>4
<1>3. CASE lon = 0 /\ lat = 0
  <2>1. p = 0 /\ q = 1
    BY <1>3 DEF Zoom
  <2> QED
    BY <1>3, <2>1
<1> QED
  BY <1>1, <1>2, <1>3

\* The numbers that a function takes on the stops of the map.
LEMMA ImageIsFinite ==
    ASSUME db \in Catalogues, NEW f, \A s \in ToSet(MapStops) : f[s] \in Int
    PROVE  LET image == {f[s] : s \in ToSet(MapStops)} IN
           image \in SUBSET Int /\ IsFiniteSet(image)
<1>1. PICK n \in Nat : n = Len(MapStops) /\ DOMAIN MapStops = 1 .. n
  BY StopsToDraw
<1>2. PICK image : image = {f[s] : s \in ToSet(MapStops)}
  OBVIOUS
<1>3. [k \in 1 .. n |-> f[MapStops[k]]] \in Surjection(1 .. n, image)
  BY <1>1, <1>2 DEF Surjection, ToSet
<1>4. IsFiniteSet(1 .. n)
  BY FS_Interval
<1>5. IsFiniteSet(image)
  BY <1>3, <1>4, FS_Surjection
<1>6. image \in SUBSET Int
  BY <1>2
<1> QED
  BY <1>2, <1>5, <1>6

\* The least of some numbers below Largest is one of them; the greatest is one
\* of them unless zero is greater.
LEMMA Outermost ==
    ASSUME NEW T \in SUBSET Int, IsFiniteSet(T), T # {}, \A t \in T : t < Largest
    PROVE  /\ Min(T \cup {Largest}) \in T /\ \A t \in T : Min(T \cup {Largest}) <= t
           /\ Max(T \cup {0}) \in Int /\ Max(T \cup {0}) >= 0
           /\ \A t \in T : t <= Max(T \cup {0})
           /\ (\E t \in T : t >= 0) => Max(T \cup {0}) \in T
<1>1. /\ IsFiniteSet(T \cup {Largest}) /\ IsFiniteSet(T \cup {0})
      /\ T \cup {Largest} \in SUBSET Int /\ T \cup {0} \in SUBSET Int
      /\ T \cup {Largest} # {} /\ T \cup {0} # {}
  <2>1. IsFiniteSet(T \cup {Largest}) /\ IsFiniteSet(T \cup {0})
    BY FS_AddElement
  <2>2. T \cup {Largest} \in SUBSET Int /\ T \cup {0} \in SUBSET Int
    BY LargestAssumption
  <2> QED
    BY <2>1, <2>2
<1>2. PICK least, most : least = Min(T \cup {Largest}) /\ most = Max(T \cup {0})
  OBVIOUS
<1>3. least \in T \cup {Largest} /\ \A y \in T \cup {Largest} : least <= y
  BY <1>1, <1>2, MinMax
<1>4. most \in T \cup {0} /\ \A y \in T \cup {0} : y <= most
  BY <1>1, <1>2, MinMax
<1>5. least \in T /\ \A t \in T : least <= t
  <2>1. PICK t \in T : t \in Int /\ t < Largest
    OBVIOUS
  <2>2. least # Largest
    BY <1>3, <2>1, LargestAssumption
  <2> QED
    BY <1>3, <2>2
<1>6. most \in Int /\ most >= 0 /\ \A t \in T : t <= most
  BY <1>1, <1>4
<1>7. ASSUME NEW t \in T, t >= 0 PROVE most \in T
  <2>1. CASE most = 0
    <3>1. t \in Int /\ t <= 0
      BY <1>6, <2>1
    <3>2. t = 0
      BY <1>7, <3>1
    <3> QED
      BY <2>1, <3>2
  <2> QED
    BY <1>4, <2>1
<1> QED
  BY <1>2, <1>5, <1>6, <1>7

\* The bounds enclose the stops and touch them, except where the equator or
\* Greenwich is farther out.
LEMMA ExtentEncloses ==
    ASSUME db \in Catalogues, bounds = Extent, MapStops # <<>>
    PROVE  /\ bounds.min_lat \in Int /\ bounds.max_lat \in Int /\ bounds.max_lat >= 0
           /\ bounds.min_lon \in Int /\ bounds.max_lon \in Int /\ bounds.max_lon >= 0
           /\ \A s \in ToSet(MapStops) :
                /\ Latitude(s) \in Int /\ Longitude(s) \in Int
                /\ bounds.min_lat <= Latitude(s) /\ Latitude(s) <= bounds.max_lat
                /\ bounds.min_lon <= Longitude(s) /\ Longitude(s) <= bounds.max_lon
           /\ \E s \in ToSet(MapStops) : Latitude(s) = bounds.min_lat
           /\ \E s \in ToSet(MapStops) : Longitude(s) = bounds.min_lon
           /\ (\E s \in ToSet(MapStops) : Latitude(s) >= 0) =>
                \E s \in ToSet(MapStops) : Latitude(s) = bounds.max_lat
           /\ (\E s \in ToSet(MapStops) : Longitude(s) >= 0) =>
                \E s \in ToSet(MapStops) : Longitude(s) = bounds.max_lon
<1>1. PICK S : S = ToSet(MapStops)
  OBVIOUS
<1>2. /\ S # {} /\ \A s \in S : Latitude(s) \in Int /\ Longitude(s) \in Int
      /\ \A s \in S : Latitude(s) < Largest /\ Longitude(s) < Largest
      /\ Largest \in Int
  <2>1. MapStops \in Seq(StopName)
    BY StopsToDraw
  <2>2. S # {}
    BY <1>1, <2>1 DEF ToSet
  <2> QED
    BY <1>1, <2>2, StopsToDraw, LargestAssumption
<1>3. PICK lats, lons : lats = {Latitude(s) : s \in S} /\ lons = {Longitude(s) : s \in S}
  OBVIOUS
<1>4. /\ lats \in SUBSET Int /\ IsFiniteSet(lats)
      /\ lons \in SUBSET Int /\ IsFiniteSet(lons)
  <2>1. PICK f, g : f = [s \in S |-> Latitude(s)] /\ g = [s \in S |-> Longitude(s)]
    OBVIOUS
  <2>2. \A s \in S : f[s] = Latitude(s) /\ g[s] = Longitude(s) /\ f[s] \in Int /\ g[s] \in Int
    BY <1>2, <2>1
  <2>3. {f[s] : s \in S} = lats /\ {g[s] : s \in S} = lons
    BY <1>3, <2>2
  <2>4. {f[s] : s \in S} \in SUBSET Int /\ IsFiniteSet({f[s] : s \in S})
    BY <1>1, <2>2, ImageIsFinite
  <2>5. {g[s] : s \in S} \in SUBSET Int /\ IsFiniteSet({g[s] : s \in S})
    BY <1>1, <2>2, ImageIsFinite
  <2> QED
    BY <2>3, <2>4, <2>5
<1>5. /\ bounds.min_lat = Min(lats \cup {Largest}) /\ bounds.max_lat = Max(lats \cup {0})
      /\ bounds.min_lon = Min(lons \cup {Largest}) /\ bounds.max_lon = Max(lons \cup {0})
  BY <1>1, <1>3 DEF Extent, Smallest
<1>7. lats # {} /\ lons # {} /\ (\A t \in lats : t < Largest) /\ (\A t \in lons : t < Largest)
  BY <1>2, <1>3
<1>8. /\ bounds.min_lat \in lats /\ \A t \in lats : bounds.min_lat <= t
      /\ bounds.max_lat \in Int /\ bounds.max_lat >= 0
      /\ \A t \in lats : t <= bounds.max_lat
      /\ (\E t \in lats : t >= 0) => bounds.max_lat \in lats
  <2>1. /\ lats \in SUBSET Int /\ IsFiniteSet(lats) /\ lats # {}
        /\ \A t \in lats : t < Largest
    BY <1>4, <1>7
  <2>2. /\ Min(lats \cup {Largest}) \in lats /\ \A t \in lats : Min(lats \cup {Largest}) <= t
        /\ Max(lats \cup {0}) \in Int /\ Max(lats \cup {0}) >= 0
        /\ \A t \in lats : t <= Max(lats \cup {0})
        /\ (\E t \in lats : t >= 0) => Max(lats \cup {0}) \in lats
    BY <2>1, Outermost
  <2> QED
    BY <1>5, <2>2
<1>9. /\ bounds.min_lon \in lons /\ \A t \in lons : bounds.min_lon <= t
      /\ bounds.max_lon \in Int /\ bounds.max_lon >= 0
      /\ \A t \in lons : t <= bounds.max_lon
      /\ (\E t \in lons : t >= 0) => bounds.max_lon \in lons
  <2>1. /\ lons \in SUBSET Int /\ IsFiniteSet(lons) /\ lons # {}
        /\ \A t \in lons : t < Largest
    BY <1>4, <1>7
  <2>2. /\ Min(lons \cup {Largest}) \in lons /\ \A t \in lons : Min(lons \cup {Largest}) <= t
        /\ Max(lons \cup {0}) \in Int /\ Max(lons \cup {0}) >= 0
        /\ \A t \in lons : t <= Max(lons \cup {0})
        /\ (\E t \in lons : t >= 0) => Max(lons \cup {0}) \in lons
    BY <2>1, Outermost
  <2> QED
    BY <1>5, <2>2
<1>10. \A s \in S : Latitude(s) \in lats /\ Longitude(s) \in lons
  BY <1>3
<1>11. /\ \A t \in lats : \E s \in S : Latitude(s) = t
       /\ \A t \in lons : \E s \in S : Longitude(s) = t
  BY <1>3
<1>12. bounds.min_lat \in Int /\ bounds.min_lon \in Int
  BY <1>4, <1>8, <1>9
<1> QED
  BY <1>1, <1>2, <1>8, <1>9, <1>10, <1>11, <1>12

\* The point of every stop of the map is inside the frame.
LEMMA PointFits ==
    ASSUME db \in Catalogues, bounds = Extent, NEW s \in ToSet(MapStops)
    PROVE  /\ GetPoint(s).x \in LeftEdge .. RightEdge
           /\ GetPoint(s).y \in LeftEdge .. BottomEdge
           /\ Denominator \in Nat \ {0}
           /\ Longitude(s) = bounds.min_lon => GetPoint(s).x = LeftEdge
           /\ Latitude(s) = bounds.max_lat => GetPoint(s).y = LeftEdge
           /\ LET lon == bounds.max_lon - bounds.min_lon
                  lat == bounds.max_lat - bounds.min_lat
                  zoom == GetZoomCoef(bounds)[1]
              IN  /\ Longitude(s) = bounds.max_lon => GetPoint(s).x = lon * zoom + LeftEdge
                  /\ Latitude(s) = bounds.min_lat => GetPoint(s).y = lat * zoom + LeftEdge
                  /\ lon # 0 \/ lat # 0 =>
                       lon * zoom + LeftEdge = RightEdge \/ lat * zoom + LeftEdge = BottomEdge
                  /\ lon = 0 /\ lat = 0 => GetPoint(s) = [x |-> LeftEdge, y |-> LeftEdge]
<1>1. MapStops # <<>>
  BY DEF ToSet
<1>2. PICK min_lon \in Int, max_lon \in Int, min_lat \in Int, max_lat \in Int :
        /\ min_lon = bounds.min_lon /\ max_lon = bounds.max_lon
        /\ min_lat = bounds.min_lat /\ max_lat = bounds.max_lat
  BY <1>1, ExtentEncloses
<1>3. PICK x \in Int, y \in Int : x = Longitude(s) /\ y = Latitude(s)
  BY <1>1, ExtentEncloses
<1>4. min_lon <= x /\ x <= max_lon /\ min_lat <= y /\ y <= max_lat
  BY <1>1, <1>2, <1>3, ExtentEncloses
<1>5. PICK lon \in Nat, lat \in Nat : lon = max_lon - min_lon /\ lat = max_lat - min_lat
  BY <1>4
<1>6. PICK w \in Nat \ {0}, h \in Nat \ {0}, pad \in Nat :
        /\ w = Width - 2 * Padding /\ h = Height - 2 * Padding /\ pad = Padding
        /\ Width = w + 2 * pad /\ Height = h + 2 * pad
  BY SizeAssumption
<1>7. PICK p, q : <<p, q>> = Zoom(w, h, lon, lat)
  BY DEF Zoom
<1>8. /\ p \in Nat /\ q \in Nat \ {0}
      /\ \A a \in 0 .. lon : a * p \in 0 .. w * q
      /\ \A b \in 0 .. lat : b * p \in 0 .. h * q
      /\ lon # 0 \/ lat # 0 => lon * p = w * q \/ lat * p = h * q
  BY <1>7, ZoomFits
<1>9. GetZoomCoef(bounds) = <<p, q>>
  BY <1>2, <1>5, <1>6, <1>7 DEF GetZoomCoef
<1>10. GetPoint(s) = [x |-> (x - min_lon) * p + pad * q, y |-> (max_lat - y) * p + pad * q]
  BY <1>2, <1>3, <1>6, <1>9 DEF GetPoint
<1>11. /\ LeftEdge = pad * q /\ Denominator = q
       /\ RightEdge = w * q + pad * q /\ BottomEdge = h * q + pad * q
  <2>1. Width - Padding = w + pad /\ Height - Padding = h + pad
    BY <1>6
  <2>2. (w + pad) * q = w * q + pad * q /\ (h + pad) * q = h * q + pad * q
    BY <1>8
  <2> QED
    BY <1>6, <1>9, <2>1, <2>2 DEF LeftEdge, RightEdge, BottomEdge, Denominator
<1>12. PICK a \in 0 .. lon, b \in 0 .. lat : a = x - min_lon /\ b = max_lat - y
  BY <1>4, <1>5
<1>13. a * p \in 0 .. w * q /\ b * p \in 0 .. h * q
  BY <1>8, <1>12
<1>14. PICK ap \in Nat, bp \in Nat, wq \in Nat, hq \in Nat, pq \in Nat :
         ap = a * p /\ bp = b * p /\ wq = w * q /\ hq = h * q /\ pq = pad * q
  BY <1>6, <1>8, <1>12, <1>13
<1>15. /\ GetPoint(s) = [x |-> ap + pq, y |-> bp + pq]
       /\ ap <= wq /\ bp <= hq
  BY <1>10, <1>12, <1>13, <1>14
<1>16. ap + pq \in pq .. wq + pq /\ bp + pq \in pq .. hq + pq
  BY <1>15
<1>17. x = min_lon => ap = 0
  <2>1. 0 * p = 0
    BY <1>8
  <2> QED
    BY <1>12, <1>14, <2>1
<1>18. y = max_lat => bp = 0
  <2>1. 0 * p = 0
    BY <1>8
  <2> QED
    BY <1>12, <1>14, <2>1
<1>19. x = max_lon => ap = lon * p
  BY <1>5, <1>12, <1>14
<1>20. y = min_lat => bp = lat * p
  BY <1>5, <1>12, <1>14
<1>21. lon # 0 \/ lat # 0 => lon * p + pq = wq + pq \/ lat * p + pq = hq + pq
  BY <1>8, <1>14
<1>22. lon = 0 /\ lat = 0 => GetPoint(s) = [x |-> pq, y |-> pq]
  <2>1. lon = 0 /\ lat = 0 => x = min_lon /\ y = max_lat
    BY <1>12
  <2> QED
    BY <1>15, <1>17, <1>18, <2>1
<1>23. /\ GetPoint(s).x = ap + pq /\ GetPoint(s).y = bp + pq
       /\ LeftEdge = pq /\ RightEdge = wq + pq /\ BottomEdge = hq + pq
       /\ GetZoomCoef(bounds)[1] = p
  BY <1>9, <1>11, <1>14, <1>15
<1> QED
  BY <1>2, <1>3, <1>5, <1>8, <1>11, <1>16, <1>17, <1>18, <1>19, <1>20, <1>21, <1>22, <1>23

\* All that is drawn is drawn at stops of the map.
LEMMA PointsOfStops ==
    ASSUME MapInv
    PROVE  Points \subseteq {GetPoint(s) : s \in ToSet(MapStops)}
<1>1. db \in Catalogues /\ doc \in Seq(Entries)
  BY Shown
<1>2. MapStops \in Seq(StopName)
  BY <1>1, StopsToDraw
<1>3. ASSUME NEW n \in 1 .. Len(MapBuses), IsRouted(n)
      PROVE  /\ ToSet(MapBuses[n].route) \subseteq ToSet(MapStops)
             /\ Ends(MapBuses[n]) \subseteq ToSet(MapStops)
  <2>1. ToSet(MapBuses[n].route) \subseteq ToSet(MapStops)
    BY <1>1, StopsToDraw
  <2>2. Ends(MapBuses[n]) \subseteq ToSet(MapBuses[n].route)
    BY <1>1, <1>3, BusesHaveEnds DEF IsRouted
  <2> QED
    BY <2>1, <2>2
<1>4. PICK P : P = {GetPoint(s) : s \in ToSet(MapStops)}
  OBVIOUS
<1>5. \A n \in 1 .. Len(MapBuses) : IsRouted(n) => ToSet(LineOf(n).points) \subseteq P
  <2> SUFFICES ASSUME NEW n \in 1 .. Len(MapBuses), IsRouted(n)
               PROVE  ToSet(LineOf(n).points) \subseteq P
    OBVIOUS
  <2>1. LineOf(n).points = [k \in DOMAIN MapBuses[n].route |-> GetPoint(MapBuses[n].route[k])]
    BY DEF LineOf
  <2>2. \A k \in DOMAIN MapBuses[n].route : MapBuses[n].route[k] \in ToSet(MapStops)
    BY <1>3 DEF ToSet
  <2>3. \A k \in DOMAIN MapBuses[n].route : GetPoint(MapBuses[n].route[k]) \in P
    BY <1>4, <2>2
  <2> QED
    BY <2>1, <2>3 DEF ToSet
<1>6. \A n \in 1 .. Len(MapBuses) : \A what : IsRouted(n) =>
        \A s \in Ends(MapBuses[n]) : ToSet(LabelOf(n, s, what).points) \subseteq P
  <2> SUFFICES ASSUME NEW n \in 1 .. Len(MapBuses), NEW what, IsRouted(n), NEW s \in Ends(MapBuses[n])
               PROVE  ToSet(LabelOf(n, s, what).points) \subseteq P
    OBVIOUS
  <2>1. LabelOf(n, s, what).points = <<GetPoint(s)>>
    BY DEF LabelOf
  <2>2. GetPoint(s) \in P
    BY <1>3, <1>4
  <2> QED
    BY <2>1, <2>2 DEF ToSet
<1>7. \A n \in 1 .. Len(MapStops) : \A what : ToSet(MarkOf(n, what).points) \subseteq P
  <2> SUFFICES ASSUME NEW n \in 1 .. Len(MapStops), NEW what
               PROVE  ToSet(MarkOf(n, what).points) \subseteq P
    OBVIOUS
  <2>1. MarkOf(n, what).points = <<GetPoint(MapStops[n])>>
    BY DEF MarkOf, GetStopLabel
  <2>2. MapStops[n] \in ToSet(MapStops)
    BY <1>2 DEF ToSet
  <2>3. GetPoint(MapStops[n]) \in P
    BY <1>4, <2>2
  <2> QED
    BY <2>1, <2>3 DEF ToSet
<1>8. \A x \in Entries : ToSet(x.points) \subseteq P
  <2> SUFFICES ASSUME NEW x \in Entries PROVE ToSet(x.points) \subseteq P
    OBVIOUS
  <2>1. CASE x \in Lines(Len(MapBuses))
    BY <1>5, <2>1 DEF Lines
  <2>2. CASE x \in Labels(Len(MapBuses), "background")
    BY <1>6, <2>2 DEF Labels, LabelsOf
  <2>3. CASE x \in Labels(Len(MapBuses), "name")
    BY <1>6, <2>3 DEF Labels, LabelsOf
  <2>4. CASE \E what : x \in Marks(Len(MapStops), what)
    BY <1>7, <2>4 DEF Marks
  <2> QED
    BY <2>1, <2>2, <2>3, <2>4 DEF Entries
<1>9. \A n \in DOMAIN doc : doc[n] \in Entries
  BY <1>1
<1> QED
  BY <1>4, <1>8, <1>9 DEF Points

\* Nothing is drawn before the bounds are taken.
LEMMA PointsNeedBounds ==
    ASSUME MapInv, Points # {}
    PROVE  db \in Catalogues /\ bounds = Extent
<1>1. doc # <<>>
  BY DEF Points
<1> QED
  BY <1>1 DEF MapInv, Progress

\* Every point is inside the frame.
LEMMA MapInvOnCanvas == MapInv => OnCanvas
<1> SUFFICES ASSUME MapInv, NEW p \in Points
             PROVE  p.x \in LeftEdge .. RightEdge /\ p.y \in LeftEdge .. BottomEdge
  BY DEF OnCanvas
<1>1. PICK s \in ToSet(MapStops) : p = GetPoint(s)
  BY PointsOfStops
<1>2. db \in Catalogues /\ bounds = Extent
  BY PointsNeedBounds
<1> QED
  BY <1>1, <1>2, PointFits

\* Wherever the stops are and whatever the canvas, nothing is drawn outside of
\* the frame that the padding leaves.
THEOREM AlwaysOnCanvas == Spec => []OnCanvas
  BY MapInvInit, MapInvNext, MapInvOnCanvas, PTL DEF Spec

\* A finished map touches the frame.
LEMMA MapInvFills == MapInv => FillsFrame
<1> SUFFICES ASSUME MapInv, layer = "done", MapStops # <<>>
             PROVE  /\ \E p \in Points : p.x = LeftEdge
                    /\ (\E s \in ToSet(MapStops) : Latitude(s) >= 0) =>
                         \E p \in Points : p.y = LeftEdge
                    /\ /\ \E s \in ToSet(MapStops) : Latitude(s) >= 0
                       /\ \E s \in ToSet(MapStops) : Longitude(s) >= 0
                       /\ Cardinality(Points) > 1
                       => \E p \in Points : p.x = RightEdge \/ p.y = BottomEdge
  BY DEF FillsFrame
<1>1. db \in Catalogues /\ bounds = Extent
  BY DEF MapInv
<1>2. ASSUME NEW s \in ToSet(MapStops) PROVE GetPoint(s) \in Points
  <2>1. PICK n \in 1 .. Len(MapStops) : s = MapStops[n]
    BY <1>1, StopsToDraw DEF ToSet
  <2>2. MarkOf(n, "circle") \in Marks(Len(MapStops), "circle")
    BY DEF Marks
  <2>3. PICK i \in Drawn("circle") : doc[i] = MarkOf(n, "circle")
    BY <2>2, ShownStops
  <2>4. doc[i].points = <<GetPoint(s)>> /\ i \in DOMAIN doc
    BY <2>1, <2>3 DEF MarkOf, GetStopLabel, Drawn
  <2>5. GetPoint(s) \in ToSet(doc[i].points)
    BY <2>4 DEF ToSet
  <2> QED
    BY <2>4, <2>5 DEF Points
<1>3. \E p \in Points : p.x = LeftEdge
  <2>1. PICK s \in ToSet(MapStops) : Longitude(s) = bounds.min_lon
    BY <1>1, ExtentEncloses
  <2>2. GetPoint(s).x = LeftEdge
    BY <1>1, <2>1, PointFits
  <2> QED
    BY <1>2, <2>2
<1>4. ASSUME \E s \in ToSet(MapStops) : Latitude(s) >= 0
      PROVE  \E p \in Points : p.y = LeftEdge
  <2>1. PICK s \in ToSet(MapStops) : Latitude(s) = bounds.max_lat
    BY <1>1, <1>4, ExtentEncloses
  <2>2. GetPoint(s).y = LeftEdge
    BY <1>1, <2>1, PointFits
  <2> QED
    BY <1>2, <2>2
<1>5. ASSUME \E s \in ToSet(MapStops) : Latitude(s) >= 0,
             \E s \in ToSet(MapStops) : Longitude(s) >= 0,
             Cardinality(Points) > 1
      PROVE  \E p \in Points : p.x = RightEdge \/ p.y = BottomEdge
  <2>1. PICK lon, lat, zoom : /\ lon = bounds.max_lon - bounds.min_lon
                              /\ lat = bounds.max_lat - bounds.min_lat
                              /\ zoom = GetZoomCoef(bounds)[1]
    OBVIOUS
  <2>2. PICK e \in ToSet(MapStops) : Longitude(e) = bounds.max_lon
    BY <1>1, <1>5, ExtentEncloses
  <2>3. PICK f \in ToSet(MapStops) : Latitude(f) = bounds.min_lat
    BY <1>1, ExtentEncloses
  <2>4. /\ GetPoint(e).x = lon * zoom + LeftEdge
        /\ lon # 0 \/ lat # 0 =>
             lon * zoom + LeftEdge = RightEdge \/ lat * zoom + LeftEdge = BottomEdge
    BY <1>1, <2>1, <2>2, PointFits
  <2>5. GetPoint(f).y = lat * zoom + LeftEdge
    BY <1>1, <2>1, <2>3, PointFits
  <2>6. lon # 0 \/ lat # 0
    <3> SUFFICES ASSUME lon = 0, lat = 0 PROVE FALSE
      OBVIOUS
    <3>1. PICK q : q = [x |-> LeftEdge, y |-> LeftEdge]
      OBVIOUS
    <3>2. \A s \in ToSet(MapStops) : GetPoint(s) = q
      BY <1>1, <2>1, <3>1, PointFits
    <3>3. Points \subseteq {q}
      BY <3>2, PointsOfStops
    <3>4. Points = {q}
      BY <1>3, <3>3
    <3>5. Cardinality(Points) = 1
      BY <3>4, FS_Singleton
    <3> QED
      BY <1>5, <3>5
  <2> QED
    BY <1>2, <2>4, <2>5, <2>6
<1> QED
  BY <1>3, <1>4, <1>5

\* For every catalogue and canvas, a finished map is as large as the frame
\* allows, the equator and Greenwich being taken for parts of it.
THEOREM AlwaysFillsFrame == Spec => []FillsFrame
  BY MapInvInit, MapInvNext, MapInvFills, PTL DEF Spec

=============================================================================
