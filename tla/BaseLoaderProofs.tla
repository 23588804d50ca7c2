-------------------------- MODULE BaseLoaderProofs --------------------------
(***************************************************************************)
(* Proofs about BaseLoader: for every document, every set of names and     *)
(* every order of the hash map, the index of buses mirrors the routes and  *)
(* the routes are well-formed, at every moment of the loading; what is     *)
(* loaded is what the later components assume of a catalogue, and it is    *)
(* what the document declares.                                             *)
(***************************************************************************)
EXTENDS BaseLoader, CatalogueProofs

-----------------------------------------------------------------------------
(* Sequences *)

\* There and back: the turning point is in the middle.
LEMMA ThereAndBack ==
    ASSUME NEW S, NEW r \in Seq(S), r # <<>>
    PROVE  LET t == r \o WayBack(r)
               k == Len(r)
           IN  /\ t \in Seq(S) /\ k \in Nat \ {0}
               /\ Len(t) = 2 * k - 1
               /\ \A i \in 1 .. 2 * k - 1 : t[i] = IF i <= k THEN r[i] ELSE r[2 * k - i]
<1> DEFINE k == Len(r)
           rev == Reverse(r)
           back == Tail(rev)
<1>1. k \in Nat \ {0} /\ \A i \in 1 .. k : r[i] \in S
  OBVIOUS
<1>2. /\ rev \in Seq(S) /\ Len(rev) = k
      /\ \A i \in 1 .. k : rev[i] = r[(k - i) + 1]
  BY <1>1 DEF Reverse
<1>3. rev # <<>>
  BY <1>1, <1>2
<1>4. /\ back \in Seq(S) /\ Len(back) = k - 1
      /\ \A i \in 1 .. k - 1 : back[i] = rev[i + 1]
  BY <1>1, <1>2, <1>3, HeadTailProperties
<1>5. \A i \in 1 .. k - 1 : back[i] = r[k - i]
  BY <1>1, <1>2, <1>4
<1>6. WayBack(r) = back
  BY DEF WayBack
<1>7. /\ r \o back \in Seq(S) /\ Len(r \o back) = 2 * k - 1
      /\ \A i \in 1 .. 2 * k - 1 : (r \o back)[i] = IF i <= k THEN r[i] ELSE back[i - k]
  <2> HIDE DEF back, k
  <2>1. k = Len(r)
    BY DEF k
  <2>2. /\ r \o back \in Seq(S) /\ Len(r \o back) = k + (k - 1)
        /\ \A i \in 1 .. k + (k - 1) :
               (r \o back)[i] = IF i <= k THEN r[i] ELSE back[i - k]
    BY <1>4, <2>1, ConcatProperties
  <2>3. k + (k - 1) = 2 * k - 1
    BY <1>1
  <2> QED
    BY <2>2, <2>3
<1>8. \A i \in 1 .. 2 * k - 1 : i > k => back[i - k] = r[2 * k - i]
  <2> SUFFICES ASSUME NEW i \in 1 .. 2 * k - 1, i > k PROVE back[i - k] = r[2 * k - i]
    OBVIOUS
  <2> HIDE DEF back
  <2>1. i - k \in 1 .. k - 1 /\ k - (i - k) = 2 * k - i
    BY <1>1
  <2>2. back[i - k] = r[k - (i - k)]
    BY <1>5, <2>1
  <2> QED
    BY <2>1, <2>2
<1>9. r \o WayBack(r) = r \o back
  BY <1>6
<1> HIDE DEF back
<1> QED
  BY <1>1, <1>7, <1>8, <1>9

\* A route that goes there and back calls at the stops it was declared with,
\* reads the same both ways and turns at the last of them.
LEMMA ThereAndBackSame ==
    ASSUME NEW S, NEW r \in Seq(S), r # <<>>
    PROVE  LET t == r \o WayBack(r) IN
           /\ ToSet(t) = ToSet(r)
           /\ Len(t) % 2 = 1
           /\ t = Reverse(t)
           /\ t[Len(t) \div 2 + 1] = Last(r)
<1> DEFINE t == r \o WayBack(r)
           k == Len(r)
<1>1. /\ t \in Seq(S) /\ k \in Nat \ {0} /\ Len(t) = 2 * k - 1
      /\ \A i \in 1 .. 2 * k - 1 : t[i] = IF i <= k THEN r[i] ELSE r[2 * k - i]
  BY ThereAndBack
<1> HIDE DEF t
<1>2. DOMAIN t = 1 .. 2 * k - 1 /\ DOMAIN r = 1 .. k
  BY <1>1
<1>3. ToSet(t) \subseteq ToSet(r)
  <2> SUFFICES ASSUME NEW i \in 1 .. 2 * k - 1 PROVE t[i] \in ToSet(r)
    BY <1>2 DEF ToSet
  <2>0. \A j \in 1 .. k : r[j] \in ToSet(r)
    BY <1>2 DEF ToSet
  <2> HIDE DEF k
  <2>1. CASE i <= k
    <3>1. i \in 1 .. k /\ t[i] = r[i]
      BY <1>1, <2>1
    <3> QED
      BY <2>0, <3>1
  <2>2. CASE i > k
    <3>1. 2 * k - i \in 1 .. k /\ t[i] = r[2 * k - i]
      BY <1>1, <2>2
    <3> QED
      BY <2>0, <3>1
  <2> QED
    BY <1>1, <2>1, <2>2
<1>4. ToSet(r) \subseteq ToSet(t)
  <2>1. \A i \in 1 .. k : i \in 1 .. 2 * k - 1 /\ i <= k
    BY <1>1
  <2> QED
    BY <1>1, <1>2, <2>1 DEF ToSet
<1>5. Len(t) % 2 = 1 /\ Len(t) \div 2 + 1 = k
  BY <1>1
<1>6. t[k] = Last(r)
  BY <1>1 DEF Last
<1>7. t = Reverse(t)
  <2>1. \A i \in 1 .. 2 * k - 1 : t[i] = t[(2 * k - 1 - i) + 1]
    <3> SUFFICES ASSUME NEW i \in 1 .. 2 * k - 1 PROVE t[i] = t[(2 * k - 1 - i) + 1]
      OBVIOUS
    <3>1. (2 * k - 1 - i) + 1 = 2 * k - i /\ 2 * k - i \in 1 .. 2 * k - 1
      BY <1>1
    <3>2. CASE i < k
      <4>1. ~(2 * k - i <= k) /\ 2 * k - (2 * k - i) = i /\ i <= k
        BY <1>1, <3>2
      <4> QED
        BY <1>1, <3>1, <4>1
    <3>3. CASE i = k
      BY <1>1, <3>1, <3>3
    <3>4. CASE i > k
      <4>1. 2 * k - i <= k /\ ~(i <= k)
        BY <1>1, <3>4
      <4> QED
        BY <1>1, <3>1, <4>1
    <3> QED
      BY <1>1, <3>2, <3>3, <3>4
  <2>2. t = [i \in 1 .. 2 * k - 1 |-> t[i]]
    BY <1>1
  <2>3. Reverse(t) = [i \in 1 .. 2 * k - 1 |-> t[(2 * k - 1 - i) + 1]]
    BY <1>1 DEF Reverse
  <2> QED
    BY <2>1, <2>2, <2>3
<1> QED
  BY <1>3, <1>4, <1>5, <1>6, <1>7 DEF t

-----------------------------------------------------------------------------
(* The catalogue *)

\* The two invariants of the stored buses, of any catalogue.
Callers(d, s) == {d.buses[k].name : k \in {m \in DOMAIN d.buses : s \in ToSet(d.buses[m].route)}}
Mirrors(d) ==
    \A s \in StopName :
        d.buses_for_stop[s] = IF s \in StopNames(d) THEN Callers(d, s) ELSE NoEntry

WellFormed(d, bus) ==
    /\ ToSet(bus.route) \subseteq StopNames(d)
    /\ bus.unique_stops = Cardinality(ToSet(bus.route))
    /\ bus.start_stop # NoStop => Len(bus.route) > 0 /\ bus.start_stop = bus.route[1]
    /\ ~bus.is_roundtrip /\ Len(bus.route) > 0 =>
          /\ Len(bus.route) % 2 = 1
          /\ bus.route = Reverse(bus.route)
          /\ bus.end_stop \in {NoStop, bus.route[Len(bus.route) \div 2 + 1]}

\* The two properties, said of a catalogue and bus by bus.
LEMMA SameInvariants == /\ IndexMirrorsRoutes <=> Mirrors(db)
                        /\ RoutesWellFormed <=> \A k \in DOMAIN db.buses : WellFormed(db, db.buses[k])
  BY DEF IndexMirrorsRoutes, RoutesWellFormed, Mirrors, WellFormed, Callers

\* They depend on nothing but the stops, the buses and the index.
LEMMA SameContents ==
    ASSUME NEW d, NEW e, e.stops = d.stops, e.buses = d.buses,
           e.buses_for_stop = d.buses_for_stop
    PROVE  /\ StopNames(e) = StopNames(d)
           /\ Mirrors(d) => Mirrors(e)
           /\ \A bus : WellFormed(d, bus) => WellFormed(e, bus)
<1>1. StopNames(e) = StopNames(d)
  BY DEF StopNames
<1> QED
  BY <1>1 DEF Mirrors, WellFormed, Callers

\* A stop is a key of the index as soon as it is stored.
LEMMA StopAdded ==
    ASSUME NEW d \in Catalogue, NEW stop \in Stop, d.buses = <<>>, Mirrors(d)
    PROVE  LET e == AddStop(d, stop)
           IN  /\ e \in Catalogue /\ e.buses = <<>> /\ Mirrors(e)
               /\ StopNames(e) = StopNames(d) \cup {stop.name}
               /\ e.distances = d.distances /\ e.edges_to_buses = d.edges_to_buses
<1> DEFINE e == AddStop(d, stop)
<1>1. CASE stop.name \in StopNames(d)
  <2>1. e = d
    BY <1>1 DEF AddStop
  <2>2. StopNames(d) = StopNames(d) \cup {stop.name}
    BY <1>1
  <2> QED
    BY <2>1, <2>2
<1>2. CASE stop.name \notin StopNames(d)
  <2>0. stop.name \in StopName
    BY DEF Stop
  <2>1. e = [d EXCEPT !.stops = Append(@, stop), !.buses_for_stop[stop.name] = {}]
    BY <1>2 DEF AddStop
  <2>2. /\ e.stops = Append(d.stops, stop)
        /\ e.buses_for_stop = [d.buses_for_stop EXCEPT ![stop.name] = {}]
        /\ e.buses = <<>> /\ e.distances = d.distances
        /\ e.edges_to_buses = d.edges_to_buses
        /\ e = [stops |-> e.stops, buses |-> e.buses, buses_for_stop |-> e.buses_for_stop,
                distances |-> e.distances, edges_to_buses |-> e.edges_to_buses]
    BY <2>1 DEF Catalogue
  <2> HIDE DEF e
  <2>3. /\ e.stops \in Seq(Stop) /\ DOMAIN e.stops = DOMAIN d.stops \cup {Len(d.stops) + 1}
        /\ DOMAIN d.stops = 1 .. Len(d.stops)
        /\ \A n \in DOMAIN d.stops : e.stops[n] = d.stops[n]
        /\ e.stops[Len(d.stops) + 1] = stop
    BY <2>2, CatalogueFields, Appended
  <2>4. e.buses_for_stop \in [StopName -> {NoEntry} \cup SUBSET BusName]
    <3>1. d.buses_for_stop \in [StopName -> {NoEntry} \cup SUBSET BusName]
      BY CatalogueFields
    <3>2. {} \in {NoEntry} \cup SUBSET BusName
      OBVIOUS
    <3> QED
      BY <2>0, <2>2, <3>1, <3>2
  <2>5. e \in Catalogue
    BY <2>2, <2>3, <2>4, CatalogueFields DEF Catalogue
  <2>6. StopNames(e) = StopNames(d) \cup {stop.name}
    BY <2>3 DEF StopNames
  <2>7. \A s \in StopName : Callers(d, s) = {} /\ Callers(e, s) = {}
    BY <2>2 DEF Callers
  <2>8. \A s \in StopName :
          e.buses_for_stop[s] = IF s = stop.name THEN {} ELSE d.buses_for_stop[s]
    BY <2>2, CatalogueFields
  <2>9. Mirrors(e)
    BY <2>6, <2>7, <2>8 DEF Mirrors
  <2> QED
    BY <2>2, <2>5, <2>6, <2>9 DEF e
<1> QED
  BY <1>1, <1>2

\* SetDistance adds a distance that is not there yet and touches nothing else.
LEMMA DistanceSet ==
    ASSUME NEW d \in Catalogue, NEW a \in StopPtr, NEW b \in StopPtr, NEW n \in Int
    PROVE  LET e == SetDistance(d, a, b, n)
           IN  /\ e \in Catalogue /\ e.stops = d.stops /\ e.buses = d.buses
               /\ e.buses_for_stop = d.buses_for_stop
               /\ e.edges_to_buses = d.edges_to_buses
               /\ e.distances = IF d.distances[<<a, b>>] = NoEntry
                                THEN [d.distances EXCEPT ![<<a, b>>] = n] ELSE d.distances
<1>1. <<a, b>> \in StopPair
  BY DEF StopPair
<1>2. [d EXCEPT !.distances[<<a, b>>] = n] \in Catalogue
  BY <1>1 DEF Catalogue
<1> QED
  BY <1>2 DEF SetDistance, Catalogue

\* The index takes a stored bus at all its stops.
LEMMA BusAdded ==
    ASSUME NEW d \in Catalogue, NEW bus \in Bus, Mirrors(d), WellFormed(d, bus),
           \A k \in DOMAIN d.buses : WellFormed(d, d.buses[k])
    PROVE  LET e == AddBus(d, bus)
           IN  /\ e \in Catalogue /\ e.stops = d.stops /\ Mirrors(e)
               /\ e.distances = d.distances /\ e.edges_to_buses = d.edges_to_buses
               /\ e.buses = IF bus.name \in BusNames(d) THEN d.buses ELSE Append(d.buses, bus)
               /\ \A k \in DOMAIN e.buses : WellFormed(e, e.buses[k])
<1> DEFINE e == AddBus(d, bus)
<1>1. CASE bus.name \in BusNames(d)
  <2>1. e = d
    BY <1>1 DEF AddBus
  <2> QED
    BY <1>1, <2>1
<1>2. CASE bus.name \notin BusNames(d)
  <2>1. e = [d EXCEPT !.buses = Append(@, bus), !.buses_for_stop = IndexBus(@, bus)]
    BY <1>2 DEF AddBus
  <2>2. /\ e.buses = Append(d.buses, bus)
        /\ e.buses_for_stop = IndexBus(d.buses_for_stop, bus)
        /\ e.stops = d.stops /\ e.distances = d.distances
        /\ e.edges_to_buses = d.edges_to_buses
        /\ e = [stops |-> e.stops, buses |-> e.buses, buses_for_stop |-> e.buses_for_stop,
                distances |-> e.distances, edges_to_buses |-> e.edges_to_buses]
    BY <2>1 DEF Catalogue
  <2> HIDE DEF e
  <2>3. /\ e.buses \in Seq(Bus) /\ DOMAIN e.buses = DOMAIN d.buses \cup {Len(d.buses) + 1}
        /\ DOMAIN d.buses = 1 .. Len(d.buses) /\ Len(d.buses) \in Nat
        /\ \A n \in DOMAIN d.buses : e.buses[n] = d.buses[n]
        /\ e.buses[Len(d.buses) + 1] = bus
    BY <2>2, CatalogueFields, Appended
  <2>4. StopNames(e) = StopNames(d)
    BY <2>2 DEF StopNames
  <2>5. \A k \in DOMAIN e.buses : WellFormed(e, e.buses[k])
    BY <2>3, <2>4 DEF WellFormed
  <2>6. \A s \in StopName :
          Callers(e, s) = IF s \in ToSet(bus.route) THEN Callers(d, s) \cup {bus.name}
                          ELSE Callers(d, s)
    BY <2>3 DEF Callers
  <2>7. \A s \in StopName : s \in StopNames(d) => d.buses_for_stop[s] \in SUBSET BusName
    <3> SUFFICES ASSUME NEW s \in StopName, s \in StopNames(d)
                 PROVE  d.buses_for_stop[s] \in SUBSET BusName
      OBVIOUS
    <3>1. d.buses_for_stop[s] = Callers(d, s)
      BY DEF Mirrors
    <3>2. \A k \in DOMAIN d.buses : d.buses[k] \in Bus
      BY CatalogueFields
    <3>3. \A k \in DOMAIN d.buses : d.buses[k].name \in BusName
      BY <3>2 DEF Bus
    <3> QED
      BY <3>1, <3>3 DEF Callers
  <2>8. \A s \in StopName :
          e.buses_for_stop[s] = IF s \in ToSet(bus.route) THEN d.buses_for_stop[s] \cup {bus.name}
                                ELSE d.buses_for_stop[s]
    <3> SUFFICES ASSUME NEW s \in StopName
                 PROVE  e.buses_for_stop[s] =
                          IF s \in ToSet(bus.route) THEN d.buses_for_stop[s] \cup {bus.name}
                          ELSE d.buses_for_stop[s]
      OBVIOUS
    <3>1. s \in ToSet(bus.route) => d.buses_for_stop[s] # NoEntry
      BY <2>7, NoEntryAssumption DEF WellFormed
    <3>2. e.buses_for_stop[s] = IF s \in ToSet(bus.route) THEN InsertBus(d.buses_for_stop, s, bus.name)
                                ELSE d.buses_for_stop[s]
      BY <2>2 DEF IndexBus
    <3> QED
      BY <3>1, <3>2 DEF InsertBus
  <2>9. Mirrors(e)
    <3>1. \A s \in ToSet(bus.route) : s \in StopNames(e)
      BY <2>4 DEF WellFormed
    <3> QED
      BY <2>4, <2>6, <2>8, <3>1 DEF Mirrors
  <2>10. e.buses_for_stop \in [StopName -> {NoEntry} \cup SUBSET BusName]
    <3>1. bus.name \in BusName
      BY DEF Bus
    <3>2. \A s \in StopName : e.buses_for_stop[s] \in {NoEntry} \cup SUBSET BusName
      <4> SUFFICES ASSUME NEW s \in StopName
                   PROVE  e.buses_for_stop[s] \in {NoEntry} \cup SUBSET BusName
        OBVIOUS
      <4>1. CASE s \in ToSet(bus.route)
        <5>1. s \in StopNames(d)
          BY <4>1 DEF WellFormed
        <5> QED
          BY <2>7, <2>8, <3>1, <4>1, <5>1
      <4>2. CASE s \notin ToSet(bus.route)
        BY <2>8, <4>2, CatalogueFields
      <4> QED
        BY <4>1, <4>2
    <3>3. e.buses_for_stop = [s \in StopName |-> e.buses_for_stop[s]]
      BY <2>2 DEF IndexBus
    <3> QED
      BY <3>2, <3>3
  <2>11. e \in Catalogue
    BY <2>2, <2>3, <2>10, CatalogueFields DEF Catalogue
  <2> QED
    BY <1>2, <2>2, <2>5, <2>9, <2>11 DEF e
<1> QED
  BY <1>1, <1>2

-----------------------------------------------------------------------------
(* The requests and the initial state *)

\* What the fields of a request are.
LEMMA RequestFields ==
    ASSUME NEW r \in Request
    PROVE  /\ r.type = "Stop" => /\ [name |-> r.name, at |-> r.at] \in Stop
                                 /\ r.name \in StopName /\ r.road_distances \in RoadDistances
           /\ r.type = "Bus" => r \in BusRequest
<1>1. r.type = "Stop" => r \in StopRequest
  BY DEF Request, StopRequest, BusRequest, OtherRequest
<1>2. r.type = "Bus" => r \in BusRequest
  BY DEF Request, StopRequest, BusRequest, OtherRequest
<1> QED
  BY <1>1, <1>2 DEF StopRequest, Stop

\* A catalogue that nothing was added to.
LEMMA EmptyBase ==
    /\ EmptyCatalogue \in Catalogue /\ EmptyCatalogue.buses = <<>> /\ Mirrors(EmptyCatalogue)
<1>1. /\ EmptyCatalogue.stops = <<>> /\ EmptyCatalogue.buses = <<>>
      /\ \A s \in StopName : EmptyCatalogue.buses_for_stop[s] = NoEntry
  BY DEF EmptyCatalogue
<1>2. StopNames(EmptyCatalogue) = {}
  BY <1>1 DEF StopNames
<1>3. EmptyCatalogue \in Catalogue
  BY DEF EmptyCatalogue, Catalogue
<1> QED
  BY <1>1, <1>2, <1>3 DEF Mirrors

\* ParseBaseRequests begins with an empty catalogue and the first request.
LEMMA InitInv == Init => LoaderInv
<1> SUFFICES ASSUME Init PROVE LoaderInv
  OBVIOUS
<1>1. /\ requests \in Seq(Request) /\ db \in Catalogue /\ db.buses = <<>> /\ Mirrors(db)
  BY RequestListsAssumption, EmptyBase DEF Init
<1>2. 1 \in 1 .. Len(requests) + 1
  BY <1>1
<1>3. TypeOK
  BY <1>1, <1>2 DEF Init, TypeOK, StopPtr
<1>4. LoopInv
  BY <1>1 DEF Init, LoopInv, ToSet
<1> QED
  BY <1>1, <1>3, <1>4, SameInvariants DEF LoaderInv, RoutesWellFormed

-----------------------------------------------------------------------------
(* The steps *)

\* The invariant after a step, in the terms of the lemmas above.
LEMMA InvAfter ==
    ASSUME TypeOK', LoopInv', Mirrors(db'),
           \A k \in DOMAIN db'.buses : WellFormed(db', db'.buses[k])
    PROVE  LoaderInv'
  BY DEF LoaderInv, IndexMirrorsRoutes, RoutesWellFormed, Mirrors, WellFormed, Callers

\* And before it.
LEMMA InvBefore ==
    ASSUME LoaderInv
    PROVE  /\ TypeOK /\ LoopInv /\ Mirrors(db)
           /\ \A k \in DOMAIN db.buses : WellFormed(db, db.buses[k])
           /\ db \in Catalogue /\ StopNames(db) \subseteq StopName
  BY SameInvariants, CatalogueFields DEF LoaderInv, TypeOK

\* A new stop has no buses; a second one of its name changes nothing.
LEMMA ReadStopInv == LoaderInv /\ ReadStop => LoaderInv'
<1> SUFFICES ASSUME LoaderInv, ReadStop PROVE LoaderInv'
  OBVIOUS
<1> DEFINE r == requests[next]
           stop == [name |-> r.name, at |-> r.at]
<1>1. /\ TypeOK /\ LoopInv /\ Mirrors(db) /\ db \in Catalogue
      /\ phase = "read" /\ next <= Len(requests) /\ r.type = "Stop"
      /\ next' = next + 1 /\ UNCHANGED <<requests, phase, from, node, route, bus_queries>>
      /\ db' = AddStop(db, stop)
      /\ distances_for_stop' =
             [distances_for_stop EXCEPT ![r.name] = IF @ = NoEntry THEN r.road_distances ELSE @]
  BY InvBefore DEF ReadStop, Reading, loops
<1>2. r \in Request
  BY <1>1 DEF TypeOK
<1>3. stop \in Stop /\ r.name \in StopName /\ r.road_distances \in RoadDistances
  BY <1>1, <1>2, RequestFields
<1>4. db.buses = <<>> /\ node = 1 /\ route = <<>>
  BY <1>1 DEF LoopInv
<1>5. db' \in Catalogue /\ db'.buses = <<>> /\ Mirrors(db')
  BY <1>1, <1>3, <1>4, StopAdded
<1> HIDE DEF r, stop
<1>6. /\ distances_for_stop' \in [StopName -> {NoEntry} \cup RoadDistances]
      /\ from # NoStop => distances_for_stop'[from] # NoEntry
  BY <1>1, <1>3, RoadDistancesAssumption DEF TypeOK, StopPtr
<1>7. next' \in 1 .. Len(requests) + 1
  BY <1>1 DEF TypeOK
<1>8. TypeOK'
  BY <1>1, <1>5, <1>6, <1>7 DEF TypeOK
<1>9. LoopInv'
  BY <1>1, <1>4, <1>5 DEF LoopInv, ToSet
<1> QED
  BY <1>5, <1>8, <1>9, InvAfter

\* A bus is only put aside.
LEMMA ReadBusInv == LoaderInv /\ ReadBus => LoaderInv'
<1> SUFFICES ASSUME LoaderInv, ReadBus PROVE LoaderInv'
  OBVIOUS
<1>1. /\ TypeOK /\ LoopInv /\ Mirrors(db)
      /\ \A k \in DOMAIN db.buses : WellFormed(db, db.buses[k])
      /\ phase = "read" /\ next <= Len(requests) /\ requests[next].type = "Bus"
      /\ next' = next + 1 /\ db' = db
      /\ UNCHANGED <<requests, phase, from, node, route, distances_for_stop>>
      /\ bus_queries' = Append(bus_queries, requests[next])
  BY InvBefore DEF ReadBus, Reading, loops
<1>2. requests[next] \in BusRequest
  <2>1. requests[next] \in Request
    BY <1>1 DEF TypeOK
  <2> QED
    BY <1>1, <2>1, RequestFields
<1>3. next' \in 1 .. Len(requests) + 1 /\ bus_queries' \in Seq(BusRequest)
  BY <1>1, <1>2 DEF TypeOK
<1>4. TypeOK'
  BY <1>1, <1>3 DEF TypeOK
<1>5. LoopInv'
  BY <1>1 DEF LoopInv
<1> QED
  BY <1>1, <1>4, <1>5, InvAfter

\* Steps that leave the catalogue alone and turn to another loop.
LEMMA ReadOtherInv == LoaderInv /\ ReadOther => LoaderInv'
<1> SUFFICES ASSUME LoaderInv, ReadOther PROVE LoaderInv'
  OBVIOUS
<1>1. /\ TypeOK /\ LoopInv /\ Mirrors(db)
      /\ \A k \in DOMAIN db.buses : WellFormed(db, db.buses[k])
      /\ next <= Len(requests) /\ next' = next + 1 /\ db' = db
      /\ UNCHANGED <<requests, phase, from, node, route, distances_for_stop, bus_queries>>
  BY InvBefore DEF ReadOther, Reading, loops
<1>2. TypeOK'
  BY <1>1 DEF TypeOK
<1>3. LoopInv'
  BY <1>1 DEF LoopInv
<1> QED
  BY <1>1, <1>2, <1>3, InvAfter

\* From one loop to the next only the loop variables are reset.
LEMMA PhaseInv == LoaderInv /\ (StartDistances \/ StartRoutes \/ Finish) => LoaderInv'
<1> SUFFICES ASSUME LoaderInv, StartDistances \/ StartRoutes \/ Finish PROVE LoaderInv'
  OBVIOUS
<1>1. /\ TypeOK /\ LoopInv /\ Mirrors(db)
      /\ \A k \in DOMAIN db.buses : WellFormed(db, db.buses[k])
      /\ UNCHANGED <<requests, next, db, from, node, route, distances_for_stop, bus_queries>>
      /\ \/ phase = "read" /\ phase' = "distances"
         \/ phase = "distances" /\ phase' = "routes"
         \/ phase = "routes" /\ bus_queries = <<>> /\ phase' = "done"
  BY InvBefore DEF StartDistances, StartRoutes, Finish, loops
<1>2. TypeOK'
  BY <1>1 DEF TypeOK
<1>3. LoopInv'
  BY <1>1 DEF LoopInv
<1> QED
  BY <1>1, <1>2, <1>3, InvAfter

\* The distances of a stop are taken up, in whatever order the hash map has.
LEMMA TakeDistancesInv ==
    ASSUME NEW s \in StopName, LoaderInv, TakeDistances(s) PROVE LoaderInv'
<1>1. /\ TypeOK /\ LoopInv /\ Mirrors(db)
      /\ \A k \in DOMAIN db.buses : WellFormed(db, db.buses[k])
      /\ from' = s /\ distances_for_stop[s] # NoEntry
      /\ UNCHANGED <<requests, next, phase, db, node, route, distances_for_stop, bus_queries>>
  BY InvBefore DEF TakeDistances
<1>2. TypeOK'
  BY <1>1 DEF TypeOK, StopPtr
<1>3. LoopInv'
  BY <1>1 DEF LoopInv
<1> QED
  BY <1>1, <1>2, <1>3, InvAfter

\* A stop's distances are done with.
LEMMA LeaveDistancesInv == LoaderInv /\ LeaveDistances => LoaderInv'
<1> SUFFICES ASSUME LoaderInv, LeaveDistances PROVE LoaderInv'
  OBVIOUS
<1>1. /\ TypeOK /\ LoopInv /\ Mirrors(db)
      /\ \A k \in DOMAIN db.buses : WellFormed(db, db.buses[k])
      /\ from' = NoStop /\ from # NoStop
      /\ distances_for_stop' = [distances_for_stop EXCEPT ![from] = NoEntry]
      /\ UNCHANGED <<requests, next, phase, db, node, route, bus_queries>>
  BY InvBefore DEF LeaveDistances
<1>2. TypeOK'
  BY <1>1 DEF TypeOK, StopPtr
<1>3. LoopInv'
  BY <1>1 DEF LoopInv
<1> QED
  BY <1>1, <1>2, <1>3, InvAfter

\* The distances touch neither the stops nor the buses nor their index.
LEMMA UpdateDistancesInv ==
    ASSUME NEW name \in StopName, LoaderInv, UpdateDistances(name) PROVE LoaderInv'
<1> DEFINE dict == distances_for_stop[from]
<1>1. /\ TypeOK /\ LoopInv /\ Mirrors(db) /\ db \in Catalogue
      /\ \A k \in DOMAIN db.buses : WellFormed(db, db.buses[k])
      /\ StopNames(db) \subseteq StopName
      /\ from # NoStop /\ name \in Keys(dict)
      /\ db' = SetDistance(db, from, GetStop(db, name), dict[name])
      /\ distances_for_stop' = [distances_for_stop EXCEPT ![from][name] = NoEntry]
      /\ UNCHANGED <<requests, next, phase, from, node, route, bus_queries>>
  BY InvBefore DEF UpdateDistances, loops
<1>2. from \in StopName /\ dict \in RoadDistances
  BY <1>1 DEF TypeOK, StopPtr
<1>3. from \in StopPtr /\ GetStop(db, name) \in StopPtr /\ dict[name] \in Int
  BY <1>1, <1>2 DEF GetStop, StopPtr, Keys, RoadDistances
<1>4. /\ db' \in Catalogue /\ db'.stops = db.stops /\ db'.buses = db.buses
      /\ db'.buses_for_stop = db.buses_for_stop
  BY <1>1, <1>3, DistanceSet
<1>5. /\ StopNames(db') = StopNames(db) /\ Mirrors(db')
      /\ \A k \in DOMAIN db'.buses : WellFormed(db', db'.buses[k])
  BY <1>1, <1>4, SameContents
<1>6. [dict EXCEPT ![name] = NoEntry] \in RoadDistances
  BY <1>2 DEF RoadDistances
<1>7. distances_for_stop' = [distances_for_stop EXCEPT ![from] = [dict EXCEPT ![name] = NoEntry]]
  BY <1>1
<1>8. /\ distances_for_stop' \in [StopName -> {NoEntry} \cup RoadDistances]
      /\ distances_for_stop'[from] # NoEntry
  <2> HIDE DEF dict
  <2> QED
    BY <1>1, <1>2, <1>6, <1>7, RoadDistancesAssumption DEF TypeOK
<1>9. TypeOK'
  BY <1>1, <1>4, <1>8 DEF TypeOK
<1>10. LoopInv'
  BY <1>1, <1>4, <1>5 DEF LoopInv
<1> QED
  BY <1>5, <1>9, <1>10, InvAfter

\* A stop is put on a route only if the catalogue has it.
LEMMA PushStopInv == LoaderInv /\ PushStop => LoaderInv'
<1> SUFFICES ASSUME LoaderInv, PushStop PROVE LoaderInv'
  OBVIOUS
<1> DEFINE stops == Head(bus_queries).stops
<1>1. /\ TypeOK /\ LoopInv /\ Mirrors(db)
      /\ \A k \in DOMAIN db.buses : WellFormed(db, db.buses[k])
      /\ phase = "routes" /\ bus_queries # <<>> /\ node <= Len(stops)
      /\ route' = IF stops[node] \in StopNames(db) THEN Append(route, stops[node]) ELSE route
      /\ node' = node + 1
      /\ UNCHANGED <<requests, next, phase, db, from, distances_for_stop, bus_queries>>
  BY InvBefore DEF PushStop
<1>2. stops \in Seq(StopName)
  <2>1. Head(bus_queries) \in BusRequest
    BY <1>1, HeadTailProperties DEF TypeOK
  <2> QED
    BY <2>1 DEF BusRequest
<1> HIDE DEF stops
<1>3. node \in Nat \ {0} /\ node \in DOMAIN stops /\ stops[node] \in StopName
  BY <1>1, <1>2 DEF TypeOK
<1>4. /\ route' \in Seq(StopName) /\ ToSet(route') \subseteq StopNames(db)
      /\ stops[node] \in StopNames(db) => route' # <<>> /\ Last(route') = stops[node]
  <2>1. route \in Seq(StopName) /\ ToSet(route) \subseteq StopNames(db)
    BY <1>1 DEF TypeOK, LoopInv
  <2>2. CASE stops[node] \in StopNames(db)
    <3>1. route' = Append(route, stops[node])
      BY <1>1, <2>2
    <3>2. /\ route' \in Seq(StopName) /\ ToSet(route') = ToSet(route) \cup {stops[node]}
          /\ route' # <<>> /\ Last(route') = stops[node]
      BY <1>3, <2>1, <3>1, Appended DEF Last
    <3> QED
      BY <2>1, <2>2, <3>2
  <2>3. CASE stops[node] \notin StopNames(db)
    BY <1>1, <2>1, <2>3
  <2> QED
    BY <2>2, <2>3
<1>5. TypeOK'
  BY <1>1, <1>3, <1>4 DEF TypeOK
<1>6. LoopInv'
  <2>1. node' > 1 /\ node' - 1 = node /\ node' # 1
    BY <1>1, <1>3
  <2>2. Head(bus_queries').stops = stops
    BY <1>1 DEF stops
  <2> QED
    BY <1>1, <1>3, <1>4, <2>1, <2>2 DEF LoopInv
<1> QED
  BY <1>1, <1>5, <1>6, InvAfter

\* The bus made at the end of the loop over its stops is well-formed.
LEMMA BusMade ==
    ASSUME LoaderInv, phase = "routes", bus_queries # <<>>,
           node > Len(Head(bus_queries).stops)
    PROVE  LET bus == MakeBus(Head(bus_queries)) IN bus \in Bus /\ WellFormed(db, bus)
<1> DEFINE q == Head(bus_queries)
           stops == q.stops
           bus == MakeBus(q)
<1>1. /\ route \in Seq(StopName) /\ ToSet(route) \subseteq StopNames(db)
      /\ StopNames(db) \subseteq StopName /\ node \in Nat \ {0}
      /\ node = 1 => route = <<>>
      /\ node > 1 => /\ node - 1 \in DOMAIN stops
                     /\ stops[1] \in StopNames(db) => route # <<>> /\ route[1] = stops[1]
                     /\ stops[node - 1] \in StopNames(db) =>
                           route # <<>> /\ Last(route) = stops[node - 1]
  BY InvBefore DEF TypeOK, LoopInv
<1>2. q \in BusRequest
  BY HeadTailProperties, InvBefore DEF TypeOK
<1>3. q.name \in BusName /\ stops \in Seq(StopName) /\ q.is_roundtrip \in BOOLEAN
  BY <1>2 DEF BusRequest
<1>4. /\ bus.name = q.name /\ bus.is_roundtrip = q.is_roundtrip
      /\ bus.route = IF q.is_roundtrip THEN route ELSE route \o WayBack(route)
      /\ bus.unique_stops = Cardinality(ToSet(route))
      /\ bus.start_stop = IF stops = <<>> THEN NoStop ELSE GetStop(db, Head(stops))
      /\ bus.end_stop = IF stops = <<>> THEN NoStop ELSE GetStop(db, Last(stops))
      /\ bus = [name |-> bus.name, route |-> bus.route, unique_stops |-> bus.unique_stops,
                is_roundtrip |-> bus.is_roundtrip, start_stop |-> bus.start_stop,
                end_stop |-> bus.end_stop]
  BY DEF MakeBus
<1>5. Len(stops) \in Nat /\ DOMAIN stops = 1 .. Len(stops) /\ node > Len(stops)
  BY <1>3
<1> HIDE DEF bus, stops, q
<1>6. stops # <<>> =>
         /\ Head(stops) \in StopNames(db) => route # <<>> /\ route[1] = Head(stops)
         /\ Last(stops) \in StopNames(db) => route # <<>> /\ Last(route) = Last(stops)
  <2> SUFFICES ASSUME stops # <<>>
               PROVE  /\ Head(stops) \in StopNames(db) => route # <<>> /\ route[1] = Head(stops)
                      /\ Last(stops) \in StopNames(db) => route # <<>> /\ Last(route) = Last(stops)
    OBVIOUS
  <2>1. Len(stops) # 0
    BY <1>3
  <2>2. node > 1 /\ node - 1 = Len(stops)
    BY <1>1, <1>5, <2>1
  <2> QED
    BY <1>1, <2>2 DEF Last
<1>7. /\ bus.end_stop = NoStop \/ (route # <<>> /\ bus.end_stop = Last(route))
      /\ bus.start_stop = NoStop \/ (route # <<>> /\ bus.start_stop = route[1])
  BY <1>4, <1>6 DEF GetStop
<1>8. /\ bus.start_stop \in StopPtr /\ bus.end_stop \in StopPtr
  BY <1>1, <1>4 DEF GetStop, StopPtr
<1>9. bus.unique_stops \in Nat
  BY <1>1, <1>4, ElementsOf
<1>10. CASE q.is_roundtrip \/ route = <<>>
  <2>1. bus.route = route
    <3>1. CASE q.is_roundtrip
      BY <1>4, <3>1
    <3>2. CASE ~q.is_roundtrip /\ route = <<>>
      <4>1. WayBack(route) = <<>>
        BY <3>2 DEF WayBack
      <4> QED
        BY <1>4, <3>2, <4>1
    <3> QED
      BY <1>10, <3>1, <3>2
  <2>2. bus \in Bus
    BY <1>1, <1>3, <1>4, <1>8, <1>9, <2>1 DEF Bus
  <2>3. ~bus.is_roundtrip => ~(Len(bus.route) > 0)
    BY <1>4, <1>10, <2>1
  <2>4. WellFormed(db, bus)
    <3>1. route # <<>> => Len(route) > 0
      BY <1>1
    <3> QED
      BY <1>1, <1>4, <1>7, <2>1, <2>3, <3>1 DEF WellFormed
  <2> QED
    BY <2>2, <2>4 DEF bus, q
<1>11. CASE ~q.is_roundtrip /\ route # <<>>
  <2>1. bus.route = route \o WayBack(route)
    BY <1>4, <1>11
  <2>2. /\ bus.route \in Seq(StopName)
        /\ ToSet(bus.route) = ToSet(route)
        /\ Len(bus.route) % 2 = 1
        /\ bus.route = Reverse(bus.route)
        /\ bus.route[Len(bus.route) \div 2 + 1] = Last(route)
        /\ Len(bus.route) > 0 /\ bus.route[1] = route[1]
    <3>1. /\ bus.route \in Seq(StopName) /\ Len(route) \in Nat \ {0}
          /\ Len(bus.route) = 2 * Len(route) - 1
          /\ \A i \in 1 .. 2 * Len(route) - 1 :
                bus.route[i] = IF i <= Len(route) THEN route[i] ELSE route[2 * Len(route) - i]
      BY <1>1, <1>11, <2>1, ThereAndBack
    <3>2. Len(bus.route) > 0 /\ bus.route[1] = route[1]
      <4>1. 1 \in 1 .. 2 * Len(route) - 1 /\ 1 <= Len(route)
        BY <3>1
      <4> QED
        BY <3>1, <4>1
    <3> QED
      BY <1>1, <1>11, <2>1, <3>1, <3>2, ThereAndBackSame
  <2>3. bus \in Bus
    BY <1>3, <1>4, <1>8, <1>9, <2>2 DEF Bus
  <2>4. WellFormed(db, bus)
    BY <1>1, <1>4, <1>7, <2>2 DEF WellFormed
  <2> QED
    BY <2>3, <2>4 DEF bus, q
<1> QED
  BY <1>10, <1>11

\* The bus enters the catalogue together with its index.
LEMMA UpdateRoutesInv == LoaderInv /\ UpdateRoutes => LoaderInv'
<1> SUFFICES ASSUME LoaderInv, UpdateRoutes PROVE LoaderInv'
  OBVIOUS
<1> DEFINE bus == MakeBus(Head(bus_queries))
<1>1. /\ TypeOK /\ LoopInv /\ Mirrors(db) /\ db \in Catalogue
      /\ \A k \in DOMAIN db.buses : WellFormed(db, db.buses[k])
      /\ phase = "routes" /\ bus_queries # <<>>
      /\ node > Len(Head(bus_queries).stops)
      /\ db' = AddBus(db, bus) /\ bus_queries' = Tail(bus_queries)
      /\ node' = 1 /\ route' = <<>>
      /\ UNCHANGED <<requests, next, phase, from, distances_for_stop>>
  BY InvBefore DEF UpdateRoutes
<1>2. bus \in Bus /\ WellFormed(db, bus)
  BY <1>1, BusMade
<1> HIDE DEF bus
<1>3. /\ db' \in Catalogue /\ Mirrors(db')
      /\ \A k \in DOMAIN db'.buses : WellFormed(db', db'.buses[k])
  BY <1>1, <1>2, BusAdded
<1>4. bus_queries' \in Seq(BusRequest)
  BY <1>1, HeadTailProperties DEF TypeOK
<1>5. TypeOK'
  BY <1>1, <1>3, <1>4 DEF TypeOK
<1>6. LoopInv'
  <2>1. ToSet(route') = {}
    BY <1>1 DEF ToSet
  <2> QED
    BY <1>1, <2>1 DEF LoopInv
<1> QED
  BY <1>3, <1>5, <1>6, InvAfter

\* A step of nothing changes nothing.
LEMMA StutterInv == LoaderInv /\ UNCHANGED vars => LoaderInv'
<1> SUFFICES ASSUME LoaderInv, UNCHANGED vars PROVE LoaderInv'
  OBVIOUS
<1>1. /\ TypeOK /\ LoopInv /\ Mirrors(db)
      /\ \A k \in DOMAIN db.buses : WellFormed(db, db.buses[k])
      /\ UNCHANGED <<requests, next, phase, db, from, node, route, distances_for_stop, bus_queries>>
  BY InvBefore DEF vars, loops
<1>2. TypeOK' /\ LoopInv'
  BY <1>1 DEF TypeOK, LoopInv
<1> QED
  BY <1>1, <1>2, InvAfter

-----------------------------------------------------------------------------
(* The theorems *)

\* Throughout the loading of every document, the invariant of the loops, of
\* the index and of the routes holds (JsonReader::ParseBaseRequests).
THEOREM LoaderInvariant == Spec => []LoaderInv
<1>1. LoaderInv /\ [Next]_vars => LoaderInv'
  <2> SUFFICES ASSUME LoaderInv, [Next]_vars PROVE LoaderInv'
    OBVIOUS
  <2>1. CASE ReadStop
    BY <2>1, ReadStopInv
  <2>2. CASE ReadBus
    BY <2>2, ReadBusInv
  <2>3. CASE ReadOther
    BY <2>3, ReadOtherInv
  <2>4. CASE StartDistances \/ StartRoutes \/ Finish
    BY <2>4, PhaseInv
  <2>5. ASSUME NEW s \in StopName, TakeDistances(s) PROVE LoaderInv'
    BY <2>5, TakeDistancesInv
  <2>6. ASSUME NEW s \in StopName, UpdateDistances(s) PROVE LoaderInv'
    BY <2>6, UpdateDistancesInv
  <2>7. CASE LeaveDistances
    BY <2>7, LeaveDistancesInv
  <2>8. CASE PushStop
    BY <2>8, PushStopInv
  <2>9. CASE UpdateRoutes
    BY <2>9, UpdateRoutesInv
  <2>10. CASE UNCHANGED vars
    BY <2>10, StutterInv
  <2> QED
    BY <2>1, <2>2, <2>3, <2>4, <2>5, <2>6, <2>7, <2>8, <2>9, <2>10 DEF Next
<1> QED
  BY <1>1, InitInv, PTL DEF Spec

\* A stop's buses are exactly the stored buses that call there, and a stop is
\* a key of the index from the moment it is stored
\* (TransportCatalogue::AddStop, AddBus).
THEOREM IndexAlwaysMirrors == Spec => []IndexMirrorsRoutes
<1>1. LoaderInv => IndexMirrorsRoutes
  BY DEF LoaderInv
<1> QED
  BY <1>1, LoaderInvariant, PTL

\* A route that goes there and back turns in its middle, where its last
\* declared stop is if it is stored (JsonReader::UpdateRoutes).
THEOREM RoutesAlwaysWellFormed == Spec => []RoutesWellFormed
<1>1. LoaderInv => RoutesWellFormed
  BY DEF LoaderInv
<1> QED
  BY <1>1, LoaderInvariant, PTL

-----------------------------------------------------------------------------
(* All that the catalogue points to is stored *)

\* No two stored buses share a name.
NamedOnce(d) == \A m, n \in DOMAIN d.buses : d.buses[m].name = d.buses[n].name => m = n

\* Distances are put aside for stored stops only.
ResolveInv ==
    /\ Resolved(db) /\ NamedOnce(db)
    /\ \A s \in StopName : distances_for_stop[s] # NoEntry => s \in StopNames(db)

\* More stops do no harm.
LEMMA StillResolved ==
    ASSUME NEW d, NEW e, Resolved(d), StopNames(d) \subseteq StopNames(e),
           e.buses = d.buses, e.distances = d.distances, e.edges_to_buses = d.edges_to_buses
    PROVE  Resolved(e)
<1>1. BusNames(e) = BusNames(d)
  BY DEF BusNames
<1> QED
  BY <1>1 DEF Resolved

\* An empty catalogue refers to no stop.
LEMMA ResolveInit == Init => ResolveInv
<1> SUFFICES ASSUME Init PROVE ResolveInv
  OBVIOUS
<1>1. /\ db.buses = <<>> /\ db.edges_to_buses = <<>> /\ \A p \in StopPair : db.distances[p] = NoEntry
      /\ \A s \in StopName : distances_for_stop[s] = NoEntry
  BY DEF Init, EmptyCatalogue
<1> QED
  BY <1>1 DEF ResolveInv, Resolved, NamedOnce, ToSet

\* Another stop leaves every name that resolved resolved.
LEMMA ResolveReadStop == LoaderInv /\ ResolveInv /\ ReadStop => ResolveInv'
<1> SUFFICES ASSUME LoaderInv, ResolveInv, ReadStop PROVE ResolveInv'
  OBVIOUS
<1> DEFINE r == requests[next]
           stop == [name |-> r.name, at |-> r.at]
<1>1. /\ TypeOK /\ LoopInv /\ Mirrors(db) /\ db \in Catalogue
      /\ phase = "read" /\ next <= Len(requests) /\ r.type = "Stop"
      /\ db' = AddStop(db, stop)
      /\ distances_for_stop' =
             [distances_for_stop EXCEPT ![r.name] = IF @ = NoEntry THEN r.road_distances ELSE @]
  BY InvBefore DEF ReadStop, Reading
<1>2. stop \in Stop /\ r.name \in StopName
  BY <1>1, RequestFields DEF TypeOK
<1>3. db.buses = <<>>
  BY <1>1 DEF LoopInv
<1>4. /\ db'.buses = <<>> /\ StopNames(db') = StopNames(db) \cup {r.name}
      /\ db'.distances = db.distances /\ db'.edges_to_buses = db.edges_to_buses
  BY <1>1, <1>2, <1>3, StopAdded
<1> HIDE DEF r, stop
<1>5. Resolved(db')
  BY <1>3, <1>4, StillResolved DEF ResolveInv
<1>6. \A s \in StopName : distances_for_stop'[s] # NoEntry => s = r.name \/ distances_for_stop[s] # NoEntry
  BY <1>1 DEF TypeOK
<1>7. NamedOnce(db')
  BY <1>4 DEF NamedOnce
<1> QED
  BY <1>4, <1>5, <1>6, <1>7 DEF ResolveInv

\* Distances do not touch the buses.
LEMMA ResolveDistances ==
    ASSUME NEW name \in StopName, LoaderInv, ResolveInv, UpdateDistances(name)
    PROVE  ResolveInv'
<1> DEFINE dict == distances_for_stop[from]
           to == GetStop(db, name)
<1>1. /\ TypeOK /\ db \in Catalogue
      /\ from # NoStop /\ name \in Keys(dict)
      /\ db' = SetDistance(db, from, to, dict[name])
      /\ distances_for_stop' = [distances_for_stop EXCEPT ![from][name] = NoEntry]
  BY InvBefore DEF UpdateDistances
<1>2. from \in StopName /\ dict \in RoadDistances /\ dict # NoEntry
  BY <1>1, RoadDistancesAssumption DEF TypeOK, StopPtr
<1>3. from \in StopPtr /\ to \in StopPtr /\ dict[name] \in Int
  BY <1>1, <1>2 DEF GetStop, StopPtr, Keys, RoadDistances
<1>4. from \in StopNames(db) /\ to \in StopNames(db) \cup {NoStop}
  BY <1>2 DEF ResolveInv, GetStop
<1> HIDE DEF dict, to
<1>5. /\ db'.stops = db.stops /\ db'.buses = db.buses /\ db'.edges_to_buses = db.edges_to_buses
      /\ db'.distances = IF db.distances[<<from, to>>] = NoEntry
                         THEN [db.distances EXCEPT ![<<from, to>>] = dict[name]] ELSE db.distances
  BY <1>1, <1>3, DistanceSet
<1>6. StopNames(db') = StopNames(db) /\ BusNames(db') = BusNames(db)
  BY <1>5 DEF StopNames, BusNames
<1>7. \A p \in StopPair : db'.distances[p] # NoEntry => p = <<from, to>> \/ db.distances[p] # NoEntry
  BY <1>1, <1>5, CatalogueFields
<1>8. Resolved(db')
  BY <1>4, <1>5, <1>6, <1>7 DEF ResolveInv, Resolved
<1>9. \A s \in StopName : distances_for_stop'[s] # NoEntry => s = from \/ distances_for_stop[s] # NoEntry
  BY <1>1 DEF TypeOK
<1>10. NamedOnce(db')
  BY <1>5 DEF ResolveInv, NamedOnce
<1> QED
  BY <1>4, <1>6, <1>8, <1>9, <1>10 DEF ResolveInv

\* A bus that is added names stops of the catalogue only.
LEMMA ResolveRoutes == LoaderInv /\ ResolveInv /\ UpdateRoutes => ResolveInv'
<1> SUFFICES ASSUME LoaderInv, ResolveInv, UpdateRoutes PROVE ResolveInv'
  OBVIOUS
<1> DEFINE q == Head(bus_queries)
           bus == MakeBus(q)
<1>1. /\ Mirrors(db) /\ db \in Catalogue
      /\ \A k \in DOMAIN db.buses : WellFormed(db, db.buses[k])
      /\ db' = AddBus(db, bus) /\ distances_for_stop' = distances_for_stop
  BY InvBefore DEF UpdateRoutes
<1>2. bus \in Bus /\ WellFormed(db, bus)
  BY BusMade DEF UpdateRoutes
<1>3. bus.start_stop \in StopNames(db) \cup {NoStop} /\ bus.end_stop \in StopNames(db) \cup {NoStop}
  BY DEF MakeBus, GetStop
<1> HIDE DEF bus
<1>4. /\ db'.stops = db.stops /\ db'.distances = db.distances
      /\ db'.edges_to_buses = db.edges_to_buses
      /\ db'.buses = IF bus.name \in BusNames(db) THEN db.buses ELSE Append(db.buses, bus)
  BY <1>1, <1>2, BusAdded
<1>5. StopNames(db') = StopNames(db)
  BY <1>4 DEF StopNames
<1>6. \A k \in DOMAIN db'.buses : db'.buses[k] = bus \/ \E m \in DOMAIN db.buses : db'.buses[k] = db.buses[m]
  <2>1. CASE bus.name \in BusNames(db)
    BY <1>4, <2>1
  <2>2. CASE bus.name \notin BusNames(db)
    <3>1. db'.buses = Append(db.buses, bus) /\ db.buses \in Seq(Bus)
      BY <1>1, <1>4, <2>2, CatalogueFields
    <3>2. /\ DOMAIN db'.buses = DOMAIN db.buses \cup {Len(db.buses) + 1}
          /\ DOMAIN db.buses = 1 .. Len(db.buses)
          /\ \A m \in 1 .. Len(db.buses) : db'.buses[m] = db.buses[m]
          /\ db'.buses[Len(db.buses) + 1] = bus
      BY <1>2, <3>1, Appended
    <3> QED
      BY <3>2
  <2> QED
    BY <2>1, <2>2
<1>7. BusNames(db) \subseteq BusNames(db')
  <2>1. CASE bus.name \in BusNames(db)
    BY <1>4, <2>1 DEF BusNames
  <2>2. CASE bus.name \notin BusNames(db)
    <3>1. db'.buses = Append(db.buses, bus) /\ db.buses \in Seq(Bus)
      BY <1>1, <1>4, <2>2, CatalogueFields
    <3>2. /\ DOMAIN db'.buses = DOMAIN db.buses \cup {Len(db.buses) + 1}
          /\ DOMAIN db.buses = 1 .. Len(db.buses)
          /\ \A m \in 1 .. Len(db.buses) : db'.buses[m] = db.buses[m]
      BY <1>2, <3>1, Appended
    <3> QED
      BY <3>2 DEF BusNames
  <2> QED
    BY <2>1, <2>2
<1>8. ToSet(bus.route) \subseteq StopNames(db)
  BY <1>2 DEF WellFormed
<1>9. Resolved(db')
  BY <1>3, <1>4, <1>5, <1>6, <1>7, <1>8 DEF ResolveInv, Resolved
<1>10. NamedOnce(db')
  <2>1. CASE bus.name \in BusNames(db)
    BY <1>4, <2>1 DEF ResolveInv, NamedOnce
  <2>2. CASE bus.name \notin BusNames(db)
    <3>1. db'.buses = Append(db.buses, bus) /\ db.buses \in Seq(Bus)
      BY <1>1, <1>4, <2>2, CatalogueFields
    <3>2. /\ DOMAIN db'.buses = DOMAIN db.buses \cup {Len(db.buses) + 1}
          /\ DOMAIN db.buses = 1 .. Len(db.buses)
          /\ \A m \in 1 .. Len(db.buses) : db'.buses[m] = db.buses[m]
          /\ db'.buses[Len(db.buses) + 1] = bus
      BY <1>2, <3>1, Appended
    <3>3. \A m \in DOMAIN db.buses : db.buses[m].name # bus.name
      BY <2>2 DEF BusNames
    <3> QED
      BY <3>2, <3>3 DEF ResolveInv, NamedOnce
  <2> QED
    BY <2>1, <2>2
<1> QED
  BY <1>1, <1>5, <1>9, <1>10 DEF ResolveInv

\* Every step keeps the invariant.
LEMMA ResolveNext == LoaderInv /\ ResolveInv /\ [Next]_vars => ResolveInv'
<1> SUFFICES ASSUME LoaderInv, ResolveInv, [Next]_vars PROVE ResolveInv'
  OBVIOUS
<1>1. CASE ReadStop
  BY <1>1, ResolveReadStop
<1>2. ASSUME NEW s \in StopName, UpdateDistances(s) PROVE ResolveInv'
  BY <1>2, ResolveDistances
<1>3. CASE UpdateRoutes
  BY <1>3, ResolveRoutes
<1>4. CASE LeaveDistances
  <2>1. /\ db' = db
        /\ distances_for_stop' = [distances_for_stop EXCEPT ![from] = NoEntry]
    BY <1>4 DEF LeaveDistances
  <2>2. \A s \in StopName : distances_for_stop'[s] # NoEntry => distances_for_stop[s] # NoEntry
    BY <2>1 DEF LoaderInv, TypeOK
  <2> QED
    BY <2>1, <2>2 DEF ResolveInv
<1>5. CASE UNCHANGED <<db, distances_for_stop>>
  BY <1>5 DEF ResolveInv
<1> QED
  BY <1>1, <1>2, <1>3, <1>4, <1>5
     DEF Next, ReadBus, ReadOther, Reading, StartDistances, TakeDistances, StartRoutes, PushStop, Finish, vars

\* All that the catalogue points to is stored at every moment, whatever a
\* document names: what the handler and the serializer rely on.
THEOREM LoadedIsResolved == Spec => []Resolved(db)
<1>1. ResolveInv => Resolved(db)
  BY DEF ResolveInv
<1> QED
  BY <1>1, ResolveInit, ResolveNext, LoaderInvariant, PTL DEF Spec

\* The first and the last stop of every bus that calls anywhere were declared.
EndsKnown(d) ==
    \A n \in DOMAIN d.buses : LET bus == d.buses[n] IN
        bus.route # <<>> => bus.start_stop # NoStop /\ (bus.is_roundtrip \/ bus.end_stop # NoStop)

\* A catalogue can be drawn at every moment, once the ends of its buses are
\* declared: what the renderer relies on.
THEOREM LoadedIsMappable == Spec => [](EndsKnown(db) => Mappable(db))
<1>1. LoaderInv /\ ResolveInv => (EndsKnown(db) => Mappable(db))
  <2> SUFFICES ASSUME LoaderInv, ResolveInv, EndsKnown(db) PROVE Mappable(db)
    OBVIOUS
  <2>1. /\ Mirrors(db) /\ db \in Catalogue /\ NamedOnce(db)
        /\ \A k \in DOMAIN db.buses : WellFormed(db, db.buses[k])
    BY InvBefore DEF ResolveInv
  <2>2. ASSUME NEW n \in DOMAIN db.buses
        PROVE  LET bus == db.buses[n] IN
               /\ ToSet(bus.route) \subseteq StopNames(db)
               /\ bus.route # <<>> =>
                    /\ bus.start_stop = Head(bus.route)
                    /\ bus.is_roundtrip \/ bus.end_stop = bus.route[Len(bus.route) \div 2 + 1]
    <3>1. PICK bus \in Bus : bus = db.buses[n]
      BY <2>1, CatalogueFields
    <3>2. WellFormed(db, bus) /\ bus.route \in Seq(StopName)
      BY <2>1, <3>1 DEF Bus
    <3>3. bus.route # <<>> => bus.start_stop # NoStop /\ (bus.is_roundtrip \/ bus.end_stop # NoStop)
      BY <3>1 DEF EndsKnown
    <3>4. bus.route # <<>> => Len(bus.route) > 0 /\ Head(bus.route) = bus.route[1]
      BY <3>2
    <3> QED
      BY <3>1, <3>2, <3>3, <3>4 DEF WellFormed
  <2>3. ASSUME NEW s \in StopNames(db)
        PROVE  IsStopInRoutes(db, s) <=> \E n \in DOMAIN db.buses : s \in ToSet(db.buses[n].route)
    <3>1. s \in StopName /\ s # NoStop
      BY <2>1, CatalogueFields, StopNameAssumption DEF NoStop
    <3>2. db.buses_for_stop[s] = Callers(db, s)
      BY <2>1, <3>1 DEF Mirrors
    <3>3. Callers(db, s) # NoEntry
      <4>1. \A k \in DOMAIN db.buses : db.buses[k].name \in BusName
        <5>1. \A k \in DOMAIN db.buses : db.buses[k] \in Bus
          BY <2>1, CatalogueFields
        <5> QED
          BY <5>1 DEF Bus
      <4>2. Callers(db, s) \in SUBSET BusName
        BY <4>1 DEF Callers
      <4> QED
        BY <4>2, NoEntryAssumption
    <3> QED
      BY <3>1, <3>2, <3>3 DEF IsStopInRoutes, Callers
  <2> QED
    BY <2>1, <2>2, <2>3 DEF Mappable, NamedOnce
<1> QED
  BY <1>1, ResolveInit, ResolveNext, LoaderInvariant, PTL DEF Spec

\* The index of the stored stops is whole at every moment: what reading a base
\* file back relies on.
THEOREM LoadedIsIndexed == Spec => []Indexed(db)
<1>1. LoaderInv => Indexed(db)
  <2> SUFFICES ASSUME LoaderInv, NEW s \in StopNames(db)
               PROVE  db.buses_for_stop[s] =
                        {db.buses[n].name : n \in {m \in DOMAIN db.buses : s \in ToSet(db.buses[m].route)}}
    BY DEF Indexed
  <2>1. Mirrors(db) /\ db \in Catalogue
    BY InvBefore
  <2>2. s \in StopName
    BY <2>1, CatalogueFields
  <2> QED
    BY <2>1, <2>2 DEF Mirrors, Callers
<1> QED
  BY <1>1, LoaderInvariant, PTL

-----------------------------------------------------------------------------
(* What a document declares, request by request *)

Before(S, m) == {n \in S : n < m}

\* The stop and the bus that a declaration is for.
StopAt(rs) == [n \in Declarations(rs, "Stop") |-> [name |-> rs[n].name, at |-> rs[n].at]]
BusAt(rs) == [n \in Declarations(rs, "Bus") |-> DeclaredBus(rs, rs[n])]

\* Positions in a document are finitely many numbers.
LEMMA Positions ==
    ASSUME NEW W, NEW rs \in Seq(W), NEW S \in SUBSET DOMAIN rs
    PROVE  S \in SUBSET Nat /\ S \in SUBSET Int /\ IsFiniteSet(S)
<1>1. DOMAIN rs = 1 .. Len(rs) /\ Len(rs) \in Nat
  OBVIOUS
<1>2. IsFiniteSet(DOMAIN rs)
  BY <1>1, FS_Interval
<1>3. IsFiniteSet(S)
  BY <1>2, FS_Subset
<1>4. \A n \in S : n \in Nat
  BY <1>1
<1> QED
  BY <1>3, <1>4

\* Every request has a declaration of its kind and name, itself or an earlier
\* one.
LEMMA FirstOfName ==
    ASSUME NEW rs \in Seq(Request), NEW n \in DOMAIN rs
    PROVE  \E m \in Declarations(rs, rs[n].type) : m <= n /\ rs[m].name = rs[n].name
<1> DEFINE T == {m \in DOMAIN rs : rs[m].type = rs[n].type /\ rs[m].name = rs[n].name}
<1>1. T \in SUBSET Nat /\ n \in T
  BY Positions
<1>2. \A m \in T : m \in DOMAIN rs /\ rs[m].type = rs[n].type /\ rs[m].name = rs[n].name
  OBVIOUS
<1>3. \A m \in DOMAIN rs : rs[m].type = rs[n].type /\ rs[m].name = rs[n].name => m \in T
  OBVIOUS
<1> HIDE DEF T
<1>4. PICK m \in T : \A k \in T : m <= k
  BY <1>1, LeastNumber
<1>5. \A k \in 1 .. m - 1 : k \in DOMAIN rs /\ k \notin T
  <2>1. DOMAIN rs = 1 .. Len(rs) /\ Len(rs) \in Nat
    OBVIOUS
  <2> QED
    BY <1>2, <1>4, <2>1
<1>6. m \in Declarations(rs, rs[n].type)
  BY <1>2, <1>3, <1>5 DEF Declarations
<1> QED
  BY <1>1, <1>2, <1>4, <1>6

\* A request is a declaration unless one before it declared its name.
LEMMA DeclaredNext ==
    ASSUME NEW rs \in Seq(Request), NEW n \in DOMAIN rs, NEW type
    PROVE  LET D == Declarations(rs, type) IN
           /\ D \in SUBSET DOMAIN rs
           /\ \A m \in D : rs[m].type = type
           /\ \A l, m \in D : rs[l].name = rs[m].name => l = m
           /\ \A m \in Before(D, n) : n \in D => rs[m].name # rs[n].name
           /\ rs[n].type = type /\ n \notin D => \E m \in Before(D, n) : rs[m].name = rs[n].name
           /\ \A m : m \in Before(D, n + 1) <=> m \in Before(D, n) \/ (m = n /\ n \in D)
<1>0. PICK D : D = Declarations(rs, type)
  OBVIOUS
<1>1. DOMAIN rs = 1 .. Len(rs) /\ Len(rs) \in Nat
  OBVIOUS
<1>2. D \in SUBSET DOMAIN rs /\ \A m \in D : rs[m].type = type /\ m \in Nat
  BY <1>0, <1>1 DEF Declarations
<1>3. \A l, m \in D : rs[l].name = rs[m].name => ~(l < m)
  <2> SUFFICES ASSUME NEW l \in D, NEW m \in D, rs[l].name = rs[m].name, l < m PROVE FALSE
    OBVIOUS
  <2>1. l \in 1 .. m - 1
    BY <1>1, <1>2
  <2>2. rs[l].type = type
    BY <1>2
  <2> QED
    BY <1>0, <2>1, <2>2 DEF Declarations
<1>4. \A l, m \in D : rs[l].name = rs[m].name => l = m
  <2> SUFFICES ASSUME NEW l \in D, NEW m \in D, rs[l].name = rs[m].name PROVE l = m
    OBVIOUS
  <2>1. ~(l < m) /\ ~(m < l) /\ l \in Nat /\ m \in Nat
    BY <1>2, <1>3
  <2> QED
    BY <2>1
<1>5. \A m \in Before(D, n) : n \in D => rs[m].name # rs[n].name
  BY <1>3 DEF Before
<1>8. ASSUME rs[n].type = type, n \notin D PROVE \E m \in Before(D, n) : rs[m].name = rs[n].name
  <2>1. PICK m \in D : m <= n /\ rs[m].name = rs[n].name
    BY <1>0, <1>8, FirstOfName
  <2>2. m \in Nat /\ n \in Nat /\ m # n
    BY <1>1, <1>2, <1>8
  <2>3. m < n
    BY <2>1, <2>2
  <2> QED
    BY <2>1, <2>3 DEF Before
<1>6. \A m \in D : m < n + 1 <=> m < n \/ m = n
  BY <1>1, <1>2
<1>7. \A m : m \in Before(D, n + 1) <=> m \in Before(D, n) \/ (m = n /\ n \in D)
  BY <1>6 DEF Before
<1> QED
  BY <1>0, <1>2, <1>4, <1>5, <1>7, <1>8

\* What is below the end is all.
LEMMA BeforeEnd ==
    ASSUME NEW W, NEW rs \in Seq(W), NEW D \in SUBSET DOMAIN rs, NEW m \in Int, m > Len(rs)
    PROVE  Before(D, m) = D
<1>1. DOMAIN rs = 1 .. Len(rs) /\ Len(rs) \in Nat
  OBVIOUS
<1>2. \A n \in D : n < m
  BY <1>1
<1> QED
  BY <1>2 DEF Before

-----------------------------------------------------------------------------
(* The loader keeps its promise *)

\* The bus requests from position m on that were read.
Queued(m) == {n \in DOMAIN requests : requests[n].type = "Bus" /\ m <= n /\ n < next}

\* The stops are those declared so far.
StopsRead ==
    /\ phase # "read" => next > Len(requests)
    /\ db.stops = Picked(StopAt(requests), Before(Declarations(requests, "Stop"), next))

\* The bus requests are put aside but for those handled, which declared the
\* buses stored; the current one's stops are found as far as they were read.
BusesMade ==
    /\ \E m \in 1 .. next :
         /\ bus_queries = Picked(requests, Queued(m))
         /\ db.buses = Picked(BusAt(requests), Before(Declarations(requests, "Bus"), m))
    /\ node > 1 =>
         LET stops == Head(bus_queries).stops IN
         route = Picked(stops, {n \in 1 .. node - 1 : stops[n] \in StopNames(db)})

\* The distance that the least of some names is given.
LeastNamed(dict, names) == IF names = {} THEN NoEntry ELSE dict[Min(names)]

\* The names of a stop's dictionary that are left.
Left(dict) == IF dict = NoEntry THEN {} ELSE Keys(dict)

\* Of the dictionary that a stop was given the greatest names are left, and
\* the others' distances are stored; of several names for one stop, which can
\* be only the null pointer, the least one's.
DictTaken(given, s) ==
    LET left == Left(distances_for_stop[s])
        taken == Keys(given) \ left
    IN  /\ phase = "read" => distances_for_stop[s] = given
        /\ left \subseteq Keys(given) /\ \A k \in left : distances_for_stop[s][k] = given[k]
        /\ \A k \in taken : \A l \in left : k < l
        /\ \A t \in StopPtr :
             db.distances[<<s, t>>] = LeastNamed(given, {k \in taken : GetStop(db, k) = t})

DistancesTaken ==
    /\ \A n \in Before(Declarations(requests, "Stop"), next) :
         DictTaken(requests[n].road_distances, requests[n].name)
    /\ \A s \in StopPtr \ StopNames(db) : \A t \in StopPtr : db.distances[<<s, t>>] = NoEntry
    /\ phase \in {"routes", "done"} => \A s \in StopName : distances_for_stop[s] = NoEntry

\* Together the inductive invariant behind the promise.
PromiseInv ==
    /\ StopsRead /\ BusesMade /\ DistancesTaken
    /\ db.edges_to_buses = <<>>
    /\ phase = "done" => bus_queries = <<>>

\* The stored stops are those of the declarations read.
LEMMA NamesRead ==
    ASSUME NEW rs \in Seq(Request), NEW d, NEW m \in Int, NEW D, D = Declarations(rs, "Stop"),
           d.stops = Picked(StopAt(rs), Before(D, m))
    PROVE  /\ StopNames(d) = {rs[n].name : n \in Before(D, m)}
           /\ m > Len(rs) => StopNames(d) = DeclaredStops(rs)
<1>0. PICK S : S = Before(D, m)
  OBVIOUS
<1>1. D \in SUBSET DOMAIN rs
  BY DEF Declarations
<1>2. S \in SUBSET DOMAIN rs /\ S \in SUBSET D /\ S \in SUBSET Int /\ IsFiniteSet(S)
  <2>1. S \in SUBSET DOMAIN rs /\ S \in SUBSET D
    BY <1>0, <1>1 DEF Before
  <2> QED
    BY <2>1, Positions
<1>3. PICK f : f = StopAt(rs)
  OBVIOUS
<1>4. \A n \in S : f[n].name = rs[n].name
  BY <1>2, <1>3 DEF StopAt
<1>5. \A y : y \in ToSet(d.stops) <=> \E n \in S : y = f[n]
  <2>1. PICK W : W = {f[n] : n \in S}
    OBVIOUS
  <2>2. \A n \in S : f[n] \in W
    BY <2>1
  <2>3. d.stops = Picked(f, S)
    BY <1>0, <1>3
  <2>4. \A y : y \in ToSet(Picked(f, S)) <=> \E n \in S : y = f[n]
    <3>1. S \in SUBSET Int /\ IsFiniteSet(S)
      BY <1>2
    <3> QED
      BY <2>2, <3>1, PickedSeq
  <2> QED
    BY <2>3, <2>4
<1>8. \A x : x \in StopNames(d) <=> \E y \in ToSet(d.stops) : x = y.name
  BY DEF StopNames, ToSet
<1>9. StopNames(d) = {rs[n].name : n \in S}
  BY <1>4, <1>5, <1>8
<1>10. m > Len(rs) => S = D
  BY <1>0, <1>1, BeforeEnd
<1> QED
  BY <1>0, <1>9, <1>10 DEF DeclaredStops

\* An empty catalogue is what no request declares.
LEMMA PromiseInit == Init => PromiseInv
<1> SUFFICES ASSUME Init PROVE PromiseInv
  OBVIOUS
<1>1. /\ requests \in Seq(Request) /\ next = 1 /\ phase = "read" /\ node = 1 /\ bus_queries = <<>>
      /\ db.stops = <<>> /\ db.buses = <<>> /\ db.edges_to_buses = <<>>
      /\ \A p \in StopPair : db.distances[p] = NoEntry
  BY RequestListsAssumption DEF Init, EmptyCatalogue
<1>2. \A n \in DOMAIN requests : n \in Nat /\ n >= 1
  <2>1. DOMAIN requests = 1 .. Len(requests) /\ Len(requests) \in Nat
    BY <1>1
  <2> QED
    BY <2>1
<1>3. \A type : Before(Declarations(requests, type), next) = {}
  <2>1. \A type : Declarations(requests, type) \subseteq DOMAIN requests
    BY DEF Declarations
  <2> QED
    BY <1>1, <1>2, <2>1 DEF Before
<1>4. Queued(1) = {}
  BY <1>1, <1>2 DEF Queued
<1>5. StopsRead
  BY <1>1, <1>3, PickedNone DEF StopsRead
<1>6. BusesMade
  <2>1. 1 \in 1 .. next
    BY <1>1
  <2>2. bus_queries = Picked(requests, Queued(1))
    BY <1>1, <1>4, PickedNone
  <2>3. db.buses = Picked(BusAt(requests), Before(Declarations(requests, "Bus"), 1))
    BY <1>1, <1>3, PickedNone
  <2>4. ~(node > 1)
    BY <1>1
  <2> QED
    BY <2>1, <2>2, <2>3, <2>4 DEF BusesMade
<1>7. DistancesTaken
  <2>1. \A s \in StopPtr, t \in StopPtr : <<s, t>> \in StopPair
    BY DEF StopPair
  <2> QED
    BY <1>1, <1>3, <2>1 DEF DistancesTaken
<1> QED
  BY <1>1, <1>5, <1>6, <1>7 DEF PromiseInv

\* What the invariants say that the steps below need.
LEMMA PromiseBefore ==
    ASSUME LoaderInv, ResolveInv, PromiseInv
    PROVE  /\ requests \in Seq(Request) /\ next \in 1 .. Len(requests) + 1 /\ next \in Int
           /\ DOMAIN requests = 1 .. Len(requests) /\ Len(requests) \in Nat
           /\ db \in Catalogue /\ StopsRead /\ BusesMade /\ DistancesTaken
           /\ StopNames(db) = {requests[n].name : n \in Before(Declarations(requests, "Stop"), next)}
           /\ phase # "read" => StopNames(db) = DeclaredStops(requests)
           /\ \A s \in StopName : distances_for_stop[s] # NoEntry => s \in StopNames(db)
           /\ distances_for_stop \in [StopName -> {NoEntry} \cup RoadDistances]
<1>1. /\ requests \in Seq(Request) /\ next \in 1 .. Len(requests) + 1 /\ db \in Catalogue
      /\ distances_for_stop \in [StopName -> {NoEntry} \cup RoadDistances]
  BY DEF LoaderInv, TypeOK
<1>2. DOMAIN requests = 1 .. Len(requests) /\ Len(requests) \in Nat /\ next \in Int
  BY <1>1
<1>3. StopsRead /\ BusesMade /\ DistancesTaken
  BY DEF PromiseInv
<1>4. /\ StopNames(db) = {requests[n].name : n \in Before(Declarations(requests, "Stop"), next)}
      /\ next > Len(requests) => StopNames(db) = DeclaredStops(requests)
  BY <1>1, <1>2, <1>3, NamesRead DEF StopsRead
<1> QED
  BY <1>1, <1>2, <1>3, <1>4 DEF StopsRead, ResolveInv

\* The buses and what was put aside of them are those of before, when the next
\* request is no bus.
LEMMA BusesKept ==
    ASSUME LoaderInv, ResolveInv, PromiseInv, phase = "read", next <= Len(requests),
           requests[next].type # "Bus", next' = next + 1, requests' = requests,
           bus_queries' = bus_queries, db'.buses = db.buses, node' = node
    PROVE  BusesMade'
<1>1. /\ requests \in Seq(Request) /\ next \in Int /\ DOMAIN requests = 1 .. Len(requests)
      /\ BusesMade /\ node = 1 /\ next \in DOMAIN requests
      /\ \A n \in DOMAIN requests : n \in Int
  BY PromiseBefore DEF LoaderInv, LoopInv
<1>2. PICK m \in 1 .. next :
         /\ bus_queries = Picked(requests, Queued(m))
         /\ db.buses = Picked(BusAt(requests), Before(Declarations(requests, "Bus"), m))
  BY <1>1 DEF BusesMade
<1>3. m \in 1 .. next' /\ m \in Int
  BY <1>1
<1>4. {n \in DOMAIN requests : requests[n].type = "Bus" /\ m <= n /\ n < next'} = Queued(m)
  <2>1. \A n \in DOMAIN requests : requests[n].type = "Bus" => (n < next' <=> n < next)
    <3> SUFFICES ASSUME NEW n \in DOMAIN requests, requests[n].type = "Bus"
                 PROVE  n < next' <=> n < next
      OBVIOUS
    <3>1. n # next /\ n \in Int
      BY <1>1
    <3> QED
      BY <1>1, <3>1
  <2> QED
    BY <2>1 DEF Queued
<1>5. ~(node' > 1)
  BY <1>1
<1>6. Queued(m)' = Queued(m)
  BY <1>4 DEF Queued
<1>7. /\ bus_queries' = Picked(requests', Queued(m)')
      /\ db'.buses = Picked(BusAt(requests'), Before(Declarations(requests', "Bus"), m))
  BY <1>2, <1>6
<1> QED
  BY <1>3, <1>5, <1>7 DEF BusesMade

\* A request for a new stop is the declaration of it.
LEMMA PromiseReadStop == LoaderInv /\ ResolveInv /\ PromiseInv /\ ReadStop => PromiseInv'
<1> SUFFICES ASSUME LoaderInv, ResolveInv, PromiseInv, ReadStop PROVE PromiseInv'
  OBVIOUS
<1> DEFINE r == requests[next]
           stop == [name |-> r.name, at |-> r.at]
<1>1. /\ phase = "read" /\ next <= Len(requests) /\ r.type = "Stop"
      /\ next' = next + 1 /\ UNCHANGED <<requests, phase, from, node, route, bus_queries>>
      /\ db' = AddStop(db, stop)
      /\ distances_for_stop' =
             [distances_for_stop EXCEPT ![r.name] = IF @ = NoEntry THEN r.road_distances ELSE @]
  BY DEF ReadStop, Reading, loops
<1>2. /\ requests \in Seq(Request) /\ next \in DOMAIN requests /\ next \in Int
      /\ db \in Catalogue /\ StopsRead /\ DistancesTaken
      /\ StopNames(db) = {requests[n].name : n \in Before(Declarations(requests, "Stop"), next)}
      /\ \A s \in StopName : distances_for_stop[s] # NoEntry => s \in StopNames(db)
      /\ distances_for_stop \in [StopName -> {NoEntry} \cup RoadDistances]
  BY <1>1, PromiseBefore
<1>3. stop \in Stop /\ r.name \in StopName /\ r.road_distances \in RoadDistances
  BY <1>1, <1>2, RequestFields
<1>4. db.buses = <<>> /\ Mirrors(db)
  BY <1>1, InvBefore DEF LoopInv
<1>5. PICK D : D = Declarations(requests, "Stop")
  OBVIOUS
<1>6. /\ D \in SUBSET DOMAIN requests
      /\ \A l, m \in D : requests[l].name = requests[m].name => l = m
      /\ \A m \in Before(D, next) : next \in D => requests[m].name # r.name
      /\ next \notin D => \E m \in Before(D, next) : requests[m].name = r.name
      /\ Before(D, next') = IF next \in D THEN Before(D, next) \cup {next} ELSE Before(D, next)
  <2>1. requests[next].type = "Stop" /\ next' = next + 1
    BY <1>1
  <2>3. requests \in Seq(Request) /\ next \in DOMAIN requests
    BY <1>2
  <2>4. /\ D \in SUBSET DOMAIN requests
        /\ \A l, m \in D : requests[l].name = requests[m].name => l = m
        /\ \A m \in Before(D, next) : next \in D => requests[m].name # requests[next].name
        /\ next \notin D => \E m \in Before(D, next) : requests[m].name = requests[next].name
        /\ \A m : m \in Before(D, next + 1) <=> m \in Before(D, next) \/ (m = next /\ next \in D)
    BY <1>5, <2>1, <2>3, DeclaredNext
  <2>5. Before(D, next + 1) = IF next \in D THEN Before(D, next) \cup {next} ELSE Before(D, next)
    BY <2>4
  <2> QED
    BY <2>1, <2>4, <2>5
<1>7. r.name \in StopNames(db) <=> next \notin D
  BY <1>2, <1>5, <1>6
<1>8. /\ db' \in Catalogue /\ StopNames(db') = StopNames(db) \cup {r.name}
      /\ db'.buses = db.buses /\ db'.distances = db.distances
      /\ db'.edges_to_buses = db.edges_to_buses
  BY <1>1, <1>2, <1>3, <1>4, StopAdded
<1>9. BusesMade'
  BY <1>1, <1>8, BusesKept
<1>10. \A n \in Before(D, next) : /\ DictTaken(requests[n].road_distances, requests[n].name)
                                  /\ requests[n].name \in StopNames(db)
                                  /\ n \in DOMAIN requests /\ requests[n] \in StopRequest
  <2> SUFFICES ASSUME NEW n \in Before(D, next)
               PROVE  /\ DictTaken(requests[n].road_distances, requests[n].name)
                      /\ requests[n].name \in StopNames(db)
                      /\ n \in DOMAIN requests /\ requests[n] \in StopRequest
    OBVIOUS
  <2>1. n \in D
    BY DEF Before
  <2>2. n \in DOMAIN requests /\ requests[n].type = "Stop" /\ requests[n] \in Request
    BY <1>2, <1>5, <2>1 DEF Declarations
  <2>3. requests[n] \in StopRequest
    BY <2>2 DEF Request, StopRequest, BusRequest, OtherRequest
  <2> QED
    BY <1>2, <1>5, <2>2, <2>3 DEF DistancesTaken
<1> HIDE DEF r, stop
<1>11. CASE next \notin D
  <2>1. db' = db /\ r.name \in StopNames(db)
    BY <1>1, <1>7, <1>11 DEF AddStop, stop
  <2>2. PICK n \in Before(D, next) : requests[n].name = r.name
    BY <1>6, <1>11
  <2>3. distances_for_stop[r.name] = requests[n].road_distances /\ requests[n] \in StopRequest
    BY <1>1, <1>10, <2>2 DEF DictTaken
  <2>4. distances_for_stop[r.name] # NoEntry
    BY <2>3, RoadDistancesAssumption DEF StopRequest
  <2>5. distances_for_stop' = distances_for_stop
    BY <1>1, <1>2, <2>4
  <2>6. StopsRead'
    BY <1>1, <1>2, <1>5, <1>6, <1>11, <2>1 DEF StopsRead
  <2>7. DistancesTaken'
    <3>1. \A k \in Before(D, next') : DictTaken(requests[k].road_distances, requests[k].name)
      BY <1>6, <1>10, <1>11
    <3>2. \A given, s : DictTaken(given, s) => DictTaken(given, s)'
      BY <1>1, <2>1, <2>5 DEF DictTaken
    <3>3. \A k \in Before(D, next') : DictTaken(requests[k].road_distances, requests[k].name)'
      BY <1>1, <3>1, <3>2
    <3> QED
      BY <1>1, <1>2, <1>5, <2>1, <3>3 DEF DistancesTaken
  <2> QED
    BY <1>1, <1>8, <1>9, <2>6, <2>7 DEF PromiseInv
<1>12. CASE next \in D
  <2>1. r.name \notin StopNames(db)
    BY <1>7, <1>12
  <2>2. db'.stops = Append(db.stops, stop)
    BY <1>1, <1>2, <2>1 DEF AddStop, stop, Catalogue
  <2>3. distances_for_stop[r.name] = NoEntry
    BY <1>2, <1>3, <2>1
  <2>4. distances_for_stop' = [distances_for_stop EXCEPT ![r.name] = r.road_distances]
    BY <1>1, <2>3
  <2>5. StopsRead'
    <3>1. PICK S : S = Before(D, next)
      OBVIOUS
    <3>2. S \in SUBSET Int /\ IsFiniteSet(S) /\ \A y \in S : y < next
      <4>1. S \in SUBSET DOMAIN requests /\ \A y \in S : y < next
        BY <1>6, <3>1 DEF Before
      <4> QED
        BY <1>2, <4>1, Positions
    <3>3. PICK f : f = StopAt(requests)
      OBVIOUS
    <3>4. f[next] = stop
      BY <1>5, <1>12, <3>3 DEF StopAt, stop, r
    <3>5. db.stops = Picked(f, S)
      BY <1>2, <1>5, <3>1, <3>3 DEF StopsRead
    <3>6. Picked(f, S \cup {next}) = Append(Picked(f, S), f[next])
      BY <1>2, <3>2, PickedMore
    <3>7. db'.stops = Picked(f, Before(D, next'))
      BY <1>6, <1>12, <2>2, <3>1, <3>4, <3>5, <3>6
    <3> QED
      BY <1>1, <1>5, <3>3, <3>7 DEF StopsRead
  <2>6. DistancesTaken'
    <3>1. ASSUME NEW n \in Before(D, next') PROVE DictTaken(requests[n].road_distances, requests[n].name)'
      <4>1. PICK given, s : given = requests[n].road_distances /\ s = requests[n].name
        OBVIOUS
      <4>2. given \in RoadDistances /\ s \in StopName /\ distances_for_stop'[s] = given
        <5>1. CASE n = next
          BY <1>2, <1>3, <2>4, <4>1, <5>1 DEF r
        <5>2. CASE n # next
          <6>1. n \in Before(D, next)
            BY <1>6, <5>2
          <6>2. /\ given \in RoadDistances /\ s \in StopName /\ distances_for_stop[s] = given
                /\ s # r.name
            BY <1>1, <1>10, <2>1, <4>1, <6>1 DEF DictTaken, StopRequest
          <6> QED
            BY <1>2, <2>4, <6>2
        <5> QED
          BY <5>1, <5>2
      <4>3. \A t \in StopPtr : db'.distances[<<s, t>>] = NoEntry
        <5>1. CASE n = next
          <6>1. s \in StopPtr \ StopNames(db)
            BY <2>1, <4>1, <4>2, <5>1 DEF StopPtr, r
          <6> QED
            BY <1>2, <1>8, <6>1 DEF DistancesTaken
        <5>2. CASE n # next
          <6>1. n \in Before(D, next)
            BY <1>6, <5>2
          <6>2. DictTaken(given, s) /\ given # NoEntry /\ distances_for_stop[s] = given
            BY <1>1, <1>10, <4>1, <4>2, <6>1, RoadDistancesAssumption DEF DictTaken
          <6>3. Keys(given) \ Left(distances_for_stop[s]) = {}
            BY <6>2 DEF Left
          <6>4. \A t \in StopPtr :
                  db.distances[<<s, t>>] =
                    LeastNamed(given, {k \in Keys(given) \ Left(distances_for_stop[s]) : GetStop(db, k) = t})
            BY <6>2 DEF DictTaken
          <6>5. \A t \in StopPtr : db.distances[<<s, t>>] = LeastNamed(given, {})
            BY <6>3, <6>4
          <6> QED
            BY <1>8, <6>5 DEF LeastNamed
        <5> QED
          BY <5>1, <5>2
      <4>4. Left(distances_for_stop'[s]) = Keys(given)
        BY <4>2, RoadDistancesAssumption DEF Left
      <4>5. Keys(given) \ Left(distances_for_stop'[s]) = {}
        BY <4>4
      <4>6. \A t \in StopPtr :
              {k \in Keys(given) \ Left(distances_for_stop'[s]) : GetStop(db', k) = t} = {}
        BY <4>5
      <4>7. \A t \in StopPtr :
              db'.distances[<<s, t>>] =
                LeastNamed(given, {k \in Keys(given) \ Left(distances_for_stop'[s]) : GetStop(db', k) = t})
        BY <4>3, <4>6 DEF LeastNamed
      <4>8. DictTaken(given, s)'
        BY <4>2, <4>4, <4>5, <4>7 DEF DictTaken
      <4> QED
        BY <1>1, <4>1, <4>8 DEF DictTaken
    <3>2. \A s \in StopPtr \ StopNames(db') : \A t \in StopPtr : db'.distances[<<s, t>>] = NoEntry
      BY <1>2, <1>8 DEF DistancesTaken
    <3> QED
      BY <1>1, <1>5, <3>1, <3>2 DEF DistancesTaken
  <2> QED
    BY <1>1, <1>8, <1>9, <2>5, <2>6 DEF PromiseInv
<1> QED
  BY <1>11, <1>12

\* A request that is no stop's declares no stop.
LEMMA StopsKept ==
    ASSUME LoaderInv, ResolveInv, PromiseInv, phase = "read", next <= Len(requests),
           requests[next].type # "Stop", next' = next + 1,
           UNCHANGED <<requests, phase, db, distances_for_stop>>
    PROVE  StopsRead' /\ DistancesTaken'
<1>1. /\ requests \in Seq(Request) /\ next \in DOMAIN requests /\ StopsRead /\ DistancesTaken
  BY PromiseBefore
<1>2. PICK D : D = Declarations(requests, "Stop")
  OBVIOUS
<1>3. /\ \A m : m \in Before(D, next + 1) <=> m \in Before(D, next) \/ (m = next /\ next \in D)
      /\ \A m \in D : requests[m].type = "Stop"
  BY <1>1, <1>2, DeclaredNext
<1>4. Before(D, next') = Before(D, next)
  BY <1>3
<1>5. StopsRead'
  BY <1>1, <1>2, <1>4 DEF StopsRead
<1>6. \A given, s : DictTaken(given, s) => DictTaken(given, s)'
  BY DEF DictTaken
<1>7. \A n \in Before(D, next') : DictTaken(requests[n].road_distances, requests[n].name)
  BY <1>1, <1>2, <1>4 DEF DistancesTaken
<1>8. \A n \in Before(D, next') : DictTaken(requests[n].road_distances, requests[n].name)'
  BY <1>6, <1>7
<1>9. DistancesTaken'
  BY <1>1, <1>2, <1>8 DEF DistancesTaken
<1> QED
  BY <1>5, <1>9

\* A bus request that is put aside is queued last.
LEMMA PromiseReadBus == LoaderInv /\ ResolveInv /\ PromiseInv /\ ReadBus => PromiseInv'
<1> SUFFICES ASSUME LoaderInv, ResolveInv, PromiseInv, ReadBus PROVE PromiseInv'
  OBVIOUS
<1>1. /\ phase = "read" /\ next <= Len(requests) /\ requests[next].type = "Bus"
      /\ next' = next + 1 /\ UNCHANGED <<requests, phase, db, distances_for_stop>>
      /\ UNCHANGED <<from, node, route>>
      /\ bus_queries' = Append(bus_queries, requests[next])
  BY DEF ReadBus, Reading, loops
<1>2. /\ requests \in Seq(Request) /\ next \in DOMAIN requests /\ next \in Int /\ BusesMade
      /\ node = 1
  BY <1>1, PromiseBefore DEF LoaderInv, LoopInv
<1>3. StopsRead' /\ DistancesTaken'
  BY <1>1, StopsKept
<1>4. BusesMade'
  <2>1. PICK m \in 1 .. next :
           /\ bus_queries = Picked(requests, Queued(m))
           /\ db.buses = Picked(BusAt(requests), Before(Declarations(requests, "Bus"), m))
    BY <1>2 DEF BusesMade
  <2>2. PICK S : S = Queued(m)
    OBVIOUS
  <2>3. S \in SUBSET Int /\ IsFiniteSet(S) /\ \A n \in S : n < next
    <3>1. S \in SUBSET DOMAIN requests /\ \A n \in S : n < next
      BY <2>2 DEF Queued
    <3> QED
      BY <1>2, <3>1, Positions
  <2>4. Queued(m)' = S \cup {next}
    <3>1. \A n \in DOMAIN requests : n \in Int
      BY <1>2, Positions
    <3>2. \A n \in DOMAIN requests : n < next + 1 <=> n < next \/ n = next
      BY <1>2, <3>1
    <3>3. m <= next
      BY <1>2
    <3>4. {n \in DOMAIN requests : requests[n].type = "Bus" /\ m <= n /\ n < next + 1}
          = {n \in DOMAIN requests : requests[n].type = "Bus" /\ m <= n /\ n < next} \cup {next}
      BY <1>1, <1>2, <3>2, <3>3
    <3> QED
      BY <1>1, <2>2, <3>4 DEF Queued
  <2>5. Picked(requests, S \cup {next}) = Append(Picked(requests, S), requests[next])
    BY <1>2, <2>3, PickedMore
  <2>6. bus_queries' = Picked(requests', Queued(m)')
    BY <1>1, <2>1, <2>2, <2>4, <2>5
  <2>7. m \in 1 .. next' /\ ~(node' > 1)
    BY <1>1, <1>2
  <2> QED
    BY <1>1, <2>1, <2>6, <2>7 DEF BusesMade
<1> QED
  BY <1>1, <1>3, <1>4 DEF PromiseInv

\* Other requests declare nothing.
LEMMA PromiseReadOther == LoaderInv /\ ResolveInv /\ PromiseInv /\ ReadOther => PromiseInv'
<1> SUFFICES ASSUME LoaderInv, ResolveInv, PromiseInv, ReadOther PROVE PromiseInv'
  OBVIOUS
<1>1. /\ phase = "read" /\ next <= Len(requests) /\ requests[next].type = "Other"
      /\ next' = next + 1 /\ UNCHANGED <<requests, phase, db, distances_for_stop>>
      /\ UNCHANGED <<from, node, route, bus_queries>>
  BY DEF ReadOther, Reading, loops
<1>2. StopsRead' /\ DistancesTaken'
  BY <1>1, StopsKept
<1>3. BusesMade'
  BY <1>1, BusesKept
<1> QED
  BY <1>1, <1>2, <1>3 DEF PromiseInv

\* From loop to loop all has been read, all distances are taken, all buses
\* made.
LEMMA PromisePhase ==
    LoaderInv /\ ResolveInv /\ PromiseInv /\ (StartDistances \/ StartRoutes \/ Finish) => PromiseInv'
<1> SUFFICES ASSUME LoaderInv, ResolveInv, PromiseInv, StartDistances \/ StartRoutes \/ Finish
             PROVE  PromiseInv'
  OBVIOUS
<1>1. /\ UNCHANGED <<requests, next, db, from, node, route, distances_for_stop, bus_queries>>
      /\ \/ phase = "read" /\ phase' = "distances" /\ next > Len(requests)
         \/ /\ phase = "distances" /\ phase' = "routes"
            /\ \A s \in StopName : distances_for_stop[s] = NoEntry
         \/ phase = "routes" /\ bus_queries = <<>> /\ phase' = "done"
  BY DEF StartDistances, StartRoutes, Finish, loops
<1>2. StopsRead /\ BusesMade /\ DistancesTaken /\ db.edges_to_buses = <<>>
  BY DEF PromiseInv
<1>3. StopsRead'
  BY <1>1, <1>2 DEF StopsRead
<1>4. BusesMade'
  BY <1>1, <1>2 DEF BusesMade, Queued
<1>5. \A given, s : DictTaken(given, s) => DictTaken(given, s)'
  BY <1>1 DEF DictTaken
<1>6. \A n \in Before(Declarations(requests, "Stop"), next) :
        DictTaken(requests[n].road_distances, requests[n].name)'
  BY <1>1, <1>2, <1>5 DEF DistancesTaken
<1>7. DistancesTaken'
  BY <1>1, <1>2, <1>6 DEF DistancesTaken
<1>8. phase' = "done" => bus_queries' = <<>>
  BY <1>1
<1> QED
  BY <1>1, <1>2, <1>3, <1>4, <1>7, <1>8 DEF PromiseInv

\* To take up the distances of a stop is to store none yet.
LEMMA PromiseTake ==
    ASSUME NEW stop \in StopName, LoaderInv, ResolveInv, PromiseInv, TakeDistances(stop)
    PROVE  PromiseInv'
<1>1. UNCHANGED <<requests, next, phase, db, node, route, distances_for_stop, bus_queries>>
  BY DEF TakeDistances
<1>2. \A given, s : DictTaken(given, s) => DictTaken(given, s)'
  BY <1>1 DEF DictTaken
<1>3. StopsRead' /\ BusesMade'
  BY <1>1 DEF PromiseInv, StopsRead, BusesMade, Queued
<1>4. \A n \in Before(Declarations(requests, "Stop"), next) :
        DictTaken(requests[n].road_distances, requests[n].name)'
  BY <1>1, <1>2 DEF PromiseInv, DistancesTaken
<1>5. DistancesTaken'
  BY <1>1, <1>4 DEF PromiseInv, DistancesTaken
<1> QED
  BY <1>1, <1>3, <1>5 DEF PromiseInv

\* A dictionary is left when no name of it is left.
LEMMA PromiseLeave == LoaderInv /\ ResolveInv /\ PromiseInv /\ LeaveDistances => PromiseInv'
<1> SUFFICES ASSUME LoaderInv, ResolveInv, PromiseInv, LeaveDistances PROVE PromiseInv'
  OBVIOUS
<1>1. /\ UNCHANGED <<requests, next, phase, db, node, route, bus_queries>>
      /\ phase = "distances" /\ from # NoStop /\ Keys(distances_for_stop[from]) = {}
      /\ distances_for_stop' = [distances_for_stop EXCEPT ![from] = NoEntry]
  BY DEF LeaveDistances
<1>2. /\ distances_for_stop \in [StopName -> {NoEntry} \cup RoadDistances]
      /\ from \in StopName
  BY <1>1, PromiseBefore DEF LoaderInv, TypeOK, StopPtr
<1>3. \A s \in StopName : /\ Left(distances_for_stop'[s]) = Left(distances_for_stop[s])
                          /\ s # from => distances_for_stop'[s] = distances_for_stop[s]
                          /\ s = from => Left(distances_for_stop[s]) = {}
  BY <1>1, <1>2 DEF Left
<1>4. ASSUME NEW given, NEW s \in StopName, DictTaken(given, s) PROVE DictTaken(given, s)'
  <2>1. \A k \in Left(distances_for_stop[s]) : distances_for_stop'[s][k] = distances_for_stop[s][k]
    BY <1>3
  <2> QED
    BY <1>1, <1>3, <1>4, <2>1 DEF DictTaken
<1>5. StopsRead' /\ BusesMade'
  BY <1>1 DEF PromiseInv, StopsRead, BusesMade, Queued
<1>6. \A n \in Before(Declarations(requests, "Stop"), next) :
        DictTaken(requests[n].road_distances, requests[n].name)'
  <2> SUFFICES ASSUME NEW n \in Before(Declarations(requests, "Stop"), next)
               PROVE  DictTaken(requests[n].road_distances, requests[n].name)'
    OBVIOUS
  <2>1. n \in DOMAIN requests /\ requests[n].type = "Stop" /\ requests[n] \in Request
    BY PromiseBefore DEF Before, Declarations
  <2>2. requests[n].name \in StopName
    BY <2>1, RequestFields
  <2>3. DictTaken(requests[n].road_distances, requests[n].name)
    BY DEF PromiseInv, DistancesTaken
  <2>4. PICK given, s : given = requests[n].road_distances /\ s = requests[n].name
    OBVIOUS
  <2>5. DictTaken(given, s)'
    BY <1>4, <2>2, <2>3, <2>4
  <2> QED
    BY <1>1, <2>4, <2>5
<1>7. DistancesTaken'
  BY <1>1, <1>6 DEF PromiseInv, DistancesTaken
<1> QED
  BY <1>1, <1>5, <1>7 DEF PromiseInv

\* A greater name does not change which is the least.
LEMMA LeastNamedMore ==
    ASSUME NEW dict, NEW names \in SUBSET Nat, NEW x \in Nat, \A k \in names : k < x
    PROVE  /\ LeastNamed(dict, names \cup {x}) =
                IF names = {} THEN dict[x] ELSE LeastNamed(dict, names)
           /\ names # {} => \E k \in names : LeastNamed(dict, names) = dict[k]
<1>1. ASSUME NEW S \in SUBSET Nat, NEW k \in S, \A y \in S : k <= y PROVE Min(S) = k
  <2>1. \A l \in S : (\A y \in S : l <= y) <=> l = k
    <3> SUFFICES ASSUME NEW l \in S PROVE (\A y \in S : l <= y) <=> l = k
      OBVIOUS
    <3>1. l \in Nat /\ k \in Nat /\ k <= l
      BY <1>1
    <3>2. (\A y \in S : l <= y) => l <= k
      OBVIOUS
    <3> QED
      BY <1>1, <3>1, <3>2
  <2>2. Min(S) = CHOOSE l \in S : \A y \in S : l <= y
    BY DEF Min
  <2>3. (CHOOSE l \in S : \A y \in S : l <= y) \in S /\ \A y \in S : (CHOOSE l \in S : \A z \in S : l <= z) <= y
    BY <1>1
  <2> QED
    BY <2>1, <2>2, <2>3
<1>2. CASE names = {}
  <2>1. PICK S : S = names \cup {x}
    OBVIOUS
  <2>2. S \in SUBSET Nat /\ x \in S /\ \A y \in S : x <= y
    BY <1>2, <2>1
  <2>3. Min(S) = x
    BY <1>1, <2>2
  <2> QED
    BY <1>2, <2>1, <2>2, <2>3 DEF LeastNamed
<1>3. CASE names # {}
  <2>1. PICK k \in names : \A y \in names : k <= y
    BY <1>3, LeastNumber
  <2>2. PICK S : S = names \cup {x}
    OBVIOUS
  <2>3. S \in SUBSET Nat /\ k \in S /\ \A y \in S : k <= y
    <3>1. k <= x
      <4>1. k < x /\ k \in Nat
        BY <2>1
      <4> QED
        BY <4>1
    <3> QED
      BY <2>1, <2>2, <3>1
  <2>4. Min(S) = k
    BY <1>1, <2>3
  <2>5. Min(names) = k
    BY <1>1, <2>1
  <2>6. S # {}
    BY <2>3
  <2>7. LeastNamed(dict, S) = dict[k] /\ LeastNamed(dict, names) = dict[k]
    BY <1>3, <2>4, <2>5, <2>6 DEF LeastNamed
  <2> QED
    BY <1>3, <2>2, <2>7
<1> QED
  BY <1>2, <1>3

\* The distance to the next name is stored unless a lesser one fell together
\* with it.
LEMMA PromiseDistance ==
    ASSUME NEW name \in StopName, LoaderInv, ResolveInv, PromiseInv, UpdateDistances(name)
    PROVE  PromiseInv'
<1>1. /\ UNCHANGED <<requests, next, phase, from, node, route, bus_queries>>
      /\ phase = "distances" /\ from # NoStop
      /\ name \in Keys(distances_for_stop[from])
      /\ \A s \in Keys(distances_for_stop[from]) : name <= s
      /\ db' = SetDistance(db, from, GetStop(db, name), distances_for_stop[from][name])
      /\ distances_for_stop' = [distances_for_stop EXCEPT ![from][name] = NoEntry]
  BY DEF UpdateDistances, loops
<1>2. /\ requests \in Seq(Request) /\ next \in Int /\ db \in Catalogue
      /\ StopsRead /\ BusesMade /\ DistancesTaken
      /\ StopNames(db) = {requests[n].name : n \in Before(Declarations(requests, "Stop"), next)}
      /\ \A s \in StopName : distances_for_stop[s] # NoEntry => s \in StopNames(db)
      /\ distances_for_stop \in [StopName -> {NoEntry} \cup RoadDistances]
      /\ from \in StopName /\ distances_for_stop[from] # NoEntry
  BY <1>1, PromiseBefore DEF LoaderInv, TypeOK, StopPtr
<1>3. PICK dict, to, d : dict = distances_for_stop[from] /\ to = GetStop(db, name) /\ d = dict[name]
  OBVIOUS
<1>4. /\ dict \in RoadDistances /\ from \in StopNames(db) /\ StopNames(db) \subseteq StopName
      /\ to \in StopPtr /\ from \in StopPtr /\ d \in Int /\ d # NoEntry
  <2>1. dict \in RoadDistances /\ from \in StopNames(db) /\ StopNames(db) \subseteq StopName
    BY <1>2, <1>3, CatalogueFields
  <2>2. d # NoEntry /\ d \in {NoEntry} \cup Int
    BY <1>1, <1>3, <2>1 DEF Keys, RoadDistances
  <2> QED
    BY <1>2, <1>3, <2>1, <2>2 DEF GetStop, StopPtr
<1>5. /\ db'.stops = db.stops /\ db'.buses = db.buses /\ db'.edges_to_buses = db.edges_to_buses
      /\ db'.distances = IF db.distances[<<from, to>>] = NoEntry
                         THEN [db.distances EXCEPT ![<<from, to>>] = d] ELSE db.distances
  BY <1>1, <1>2, <1>3, <1>4, DistanceSet
<1>6. StopNames(db') = StopNames(db) /\ \A k : GetStop(db', k) = GetStop(db, k)
  BY <1>5 DEF StopNames, GetStop
<1>7. StopsRead' /\ BusesMade'
  BY <1>1, <1>2, <1>5, <1>6 DEF StopsRead, BusesMade, Queued
<1>8. \A s \in StopPtr, t \in StopPtr :
        db'.distances[<<s, t>>] = IF s = from /\ t = to /\ db.distances[<<from, to>>] = NoEntry
                                  THEN d ELSE db.distances[<<s, t>>]
  <2>1. \A s \in StopPtr, t \in StopPtr : <<s, t>> \in StopPair
    BY DEF StopPair
  <2>2. db.distances \in [StopPair -> {NoEntry} \cup Int]
    BY <1>2, CatalogueFields
  <2> QED
    BY <1>4, <1>5, <2>1, <2>2
<1>9. PICK e : e = [dict EXCEPT ![name] = NoEntry]
  OBVIOUS
<1>10. /\ e \in RoadDistances /\ e # NoEntry
       /\ Keys(e) = Keys(dict) \ {name} /\ \A k \in Keys(e) : e[k] = dict[k]
       /\ distances_for_stop' = [distances_for_stop EXCEPT ![from] = e]
  <2>1. e \in RoadDistances /\ e # NoEntry
    BY <1>4, <1>9, RoadDistancesAssumption DEF RoadDistances
  <2>2. Keys(e) = Keys(dict) \ {name} /\ \A k \in Keys(e) : e[k] = dict[k]
    BY <1>4, <1>9 DEF Keys, RoadDistances
  <2>3. distances_for_stop' = [distances_for_stop EXCEPT ![from] = e]
    BY <1>1, <1>3, <1>9
  <2> QED
    BY <2>1, <2>2, <2>3
<1>11. /\ distances_for_stop'[from] = e /\ Left(distances_for_stop'[from]) = Keys(dict) \ {name}
       /\ Left(distances_for_stop[from]) = Keys(dict) /\ name \in Keys(dict)
       /\ \A s \in StopName : s # from => distances_for_stop'[s] = distances_for_stop[s]
  BY <1>1, <1>2, <1>3, <1>4, <1>10, RoadDistancesAssumption DEF Left
<1>12. ASSUME NEW given, NEW s \in StopName, DictTaken(given, s), s # from PROVE DictTaken(given, s)'
  <2>1. \A t \in StopPtr : db'.distances[<<s, t>>] = db.distances[<<s, t>>]
    BY <1>8, <1>12 DEF StopPtr
  <2>2. distances_for_stop'[s] = distances_for_stop[s]
    BY <1>11, <1>12
  <2> QED
    BY <1>1, <1>6, <1>12, <2>1, <2>2 DEF DictTaken
<1>13. ASSUME NEW given, DictTaken(given, from) PROVE DictTaken(given, from)'
  <2>1. PICK taken : taken = Keys(given) \ Keys(dict)
    OBVIOUS
  <2>2. /\ Keys(dict) \subseteq Keys(given) /\ \A k \in Keys(dict) : dict[k] = given[k]
        /\ \A k \in taken : \A l \in Keys(dict) : k < l
        /\ \A t \in StopPtr :
             db.distances[<<from, t>>] = LeastNamed(given, {k \in taken : GetStop(db, k) = t})
    BY <1>3, <1>11, <1>13, <2>1 DEF DictTaken
  <2>3. Keys(given) \ (Keys(dict) \ {name}) = taken \cup {name} /\ name \notin taken
    BY <1>11, <2>1, <2>2
  <2>4. taken \in SUBSET Nat /\ Keys(dict) \in SUBSET Nat /\ name \in Nat
    BY StopNameAssumption, <2>1 DEF Keys
  <2>5. \A k \in taken \cup {name} : \A l \in Keys(dict) \ {name} : k < l
    <3> SUFFICES ASSUME NEW k \in taken \cup {name}, NEW l \in Keys(dict) \ {name} PROVE k < l
      OBVIOUS
    <3>1. CASE k = name
      <4>1. name <= l /\ name # l /\ l \in Nat
        BY <1>1, <1>3, <2>4
      <4> QED
        BY <2>4, <3>1, <4>1
    <3>2. CASE k \in taken
      BY <2>2, <3>2
    <3> QED
      BY <3>1, <3>2
  <2>6. ASSUME NEW t \in StopPtr
        PROVE  db'.distances[<<from, t>>] =
                 LeastNamed(given, {k \in taken \cup {name} : GetStop(db, k) = t})
    <3>1. PICK names : names = {k \in taken : GetStop(db, k) = t}
      OBVIOUS
    <3>2. names \in SUBSET Nat /\ (\A k \in names : k < name) /\ names \subseteq taken
      BY <1>11, <2>2, <2>4, <3>1
    <3>3. db.distances[<<from, t>>] = LeastNamed(given, names)
      BY <2>2, <3>1
    <3>4. /\ LeastNamed(given, names \cup {name}) =
               IF names = {} THEN given[name] ELSE LeastNamed(given, names)
          /\ names # {} => \E k \in names : LeastNamed(given, names) = given[k]
      BY <2>4, <3>2, LeastNamedMore
    <3>5. \A k \in names : given[k] # NoEntry
      BY <2>1, <3>2 DEF Keys
    <3>6. db.distances[<<from, t>>] = NoEntry <=> names = {}
      BY <3>3, <3>4, <3>5 DEF LeastNamed
    <3>7. given[name] = d
      BY <1>3, <1>11, <2>2
    <3>8. CASE t = to
      <4>1. {k \in taken \cup {name} : GetStop(db, k) = t} = names \cup {name}
        BY <1>3, <3>1, <3>8
      <4>2. db'.distances[<<from, t>>] = IF names = {} THEN d ELSE LeastNamed(given, names)
        BY <1>4, <1>8, <3>3, <3>6, <3>8
      <4> QED
        BY <3>4, <3>7, <4>1, <4>2
    <3>9. CASE t # to
      <4>1. {k \in taken \cup {name} : GetStop(db, k) = t} = names
        BY <1>3, <3>1, <3>9
      <4>2. db'.distances[<<from, t>>] = db.distances[<<from, t>>]
        BY <1>4, <1>8, <3>9
      <4> QED
        BY <3>3, <4>1, <4>2
    <3> QED
      BY <3>8, <3>9
  <2>7. \A t \in StopPtr :
          db'.distances[<<from, t>>] =
            LeastNamed(given, {k \in taken \cup {name} : GetStop(db', k) = t})
    BY <1>6, <2>6
  <2>8. /\ phase' # "read"
        /\ Keys(dict) \ {name} \subseteq Keys(given)
        /\ \A k \in Keys(dict) \ {name} : distances_for_stop'[from][k] = given[k]
    BY <1>1, <1>10, <1>11, <2>2
  <2> QED
    BY <1>1, <1>11, <2>3, <2>5, <2>7, <2>8 DEF DictTaken
<1>14. \A n \in Before(Declarations(requests, "Stop"), next) :
         DictTaken(requests[n].road_distances, requests[n].name)'
  <2> SUFFICES ASSUME NEW n \in Before(Declarations(requests, "Stop"), next)
               PROVE  DictTaken(requests[n].road_distances, requests[n].name)'
    OBVIOUS
  <2>1. PICK given, s : given = requests[n].road_distances /\ s = requests[n].name
    OBVIOUS
  <2>2. DictTaken(given, s) /\ s \in StopNames(db)
    BY <1>2, <2>1 DEF DistancesTaken
  <2>3. s \in StopName
    BY <1>4, <2>2
  <2>4. DictTaken(given, s)'
    <3>1. CASE s = from
      <4>1. DictTaken(given, from)'
        BY <1>13, <2>2, <3>1
      <4>2. from' = s
        BY <1>1, <3>1
      <4> QED
        BY <4>1, <4>2 DEF DictTaken
    <3>2. CASE s # from
      BY <1>12, <2>2, <2>3, <3>2
    <3> QED
      BY <3>1, <3>2
  <2> QED
    BY <1>1, <2>1, <2>4
<1>15. DistancesTaken'
  <2>1. \A s \in StopPtr \ StopNames(db') : \A t \in StopPtr : db'.distances[<<s, t>>] = NoEntry
    BY <1>2, <1>4, <1>6, <1>8 DEF DistancesTaken
  <2> QED
    BY <1>1, <1>14, <2>1 DEF DistancesTaken
<1> QED
  BY <1>1, <1>5, <1>7, <1>15 DEF PromiseInv

\* The stops of the bus found so far, one read more.
LEMMA PromisePush == LoaderInv /\ ResolveInv /\ PromiseInv /\ PushStop => PromiseInv'
<1> SUFFICES ASSUME LoaderInv, ResolveInv, PromiseInv, PushStop PROVE PromiseInv'
  OBVIOUS
<1>1. PICK stops : stops = Head(bus_queries).stops
  OBVIOUS
<1>2. /\ UNCHANGED <<requests, next, phase, db, from, distances_for_stop, bus_queries>>
      /\ phase = "routes" /\ bus_queries # <<>> /\ node <= Len(stops)
      /\ route' = IF stops[node] \in StopNames(db) THEN Append(route, stops[node]) ELSE route
      /\ node' = node + 1
  BY <1>1 DEF PushStop
<1>3. /\ node \in Nat \ {0} /\ (node = 1 => route = <<>>)
      /\ StopsRead /\ BusesMade /\ DistancesTaken
  BY DEF LoaderInv, TypeOK, LoopInv, PromiseInv
<1>4. PICK S : S = {n \in 1 .. node - 1 : stops[n] \in StopNames(db)}
  OBVIOUS
<1>5. S \in SUBSET Int /\ IsFiniteSet(S) /\ \A n \in S : n < node
  <2>1. IsFiniteSet(1 .. node - 1) /\ S \in SUBSET (1 .. node - 1)
    <3>1. node - 1 \in Int /\ 1 \in Int
      BY <1>3
    <3> QED
      BY <1>4, <3>1, FS_Interval
  <2>2. IsFiniteSet(S)
    BY <2>1, FS_Subset
  <2> QED
    BY <1>3, <2>1, <2>2
<1>6. route = Picked(stops, S)
  <2>1. CASE node = 1
    <3>1. S = {}
      BY <1>4, <2>1
    <3> QED
      BY <1>3, <2>1, <3>1, PickedNone
  <2>2. CASE node # 1
    <3>1. node > 1
      BY <1>3, <2>2
    <3> QED
      BY <1>1, <1>3, <1>4, <3>1 DEF BusesMade
  <2> QED
    BY <2>1, <2>2
<1>7. PICK T : T = {n \in 1 .. node : stops[n] \in StopNames(db)}
  OBVIOUS
<1>8. T = IF stops[node] \in StopNames(db) THEN S \cup {node} ELSE S
  <2>1. \A n : n \in 1 .. node <=> n \in 1 .. node - 1 \/ n = node
    BY <1>3
  <2> QED
    BY <1>4, <1>7, <2>1
<1>9. route' = Picked(stops, T)
  <2>1. Picked(stops, S \cup {node}) = Append(Picked(stops, S), stops[node])
    <3>1. node \in Int
      BY <1>3
    <3> QED
      BY <1>5, <3>1, PickedMore
  <2>2. CASE stops[node] \in StopNames(db)
    BY <1>2, <1>6, <1>8, <2>1, <2>2
  <2>3. CASE stops[node] \notin StopNames(db)
    BY <1>2, <1>6, <1>8, <2>3
  <2> QED
    BY <2>2, <2>3
<1>10. BusesMade'
  <2>1. node' - 1 = node
    BY <1>2, <1>3
  <2>2. Head(bus_queries').stops = stops /\ StopNames(db') = StopNames(db)
    BY <1>1, <1>2
  <2>3. T = {n \in 1 .. node' - 1 : stops[n] \in StopNames(db')}
    BY <1>7, <2>1, <2>2
  <2>4. \A m : Queued(m)' = Queued(m)
    BY <1>2 DEF Queued
  <2>5. PICK m \in 1 .. next :
          /\ bus_queries = Picked(requests, Queued(m))
          /\ db.buses = Picked(BusAt(requests), Before(Declarations(requests, "Bus"), m))
    BY <1>3 DEF BusesMade
  <2>6. /\ m \in 1 .. next' /\ bus_queries' = Picked(requests', Queued(m)')
        /\ db'.buses = Picked(BusAt(requests'), Before(Declarations(requests', "Bus"), m))
    BY <1>2, <2>4, <2>5
  <2> QED
    BY <1>9, <2>2, <2>3, <2>6 DEF BusesMade
<1>11. StopsRead'
  BY <1>2, <1>3 DEF StopsRead
<1>12. DistancesTaken'
  <2>1. \A given, s : DictTaken(given, s) => DictTaken(given, s)'
    BY <1>2 DEF DictTaken
  <2>2. \A n \in Before(Declarations(requests, "Stop"), next) :
          DictTaken(requests[n].road_distances, requests[n].name)'
    BY <1>2, <1>3, <2>1 DEF DistancesTaken
  <2> QED
    BY <1>2, <1>3, <2>2 DEF DistancesTaken
<1> QED
  BY <1>2, <1>10, <1>11, <1>12 DEF PromiseInv

\* There and back, as the document declares it.
LEMMA RouteDeclared ==
    ASSUME NEW known \in Seq(StopName), NEW roundtrip \in BOOLEAN
    PROVE  LET k == Len(known)
               length == IF roundtrip \/ k = 0 THEN k ELSE 2 * k - 1
           IN  (IF roundtrip THEN known ELSE known \o WayBack(known)) =
                  [n \in 1 .. length |-> IF n <= k THEN known[n] ELSE known[2 * k - n]]
<1>1. PICK k : k = Len(known)
  OBVIOUS
<1>2. k \in Nat /\ known = [n \in 1 .. k |-> known[n]]
  BY <1>1
<1>3. CASE roundtrip \/ k = 0
  <2>1. (IF roundtrip THEN known ELSE known \o WayBack(known)) = known
    <3>1. CASE roundtrip
      BY <3>1
    <3>2. CASE ~roundtrip
      <4>1. known = <<>>
        BY <1>1, <1>3, <3>2
      <4>2. WayBack(known) = <<>>
        BY <4>1 DEF WayBack
      <4> QED
        BY <3>2, <4>1, <4>2
    <3> QED
      BY <3>1, <3>2
  <2>2. [n \in 1 .. k |-> IF n <= k THEN known[n] ELSE known[2 * k - n]] = known
    <3>1. \A n \in 1 .. k : n <= k
      BY <1>2
    <3>2. [n \in 1 .. k |-> IF n <= k THEN known[n] ELSE known[2 * k - n]] = [n \in 1 .. k |-> known[n]]
      BY <3>1
    <3> QED
      BY <1>2, <3>2
  <2> QED
    BY <1>1, <1>3, <2>1, <2>2
<1>4. CASE ~roundtrip /\ k # 0
  <2>1. PICK t : t = known \o WayBack(known)
    OBVIOUS
  <2>2. known # <<>>
    BY <1>1, <1>4
  <2>3. /\ t \in Seq(StopName) /\ Len(t) = 2 * k - 1
        /\ \A i \in 1 .. 2 * k - 1 : t[i] = IF i <= k THEN known[i] ELSE known[2 * k - i]
    BY <1>1, <2>1, <2>2, ThereAndBack
  <2>4. t = [n \in 1 .. 2 * k - 1 |-> t[n]]
    BY <1>2, <2>3
  <2>5. t = [n \in 1 .. 2 * k - 1 |-> IF n <= k THEN known[n] ELSE known[2 * k - n]]
    BY <2>3, <2>4
  <2> QED
    BY <1>1, <1>4, <2>1, <2>5
<1> QED
  BY <1>3, <1>4

\* The bus made of a request is the declared one.
LEMMA MadeAsDeclared ==
    ASSUME LoaderInv, ResolveInv, PromiseInv, phase = "routes", bus_queries # <<>>,
           node > Len(Head(bus_queries).stops)
    PROVE  MakeBus(Head(bus_queries)) = DeclaredBus(requests, Head(bus_queries))
<1>1. PICK q, stops : q = Head(bus_queries) /\ stops = q.stops
  OBVIOUS
<1>2. /\ BusesMade /\ StopNames(db) = DeclaredStops(requests)
      /\ route \in Seq(StopName) /\ node \in Nat \ {0}
      /\ (node = 1 => route = <<>>) /\ (node > 1 => node - 1 \in DOMAIN stops)
  BY <1>1, PromiseBefore DEF LoaderInv, TypeOK, LoopInv
<1>3. q \in BusRequest
  BY <1>1, HeadTailProperties DEF LoaderInv, TypeOK
<1>4. stops \in Seq(StopName) /\ q.is_roundtrip \in BOOLEAN /\ node > Len(stops)
  BY <1>1, <1>3 DEF BusRequest
<1>5. Len(stops) \in Nat /\ DOMAIN stops = 1 .. Len(stops)
  BY <1>4
<1>6. PICK names : names = DeclaredStops(requests)
  OBVIOUS
<1>7. PICK known : known = Picked(stops, {n \in DOMAIN stops : stops[n] \in names})
  OBVIOUS
<1>8. route = known
  <2>1. CASE node = 1
    <3>1. {n \in DOMAIN stops : stops[n] \in names} = {}
      BY <1>4, <1>5, <2>1
    <3> QED
      BY <1>2, <1>7, <2>1, <3>1, PickedNone
  <2>2. CASE node # 1
    <3>1. node > 1
      BY <1>2, <2>2
    <3>2. 1 .. node - 1 = DOMAIN stops
      BY <1>2, <1>4, <1>5, <3>1
    <3>3. route = Picked(stops, {n \in 1 .. node - 1 : stops[n] \in StopNames(db)})
      BY <1>1, <1>2, <3>1 DEF BusesMade
    <3> QED
      BY <1>2, <1>6, <1>7, <3>2, <3>3
  <2> QED
    BY <2>1, <2>2
<1>9. known = Filter(stops, LAMBDA s : s \in names)
  BY <1>7 DEF Filter, Picked
<1>10. /\ stops # <<>> => Head(stops) = stops[1] /\ Last(stops) = stops[Len(stops)]
       /\ \A s : GetStop(db, s) = IF s \in names THEN s ELSE NoStop
  BY <1>2, <1>4, <1>6 DEF GetStop, Last
<1>11. PICK way : way = IF q.is_roundtrip THEN known ELSE known \o WayBack(known)
  OBVIOUS
<1>12. way = LET k == Len(known)
                 length == IF q.is_roundtrip \/ k = 0 THEN k ELSE 2 * k - 1
             IN  [n \in 1 .. length |-> IF n <= k THEN known[n] ELSE known[2 * k - n]]
  BY <1>2, <1>4, <1>8, <1>11, RouteDeclared
<1>13. PICK start, end :
         /\ start = IF stops # <<>> /\ stops[1] \in names THEN stops[1] ELSE NoStop
         /\ end = IF stops # <<>> /\ stops[Len(stops)] \in names THEN stops[Len(stops)] ELSE NoStop
  OBVIOUS
<1>14. MakeBus(q) = [name |-> q.name, route |-> way, unique_stops |-> Cardinality(ToSet(known)),
                     is_roundtrip |-> q.is_roundtrip, start_stop |-> start, end_stop |-> end]
  BY <1>1, <1>8, <1>10, <1>11, <1>13 DEF MakeBus
<1>15. DeclaredBus(requests, q) =
         [name |-> q.name, route |-> way, unique_stops |-> Cardinality(ToSet(known)),
          is_roundtrip |-> q.is_roundtrip, start_stop |-> start, end_stop |-> end]
  BY <1>1, <1>6, <1>9, <1>12, <1>13 DEF DeclaredBus
<1> QED
  BY <1>1, <1>14, <1>15

\* A name is a stored bus's as soon as a bus declaration handled declared it.
LEMMA BusNamesMade ==
    ASSUME NEW rs \in Seq(Request), NEW d, NEW m \in Int,
           d.buses = Picked(BusAt(rs), Before(Declarations(rs, "Bus"), m))
    PROVE  BusNames(d) = {rs[n].name : n \in Before(Declarations(rs, "Bus"), m)}
<1>0. PICK D, S : D = Declarations(rs, "Bus") /\ S = Before(D, m)
  OBVIOUS
<1>1. D \in SUBSET DOMAIN rs
  BY <1>0 DEF Declarations
<1>2. S \in SUBSET D /\ S \in SUBSET Int /\ IsFiniteSet(S)
  <2>1. S \in SUBSET DOMAIN rs /\ S \in SUBSET D
    BY <1>0, <1>1 DEF Before
  <2> QED
    BY <2>1, Positions
<1>3. PICK f : f = BusAt(rs)
  OBVIOUS
<1>4. \A n \in S : f[n].name = rs[n].name
  BY <1>0, <1>2, <1>3 DEF BusAt, DeclaredBus
<1>5. \A y : y \in ToSet(d.buses) <=> \E n \in S : y = f[n]
  <2>1. PICK W : W = {f[n] : n \in S}
    OBVIOUS
  <2>2. \A n \in S : f[n] \in W
    BY <2>1
  <2>3. d.buses = Picked(f, S)
    BY <1>0, <1>3
  <2>4. \A y : y \in ToSet(Picked(f, S)) <=> \E n \in S : y = f[n]
    <3>1. S \in SUBSET Int /\ IsFiniteSet(S)
      BY <1>2
    <3> QED
      BY <2>2, <3>1, PickedSeq
  <2> QED
    BY <2>3, <2>4
<1>6. \A x : x \in BusNames(d) <=> \E y \in ToSet(d.buses) : x = y.name
  BY DEF BusNames, ToSet
<1>7. BusNames(d) = {rs[n].name : n \in S}
  BY <1>4, <1>5, <1>6
<1> QED
  BY <1>0, <1>7

\* The bus made is the next one declared, or one of a name that was.
LEMMA PromiseRoutes == LoaderInv /\ ResolveInv /\ PromiseInv /\ UpdateRoutes => PromiseInv'
<1> SUFFICES ASSUME LoaderInv, ResolveInv, PromiseInv, UpdateRoutes PROVE PromiseInv'
  OBVIOUS
<1>1. PICK q, bus : q = Head(bus_queries) /\ bus = MakeBus(q)
  OBVIOUS
<1>2. /\ UNCHANGED <<requests, next, phase, from, distances_for_stop>>
      /\ phase = "routes" /\ bus_queries # <<>> /\ node > Len(q.stops)
      /\ db' = AddBus(db, bus) /\ bus_queries' = Tail(bus_queries) /\ node' = 1
  BY <1>1 DEF UpdateRoutes
<1>3. /\ requests \in Seq(Request) /\ next \in Int /\ db \in Catalogue
      /\ StopsRead /\ BusesMade /\ DistancesTaken
      /\ DOMAIN requests = 1 .. Len(requests) /\ Len(requests) \in Nat
      /\ next \in 1 .. Len(requests) + 1
  BY PromiseBefore
<1>4. bus = DeclaredBus(requests, q)
  BY <1>1, <1>2, MadeAsDeclared
<1>5. /\ db'.stops = db.stops /\ db'.distances = db.distances
      /\ db'.edges_to_buses = db.edges_to_buses
      /\ db'.buses = IF bus.name \in BusNames(db) THEN db.buses ELSE Append(db.buses, bus)
  <2>1. bus \in Bus /\ WellFormed(db, bus)
    BY <1>1, BusMade DEF UpdateRoutes
  <2>2. Mirrors(db) /\ \A k \in DOMAIN db.buses : WellFormed(db, db.buses[k])
    BY InvBefore
  <2> QED
    BY <1>2, <1>3, <2>1, <2>2, BusAdded
<1>6. PICK m \in 1 .. next :
         /\ bus_queries = Picked(requests, Queued(m))
         /\ db.buses = Picked(BusAt(requests), Before(Declarations(requests, "Bus"), m))
  BY <1>3 DEF BusesMade
<1>7. PICK S : S = Queued(m)
  OBVIOUS
<1>8. /\ S \in SUBSET Nat /\ S \in SUBSET Int /\ IsFiniteSet(S) /\ S # {}
      /\ \A n \in S : n \in DOMAIN requests /\ requests[n].type = "Bus" /\ m <= n /\ n < next
  <2>1. S \in SUBSET DOMAIN requests
    BY <1>7 DEF Queued
  <2>2. S # {}
    BY <1>2, <1>6, <1>7, PickedNone
  <2> QED
    BY <1>3, <1>7, <2>1, <2>2, Positions DEF Queued
<1>9. PICK h \in S : \A n \in S : h <= n
  BY <1>8, LeastNumber
<1>10. h \in DOMAIN requests /\ h \in Int /\ m \in Int /\ m <= h /\ h < next /\ requests[h].type = "Bus"
  BY <1>3, <1>8, <1>9
<1>11. q = requests[h] /\ bus_queries' = Picked(requests, S \ {h})
  <2>1. /\ Head(Picked(requests, S)) = requests[h]
        /\ Tail(Picked(requests, S)) = Picked(requests, S \ {h})
    BY <1>8, <1>9, PickedLess
  <2> QED
    BY <1>1, <1>2, <1>6, <1>7, <2>1
<1>12. S \ {h} = Queued(h + 1)
  <2>1. ASSUME NEW n \in DOMAIN requests, requests[n].type = "Bus", n < next
        PROVE  (m <= n /\ n # h) <=> h + 1 <= n
    <3>1. n \in Int
      BY <1>3
    <3>2. m <= n => h <= n
      BY <1>7, <1>9, <2>1 DEF Queued
    <3> QED
      BY <1>10, <3>1, <3>2
  <2> QED
    BY <1>7, <2>1 DEF Queued
<1>13. PICK D : D = Declarations(requests, "Bus")
  OBVIOUS
<1>14. /\ D \in SUBSET DOMAIN requests
       /\ \A n \in D : requests[n].type = "Bus"
       /\ \A n \in Before(D, h) : h \in D => requests[n].name # requests[h].name
       /\ h \notin D => \E n \in Before(D, h) : requests[n].name = requests[h].name
       /\ \A n : n \in Before(D, h + 1) <=> n \in Before(D, h) \/ (n = h /\ h \in D)
  <2>1. requests \in Seq(Request) /\ h \in DOMAIN requests /\ requests[h].type = "Bus"
    BY <1>3, <1>10
  <2>2. /\ D \in SUBSET DOMAIN requests
        /\ \A n \in D : requests[n].type = "Bus"
    BY <1>13, <2>1, DeclaredNext
  <2>3. /\ \A n \in Before(D, h) : h \in D => requests[n].name # requests[h].name
        /\ h \notin D => \E n \in Before(D, h) : requests[n].name = requests[h].name
    BY <1>13, <2>1, DeclaredNext
  <2>4. \A n : n \in Before(D, h + 1) <=> n \in Before(D, h) \/ (n = h /\ h \in D)
    BY <1>13, <2>1, DeclaredNext
  <2> QED
    BY <2>2, <2>3, <2>4
<1>15. Before(D, m) = Before(D, h)
  <2>1. ASSUME NEW n \in D PROVE n < m <=> n < h
    <3>1. n \in DOMAIN requests /\ requests[n].type = "Bus" /\ n \in Int
      BY <1>3, <1>14
    <3>2. m <= n /\ n < next => h <= n
      BY <1>7, <1>9, <3>1 DEF Queued
    <3> QED
      BY <1>3, <1>10, <3>1, <3>2
  <2> QED
    BY <2>1 DEF Before
<1>16. PICK f, B : f = BusAt(requests) /\ B = Before(D, h)
  OBVIOUS
<1>17. db.buses = Picked(f, B)
  BY <1>6, <1>13, <1>15, <1>16
<1>18. BusNames(db) = {requests[n].name : n \in B}
  BY <1>3, <1>10, <1>13, <1>16, <1>17, BusNamesMade
<1>19. bus.name = requests[h].name
  BY <1>4, <1>11 DEF DeclaredBus
<1>20. bus.name \in BusNames(db) <=> h \notin D
  BY <1>14, <1>16, <1>18, <1>19
<1>21. db'.buses = Picked(f, Before(D, h + 1))
  <2>1. CASE h \in D
    <3>1. Before(D, h + 1) = B \cup {h}
      BY <1>14, <1>16, <2>1
    <3>2. f[h] = bus
      BY <1>4, <1>11, <1>13, <1>16, <2>1 DEF BusAt
    <3>3. B \in SUBSET Int /\ IsFiniteSet(B) /\ \A n \in B : n < h
      <4>1. B \in SUBSET DOMAIN requests /\ \A n \in B : n < h
        BY <1>14, <1>16 DEF Before
      <4> QED
        BY <1>3, <4>1, Positions
    <3>4. Picked(f, B \cup {h}) = Append(Picked(f, B), f[h])
      BY <1>10, <3>3, PickedMore
    <3> QED
      BY <1>5, <1>17, <1>20, <2>1, <3>1, <3>2, <3>4
  <2>2. CASE h \notin D
    <3>1. Before(D, h + 1) = B
      BY <1>14, <1>16, <2>2
    <3> QED
      BY <1>5, <1>17, <1>20, <2>2, <3>1
  <2> QED
    BY <2>1, <2>2
<1>22. BusesMade'
  <2>1. h + 1 \in 1 .. next' /\ ~(node' > 1)
    BY <1>2, <1>3, <1>10
  <2>2. Queued(h + 1)' = Queued(h + 1)
    BY <1>2 DEF Queued
  <2>3. /\ bus_queries' = Picked(requests', Queued(h + 1)')
        /\ db'.buses = Picked(BusAt(requests'), Before(Declarations(requests', "Bus"), h + 1))
    BY <1>2, <1>11, <1>12, <1>13, <1>16, <1>21, <2>2
  <2>4. PICK k : k = h + 1
    OBVIOUS
  <2>5. /\ k \in 1 .. next' /\ bus_queries' = Picked(requests', Queued(k)')
        /\ db'.buses = Picked(BusAt(requests'), Before(Declarations(requests', "Bus"), k))
    BY <2>1, <2>3, <2>4 DEF Queued
  <2> QED
    BY <2>1, <2>5 DEF BusesMade
<1>23. StopNames(db') = StopNames(db) /\ \A k : GetStop(db', k) = GetStop(db, k)
  BY <1>5 DEF StopNames, GetStop
<1>24. StopsRead'
  BY <1>2, <1>3, <1>5 DEF StopsRead
<1>25. DistancesTaken'
  <2>1. \A given, s : DictTaken(given, s) => DictTaken(given, s)'
    BY <1>2, <1>5, <1>23 DEF DictTaken
  <2>2. \A n \in Before(Declarations(requests, "Stop"), next) :
          DictTaken(requests[n].road_distances, requests[n].name)
    BY <1>3 DEF DistancesTaken
  <2>3. \A n \in Before(Declarations(requests, "Stop"), next) :
          DictTaken(requests[n].road_distances, requests[n].name)'
    <3> SUFFICES ASSUME NEW n \in Before(Declarations(requests, "Stop"), next)
                 PROVE  DictTaken(requests[n].road_distances, requests[n].name)'
      OBVIOUS
    <3>1. PICK given, s : given = requests[n].road_distances /\ s = requests[n].name
      OBVIOUS
    <3>2. DictTaken(given, s)'
      BY <2>1, <2>2, <3>1
    <3> QED
      BY <1>2, <3>1, <3>2
  <2> QED
    BY <1>2, <1>3, <1>5, <1>23, <2>3 DEF DistancesTaken
<1> QED
  BY <1>2, <1>5, <1>22, <1>24, <1>25 DEF PromiseInv

\* Every step keeps the invariant.
LEMMA PromiseNext == LoaderInv /\ ResolveInv /\ PromiseInv /\ [Next]_vars => PromiseInv'
<1> SUFFICES ASSUME LoaderInv, ResolveInv, PromiseInv, [Next]_vars PROVE PromiseInv'
  OBVIOUS
<1>1. CASE ReadStop
  BY <1>1, PromiseReadStop
<1>2. CASE ReadBus
  BY <1>2, PromiseReadBus
<1>3. CASE ReadOther
  BY <1>3, PromiseReadOther
<1>4. CASE StartDistances \/ StartRoutes \/ Finish
  BY <1>4, PromisePhase
<1>5. ASSUME NEW s \in StopName, TakeDistances(s) PROVE PromiseInv'
  BY <1>5, PromiseTake
<1>6. ASSUME NEW s \in StopName, UpdateDistances(s) PROVE PromiseInv'
  BY <1>6, PromiseDistance
<1>7. CASE LeaveDistances
  BY <1>7, PromiseLeave
<1>8. CASE PushStop
  BY <1>8, PromisePush
<1>9. CASE UpdateRoutes
  BY <1>9, PromiseRoutes
<1>10. CASE UNCHANGED vars
  <2>1. /\ UNCHANGED <<requests, next, phase, db, bus_queries>>
        /\ UNCHANGED <<distances_for_stop, from, node, route>>
    BY <1>10 DEF vars, loops
  <2>2. StopsRead' /\ BusesMade'
    BY <2>1 DEF PromiseInv, StopsRead, BusesMade, Queued
  <2>3. \A given, s : DictTaken(given, s) => DictTaken(given, s)'
    BY <2>1 DEF DictTaken
  <2>4. \A n \in Before(Declarations(requests, "Stop"), next) :
          DictTaken(requests[n].road_distances, requests[n].name)'
    BY <2>1, <2>3 DEF PromiseInv, DistancesTaken
  <2>5. DistancesTaken'
    BY <2>1, <2>4 DEF PromiseInv, DistancesTaken
  <2> QED
    BY <2>1, <2>2, <2>5 DEF PromiseInv
<1> QED
  BY <1>1, <1>2, <1>3, <1>4, <1>5, <1>6, <1>7, <1>8, <1>9, <1>10 DEF Next

\* The declared catalogue, field by field.
LEMMA DeclaredFields ==
    ASSUME NEW rs \in Seq(Request)
    PROVE  /\ Declared(rs).stops = Picked(StopAt(rs), Declarations(rs, "Stop"))
           /\ Declared(rs).buses = Picked(BusAt(rs), Declarations(rs, "Bus"))
           /\ Declared(rs).buses_for_stop =
                [s \in StopName |-> IF s \in DeclaredStops(rs) THEN Callers(Declared(rs), s) ELSE NoEntry]
           /\ Declared(rs).distances = [p \in StopPair |-> DeclaredDistance(rs, p[1], p[2])]
           /\ Declared(rs).edges_to_buses = <<>>
           /\ Declared(rs) = [stops |-> Declared(rs).stops, buses |-> Declared(rs).buses,
                              buses_for_stop |-> Declared(rs).buses_for_stop,
                              distances |-> Declared(rs).distances,
                              edges_to_buses |-> Declared(rs).edges_to_buses]
<1>1. PICK C, D : C = Declarations(rs, "Stop") /\ D = Declarations(rs, "Bus")
  OBVIOUS
<1>2. PICK at, to : at = Ascending(C) /\ to = Ascending(D)
  OBVIOUS
<1>3. (\A k \in DOMAIN at : at[k] \in C) /\ (\A k \in DOMAIN to : to[k] \in D)
  <2>1. C \in SUBSET DOMAIN rs /\ D \in SUBSET DOMAIN rs
    BY <1>1 DEF Declarations
  <2>2. C \in SUBSET Int /\ IsFiniteSet(C) /\ D \in SUBSET Int /\ IsFiniteSet(D)
    BY <2>1, Positions
  <2> QED
    BY <1>2, <2>2, AscendingNumbers
<1>4. PICK stops, buses : /\ stops = [k \in DOMAIN at |-> rs[at[k]]]
                          /\ buses = [k \in DOMAIN to |-> rs[to[k]]]
  OBVIOUS
<1>5. InOrder(rs, "Stop") = stops /\ InOrder(rs, "Bus") = buses
  BY <1>1, <1>2, <1>4 DEF InOrder
<1>6. PICK made, places :
         /\ made = [k \in DOMAIN buses |-> DeclaredBus(rs, buses[k])]
         /\ places = [k \in DOMAIN stops |-> [name |-> stops[k].name, at |-> stops[k].at]]
  OBVIOUS
<1>7. made = Picked(BusAt(rs), D)
  <2>1. made = [k \in DOMAIN to |-> DeclaredBus(rs, rs[to[k]])]
    BY <1>4, <1>6
  <2>2. \A k \in DOMAIN to : BusAt(rs)[to[k]] = DeclaredBus(rs, rs[to[k]])
    BY <1>1, <1>3 DEF BusAt
  <2>3. made = [k \in DOMAIN to |-> BusAt(rs)[to[k]]]
    BY <2>1, <2>2
  <2> QED
    BY <1>2, <2>3 DEF Picked
<1>8. places = Picked(StopAt(rs), C)
  <2>1. places = [k \in DOMAIN at |-> [name |-> rs[at[k]].name, at |-> rs[at[k]].at]]
    BY <1>4, <1>6
  <2>2. \A k \in DOMAIN at : StopAt(rs)[at[k]] = [name |-> rs[at[k]].name, at |-> rs[at[k]].at]
    BY <1>1, <1>3 DEF StopAt
  <2>3. places = [k \in DOMAIN at |-> StopAt(rs)[at[k]]]
    BY <2>1, <2>2
  <2> QED
    BY <1>2, <2>3 DEF Picked
<1>9. PICK index, roads :
         /\ index = [s \in StopName |->
                       IF s \in DeclaredStops(rs)
                       THEN {made[k].name : k \in {m \in DOMAIN made : s \in ToSet(made[m].route)}}
                       ELSE NoEntry]
         /\ roads = [p \in StopPair |-> DeclaredDistance(rs, p[1], p[2])]
  OBVIOUS
<1>10. PICK d : d = Declared(rs)
  OBVIOUS
<1>11. d = [stops |-> places, buses |-> made, buses_for_stop |-> index, distances |-> roads,
            edges_to_buses |-> <<>>]
  BY <1>5, <1>6, <1>9, <1>10 DEF Declared
<1>12. /\ d.stops = places /\ d.buses = made /\ d.buses_for_stop = index
       /\ d.distances = roads /\ d.edges_to_buses = <<>>
  BY <1>11
<1>13. index = [s \in StopName |-> IF s \in DeclaredStops(rs) THEN Callers(d, s) ELSE NoEntry]
  BY <1>9, <1>12 DEF Callers
<1> QED
  BY <1>1, <1>7, <1>8, <1>9, <1>10, <1>11, <1>12, <1>13

\* When no distances are left, those stored are the declared ones.
LEMMA DistancesAsDeclared ==
    ASSUME LoaderInv, ResolveInv, PromiseInv, phase \in {"routes", "done"},
           NEW s \in StopPtr, NEW t \in StopPtr
    PROVE  db.distances[<<s, t>>] = DeclaredDistance(requests, s, t)
<1>1. PICK D : D = Declarations(requests, "Stop")
  OBVIOUS
<1>2. /\ requests \in Seq(Request) /\ next \in Int /\ db \in Catalogue
      /\ DistancesTaken /\ next > Len(requests) /\ StopNames(db) = DeclaredStops(requests)
  BY PromiseBefore DEF StopsRead
<1>3. D \in SUBSET DOMAIN requests
  BY <1>1 DEF Declarations
<1>4. Before(D, next) = D
  BY <1>2, <1>3, BeforeEnd
<1>5. \A n \in D : DictTaken(requests[n].road_distances, requests[n].name)
  BY <1>1, <1>2, <1>4 DEF DistancesTaken
<1>6. StopNames(db) = {requests[n].name : n \in D}
  BY <1>1, <1>2 DEF DeclaredStops
<1>7. \A k : (IF k \in DeclaredStops(requests) THEN k ELSE NoStop) = GetStop(db, k)
  BY <1>2 DEF GetStop
<1>8. PICK given : given = {requests[n].road_distances : n \in {m \in D : requests[m].name = s}}
  OBVIOUS
<1>9. DeclaredDistance(requests, s, t) =
        IF \E c \in given : {k \in Keys(c) : GetStop(db, k) = t} # {}
        THEN LET d == CHOOSE c \in given : TRUE IN d[Min({k \in Keys(d) : GetStop(db, k) = t})]
        ELSE NoEntry
  <2>1. PICK T : T = DeclaredStops(requests)
    OBVIOUS
  <2>2. \A d : {k \in Keys(d) : (IF k \in T THEN k ELSE NoStop) = t} = {k \in Keys(d) : GetStop(db, k) = t}
    BY <1>7, <2>1
  <2>3. PICK d : d = CHOOSE c \in given : TRUE
    OBVIOUS
  <2>4. DeclaredDistance(requests, s, t) =
          IF \E c \in given : {k \in Keys(c) : (IF k \in T THEN k ELSE NoStop) = t} # {}
          THEN d[Min({k \in Keys(d) : (IF k \in T THEN k ELSE NoStop) = t})]
          ELSE NoEntry
    BY <1>1, <1>8, <2>1, <2>3 DEF DeclaredDistance
  <2>5. DeclaredDistance(requests, s, t) =
          IF \E c \in given : {k \in Keys(c) : GetStop(db, k) = t} # {}
          THEN d[Min({k \in Keys(d) : GetStop(db, k) = t})]
          ELSE NoEntry
    BY <2>2, <2>4
  <2> QED
    BY <2>3, <2>5
<1>10. CASE s \in StopNames(db)
  <2>1. PICK n \in D : requests[n].name = s
    BY <1>6, <1>10
  <2>2. \A m \in D : requests[m].name = s => m = n
    <3>1. n \in DOMAIN requests
      BY <1>3
    <3>2. \A l, m \in D : requests[l].name = requests[m].name => l = m
      BY <1>1, <1>2, <3>1, DeclaredNext
    <3> QED
      BY <2>1, <3>2
  <2>3. PICK dict : dict = requests[n].road_distances
    OBVIOUS
  <2>4. given = {dict}
    BY <1>8, <2>1, <2>2, <2>3
  <2>5. (CHOOSE c \in given : TRUE) = dict
    BY <2>4
  <2>6. DictTaken(dict, s)
    BY <1>5, <2>1, <2>3
  <2>7. Left(distances_for_stop[s]) = {}
    <3>1. s \in StopName
      BY <1>2, <1>10, CatalogueFields
    <3> QED
      BY <1>2, <3>1 DEF DistancesTaken, Left
  <2>8. db.distances[<<s, t>>] = LeastNamed(dict, {k \in Keys(dict) : GetStop(db, k) = t})
    <3>1. Keys(dict) \ Left(distances_for_stop[s]) = Keys(dict)
      BY <2>7
    <3>2. db.distances[<<s, t>>] =
            LeastNamed(dict, {k \in Keys(dict) \ Left(distances_for_stop[s]) : GetStop(db, k) = t})
      BY <2>6 DEF DictTaken
    <3> QED
      BY <3>1, <3>2
  <2>9. PICK names : names = {k \in Keys(dict) : GetStop(db, k) = t}
    OBVIOUS
  <2>10. DeclaredDistance(requests, s, t) = IF names # {} THEN dict[Min(names)] ELSE NoEntry
    BY <1>9, <2>4, <2>5, <2>9
  <2>11. db.distances[<<s, t>>] = LeastNamed(dict, names)
    BY <2>8, <2>9
  <2> QED
    BY <2>10, <2>11 DEF LeastNamed
<1>11. CASE s \notin StopNames(db)
  <2>1. given = {}
    BY <1>6, <1>8, <1>11
  <2>2. DeclaredDistance(requests, s, t) = NoEntry
    BY <1>9, <2>1
  <2> QED
    BY <1>2, <1>11, <2>2 DEF DistancesTaken
<1> QED
  BY <1>10, <1>11

\* When all buses are made the catalogue is the declared one.
LEMMA LoadedAsDeclared ==
    ASSUME LoaderInv, ResolveInv, PromiseInv, phase \in {"routes", "done"}, bus_queries = <<>>
    PROVE  db = Declared(requests)
<1>1. /\ requests \in Seq(Request) /\ next \in 1 .. Len(requests) + 1 /\ next \in Int
      /\ DOMAIN requests = 1 .. Len(requests) /\ Len(requests) \in Nat
      /\ db \in Catalogue /\ StopsRead /\ BusesMade
      /\ StopNames(db) = DeclaredStops(requests)
  BY PromiseBefore
<1>2. Mirrors(db) /\ db.edges_to_buses = <<>> /\ next > Len(requests)
  BY <1>1, InvBefore DEF PromiseInv, StopsRead
<1>3. PICK e : e = Declared(requests)
  OBVIOUS
<1>4. /\ e.stops = Picked(StopAt(requests), Declarations(requests, "Stop"))
      /\ e.buses = Picked(BusAt(requests), Declarations(requests, "Bus"))
      /\ e.buses_for_stop =
           [s \in StopName |-> IF s \in DeclaredStops(requests) THEN Callers(e, s) ELSE NoEntry]
      /\ e.distances = [p \in StopPair |-> DeclaredDistance(requests, p[1], p[2])]
      /\ e.edges_to_buses = <<>>
      /\ e = [stops |-> e.stops, buses |-> e.buses, buses_for_stop |-> e.buses_for_stop,
              distances |-> e.distances, edges_to_buses |-> e.edges_to_buses]
  BY <1>1, <1>3, DeclaredFields
<1>5. db.stops = e.stops
  <2>1. Declarations(requests, "Stop") \in SUBSET DOMAIN requests
    BY DEF Declarations
  <2>2. Before(Declarations(requests, "Stop"), next) = Declarations(requests, "Stop")
    BY <1>1, <1>2, <2>1, BeforeEnd
  <2> QED
    BY <1>1, <1>4, <2>2 DEF StopsRead
<1>6. db.buses = e.buses
  <2>1. PICK D : D = Declarations(requests, "Bus")
    OBVIOUS
  <2>2. PICK m \in 1 .. next :
           /\ bus_queries = Picked(requests, Queued(m))
           /\ db.buses = Picked(BusAt(requests), Before(D, m))
    BY <1>1, <2>1 DEF BusesMade
  <2>3. Queued(m) = {}
    <3>1. Queued(m) \in SUBSET DOMAIN requests
      BY DEF Queued
    <3>2. Queued(m) \in SUBSET Int /\ IsFiniteSet(Queued(m))
      BY <1>1, <3>1, Positions
    <3> QED
      BY <2>2, <3>2, PickedNone
  <2>4. Before(D, m) = D
    <3>1. ASSUME NEW n \in D PROVE n < m
      <4>1. n \in DOMAIN requests /\ requests[n].type = "Bus"
        BY <2>1 DEF Declarations
      <4>2. n \in Int /\ n < next /\ m \in Int
        BY <1>1, <1>2, <4>1
      <4>3. ~(m <= n)
        BY <2>3, <4>1, <4>2 DEF Queued
      <4> QED
        BY <4>2, <4>3
    <3> QED
      BY <3>1 DEF Before
  <2> QED
    BY <1>4, <2>1, <2>2, <2>4
<1>7. db.buses_for_stop = e.buses_for_stop
  <2>1. \A s \in StopName :
          db.buses_for_stop[s] = IF s \in DeclaredStops(requests) THEN Callers(e, s) ELSE NoEntry
    BY <1>1, <1>2, <1>6 DEF Mirrors, Callers
  <2>2. db.buses_for_stop = [s \in StopName |-> db.buses_for_stop[s]]
    BY <1>1, CatalogueFields
  <2> QED
    BY <1>4, <2>1, <2>2
<1>8. db.distances = e.distances
  <2>1. ASSUME NEW p \in StopPair PROVE db.distances[p] = DeclaredDistance(requests, p[1], p[2])
    <3>1. p[1] \in StopPtr /\ p[2] \in StopPtr /\ p = <<p[1], p[2]>>
      BY DEF StopPair
    <3>2. db.distances[<<p[1], p[2]>>] = DeclaredDistance(requests, p[1], p[2])
      BY <3>1, DistancesAsDeclared
    <3> QED
      BY <3>1, <3>2
  <2>2. db.distances = [p \in StopPair |-> db.distances[p]]
    BY <1>1, CatalogueFields
  <2> QED
    BY <1>4, <2>1, <2>2
<1>9. db = [stops |-> db.stops, buses |-> db.buses, buses_for_stop |-> db.buses_for_stop,
            distances |-> db.distances, edges_to_buses |-> db.edges_to_buses]
  BY <1>1 DEF Catalogue
<1> QED
  BY <1>2, <1>3, <1>4, <1>5, <1>6, <1>7, <1>8, <1>9

\* What the invariants are together, at every moment.
LEMMA PromiseInvariant == Spec => [](LoaderInv /\ ResolveInv /\ PromiseInv)
  BY ResolveInit, ResolveNext, PromiseInit, PromiseNext, LoaderInvariant, PTL DEF Spec

\* When ParseBaseRequests returns, the catalogue is the one that the document
\* declares, whatever the order of its requests and of the hash map of
\* UpdateDistances.
THEOREM LoadedIsDeclared == Spec => [](phase = "done" => db = Declared(requests))
<1>1. LoaderInv /\ ResolveInv /\ PromiseInv => (phase = "done" => db = Declared(requests))
  BY LoadedAsDeclared DEF PromiseInv
<1> QED
  BY <1>1, PromiseInvariant, PTL

\* A step of the loader is the loading or invisible to who asks for it: the
\* catalogue is handed over once, complete, and not touched afterwards.
LEMMA StepLoads ==
    ASSUME LoaderInv, ResolveInv, PromiseInv, [Next]_vars
    PROVE  [Promise!Load]_<<requests, IF phase = "done" THEN db ELSE NoEntry>>
<1>1. requests' = requests
  BY DEF Next, ReadStop, ReadBus, ReadOther, Reading, StartDistances, TakeDistances,
         UpdateDistances, LeaveDistances, StartRoutes, PushStop, UpdateRoutes, Finish, vars
<1>2. CASE Finish
  <2>1. /\ phase = "routes" /\ phase' = "done" /\ bus_queries = <<>> /\ db' = db
    BY <1>2 DEF Finish
  <2>2. db = Declared(requests)
    BY <2>1, LoadedAsDeclared
  <2>3. /\ (IF phase = "done" THEN db ELSE NoEntry) = NoEntry
        /\ (IF phase = "done" THEN db ELSE NoEntry)' = Declared(requests)
    BY <2>1, <2>2
  <2> QED
    BY <1>1, <2>3 DEF Promise!Load
<1>3. CASE ~Finish
  <2>1. (phase = "done" <=> phase' = "done") /\ (phase = "done" => db' = db)
    <3>1. phase \in {"read", "distances", "routes", "done"}
      BY DEF LoaderInv, TypeOK
    <3> QED
      BY <1>3, <3>1 DEF Next, ReadStop, ReadBus, ReadOther, Reading, StartDistances, TakeDistances,
         UpdateDistances, LeaveDistances, StartRoutes, PushStop, UpdateRoutes, vars
  <2>2. (IF phase = "done" THEN db ELSE NoEntry)' = (IF phase = "done" THEN db ELSE NoEntry)
    BY <2>1
  <2> QED
    BY <1>1, <2>2
<1> QED
  BY <1>2, <1>3

\* The loader implements DeclaredBase: what its run shows of LoadsWhatIsDeclared
\* but for its liveness holds for every document.
THEOREM LoaderRefinesPromise ==
    Spec => Promise!Init /\ [][Promise!Load]_<<requests, IF phase = "done" THEN db ELSE NoEntry>>
<1>1. Init => Promise!Init
  BY RequestListsAssumption DEF Init, Promise!Init
<1>2. LoaderInv /\ ResolveInv /\ PromiseInv /\ [Next]_vars =>
        [Promise!Load]_<<requests, IF phase = "done" THEN db ELSE NoEntry>>
  BY StepLoads
<1> QED
  BY <1>1, <1>2, PromiseInvariant, PTL DEF Spec
=============================================================================
