-------------------------- MODULE RouteGraphProofs --------------------------
(***************************************************************************)
(* Proofs about RouteGraph, for every set of catalogues: the lists of      *)
(* edges and of their buses stay aligned, an edge is priced leg by leg,    *)
(* the finished graph is the list of rides that the buses offer, and a     *)
(* passenger gets as far along its edges, for as much, as stop by stop.    *)
(***************************************************************************)
EXTENDS Passengers, CatalogueProofs

Ride == [from : Nat, to : Nat, weight : Int, span_count : Nat]

RideTypeOK ==
    /\ db \in Catalogue
    /\ edges \in Seq(Ride)
    /\ buses \in Seq(BusNames(db))
    /\ from_at \in Nat \ {0} /\ to_at \in Nat
    /\ weight \in Int /\ span_count \in Nat

\* The edge added last is the ride so far: it ends where the next leg begins,
\* and costs what has been ridden.
LastIsRide ==
    LET k == Len(edges) IN
    /\ k > 0 /\ from_at \in DOMAIN CurrentBus.route
    /\ db.edges_to_buses[k] = Head(buses)
    /\ Carries(k, from_at, to_at - 1)
    /\ edges[k].weight = WaitingTime + weight

\* What the loops keep: a ride goes from from_at to the position before to_at,
\* and it did not pass the turn.
RideInv ==
    buses # <<>> =>
        /\ to_at > from_at /\ span_count = to_at - from_at - 1
        /\ to_at = from_at + 1 => weight = 0
        /\ to_at > from_at + 1 => LastIsRide
        /\ ~CurrentBus.is_roundtrip /\ from_at < Middle(CurrentBus) => to_at <= Middle(CurrentBus)

\* The inductive invariant behind EdgesAligned.
GraphInv == RideTypeOK /\ RideInv /\ EdgesAligned

-----------------------------------------------------------------------------
(* Facts about single steps *)

\* Noting the bus of an edge changes nothing else of a catalogue.
LEMMA BusOfEdgeSet ==
    ASSUME NEW d \in Catalogue, NEW b \in BusName
    PROVE  LET e == SetBusForEdge(d, b) IN
           /\ e \in Catalogue
           /\ e.edges_to_buses = Append(d.edges_to_buses, b)
           /\ BusNames(e) = BusNames(d)
           /\ \A c : BusOf(e, c) = BusOf(d, c)
           /\ \A s : GetVertexForStop(e, s) = GetVertexForStop(d, s)
           /\ \A s, t : GetDistance(e, s, t) = GetDistance(d, s, t)
<1> DEFINE more == Append(d.edges_to_buses, b)
           e == [d EXCEPT !.edges_to_buses = more]
<1>1. more \in Seq(BusName)
  BY CatalogueFields, Appended
<1> HIDE DEF more
<1>2. /\ e.edges_to_buses = more
      /\ e.stops = d.stops /\ e.buses = d.buses /\ e.distances = d.distances
  BY DEF Catalogue
<1>3. e \in Catalogue
  BY <1>1 DEF Catalogue
<1> HIDE DEF e
<1>4. /\ BusNames(e) = BusNames(d) /\ StopNames(e) = StopNames(d)
      /\ \A c : BusOf(e, c) = BusOf(d, c)
      /\ \A s, t : GetDistance(e, s, t) = GetDistance(d, s, t)
  BY <1>2 DEF BusNames, StopNames, BusOf, GetDistance
<1>5. \A s : GetVertexForStop(e, s) = GetVertexForStop(d, s)
  BY <1>4 DEF GetVertexForStop
<1> QED
  BY <1>2, <1>3, <1>4, <1>5 DEF e, more, SetBusForEdge

\* The bus whose rides are being added.
LEMMA CurrentBusType ==
    ASSUME NEW d \in Catalogue, NEW bs \in Seq(BusNames(d)), bs # <<>>
    PROVE  LET bus == BusOf(d, Head(bs)) IN
           /\ Head(bs) \in BusNames(d) /\ Head(bs) \in BusName
           /\ bus.route \in Seq(StopName) /\ bus.is_roundtrip \in BOOLEAN
           /\ Len(bus.route) \in Nat
           /\ DOMAIN bus.route = 1 .. Len(bus.route)
           /\ Middle(bus) \in Nat
           /\ Tail(bs) \in Seq(BusNames(d))
<1> DEFINE bus == BusOf(d, Head(bs))
<1>1. Head(bs) \in BusNames(d) /\ Tail(bs) \in Seq(BusNames(d))
  BY HeadTailProperties
<1>2. Head(bs) \in BusName
  BY <1>1, CatalogueFields
<1>3. bus \in Bus
  BY <1>1, BusOfName
<1>4. bus.route \in Seq(StopName) /\ bus.is_roundtrip \in BOOLEAN
  BY <1>3 DEF Bus
<1> HIDE DEF bus
<1>5. Len(bus.route) \in Nat /\ DOMAIN bus.route = 1 .. Len(bus.route)
  BY <1>4
<1>6. Middle(bus) \in Nat
  <2>1. \A n \in Nat : n \div 2 + 1 \in Nat
    OBVIOUS
  <2> QED
    BY <1>5, <2>1 DEF Middle
<1> QED
  BY <1>1, <1>2, <1>4, <1>5, <1>6 DEF bus

\* The waiting time is a number.
LEMMA WaitingTimeIsInt == WaitingTime \in Int
  BY BusWaitTimeAssumption, NormalVelocityAssumption DEF WaitingTime

-----------------------------------------------------------------------------
(* The invariant *)

\* The constructor begins with no edges and the first stop of the first bus.
LEMMA GraphInvInit == Init => GraphInv
<1> SUFFICES ASSUME Init PROVE GraphInv
  OBVIOUS
<1>1. db \in Catalogue /\ db.edges_to_buses = <<>>
  BY CataloguesAssumption DEF Init
<1>2. buses \in Seq(BusNames(db))
  BY <1>1, NamesAreFinite, AscendingOrder DEF Init, GetAllBuses
<1>3. RideTypeOK
  BY <1>1, <1>2 DEF Init, RideTypeOK
<1>4. RideInv
  <2>1. /\ from_at = 1 /\ to_at = 2 /\ weight = 0 /\ span_count = 0
    BY DEF Init
  <2>2. buses # <<>> => Middle(CurrentBus) \in Nat
    BY <1>1, <1>2, CurrentBusType DEF CurrentBus
  <2> QED
    BY <2>1, <2>2 DEF RideInv
<1>5. EdgesAligned
  BY <1>1 DEF Init, EdgesAligned
<1> QED
  BY <1>3, <1>4, <1>5 DEF GraphInv

\* Where the inner loop begins anew, whatever the bus.
LEMMA RidesStarted ==
    ASSUME NEW at \in Nat \ {0}, StartRides(at), RideTypeOK'
    PROVE  RideInv'
<1>1. /\ from_at' = at /\ to_at' = at + 1 /\ weight' = 0 /\ span_count' = 0
  BY DEF StartRides
<1>2. SUFFICES ASSUME buses' # <<>>
               PROVE  from_at' < Middle(CurrentBus)' => to_at' <= Middle(CurrentBus)'
  BY <1>1 DEF RideInv
<1>3. Middle(CurrentBus)' \in Nat
  BY <1>2, CurrentBusType DEF RideTypeOK, CurrentBus
<1> QED
  BY <1>1, <1>3

\* An edge is added: its bus is noted at the same position.
LEMMA EdgeAdded ==
    ASSUME GraphInv, AddEdge
    PROVE  GraphInv'
<1>1. PICK b, bus, k, i, j, leg :
        /\ b = Head(buses) /\ bus = CurrentBus /\ k = Len(edges) + 1
        /\ i = from_at /\ j = to_at
        /\ leg = GetDistance(db, bus.route[to_at - 1], bus.route[to_at])
  OBVIOUS
<1>2. /\ RideTypeOK /\ buses # <<>> /\ j <= Len(bus.route)
      /\ bus = BusOf(db, b) /\ db' = SetBusForEdge(db, b) /\ buses' = buses
      /\ RidingTime(CurrentBus) = weight + leg
  BY <1>1 DEF GraphInv, AddEdge, CurrentBus, RidingTime
<1>3. /\ db \in Catalogue /\ edges \in Seq(Ride) /\ buses \in Seq(BusNames(db))
      /\ i \in Nat \ {0} /\ j \in Nat /\ weight \in Int /\ span_count \in Nat
  BY <1>1, <1>2 DEF RideTypeOK
<1>4. /\ b \in BusNames(db) /\ b \in BusName
      /\ bus.route \in Seq(StopName) /\ bus.is_roundtrip \in BOOLEAN
      /\ Len(bus.route) \in Nat /\ DOMAIN bus.route = 1 .. Len(bus.route)
      /\ Middle(bus) \in Nat
  BY <1>1, <1>2, <1>3, CurrentBusType
<1>5. /\ j > i /\ span_count = j - i - 1
      /\ j = i + 1 => weight = 0
      /\ j > i + 1 => LastIsRide
      /\ ~bus.is_roundtrip /\ i < Middle(bus) => j <= Middle(bus)
  BY <1>1, <1>2 DEF GraphInv, RideInv
<1>6. i \in DOMAIN bus.route /\ j \in DOMAIN bus.route /\ j - 1 \in DOMAIN bus.route
  BY <1>2, <1>3, <1>4, <1>5
<1>7. leg \in Int
  <2>1. bus.route[j - 1] \in StopName /\ bus.route[j] \in StopName
    BY <1>4, <1>6
  <2> QED
    BY <1>1, <1>3, <2>1, DistanceIsInt
<1> DEFINE new == [from |-> GetVertexForStop(db, bus.route[i]),
                   to |-> GetVertexForStop(db, bus.route[j]),
                   weight |-> weight + leg + WaitingTime, span_count |-> span_count + 1]
<1>8. new \in Ride
  BY <1>3, <1>7, VertexIsNat, WaitingTimeIsInt DEF Ride
<1>9. edges' = Append(edges, new)
  BY <1>1, <1>2 DEF AddEdge, WaitingTime
<1>10. /\ edges' \in Seq(Ride) /\ Len(edges') = k /\ Len(edges) \in Nat
       /\ DOMAIN edges' = 1 .. k /\ DOMAIN edges = 1 .. k - 1
       /\ \A n \in 1 .. k - 1 : edges'[n] = edges[n]
       /\ edges'[k].from = GetVertexForStop(db, bus.route[i])
       /\ edges'[k].to = GetVertexForStop(db, bus.route[j])
       /\ edges'[k].weight = weight + leg + WaitingTime
       /\ edges'[k].span_count = j - i
  <2> HIDE DEF new
  <2>1. /\ edges' \in Seq(Ride) /\ Len(edges') = Len(edges) + 1
        /\ \A n \in 1 .. Len(edges) : edges'[n] = edges[n]
        /\ edges'[Len(edges) + 1] = new /\ Len(edges) \in Nat
        /\ DOMAIN edges = 1 .. Len(edges)
    BY <1>3, <1>8, <1>9, Appended
  <2>2. Len(edges) = k - 1 /\ edges'[k] = new /\ Len(edges') = k
    BY <1>1, <2>1
  <2>3. DOMAIN edges' = 1 .. k
    BY <2>1, <2>2
  <2>4. span_count + 1 = j - i
    BY <1>3, <1>5
  <2> QED
    BY <2>1, <2>2, <2>3, <2>4 DEF new
<1>11. /\ db' \in Catalogue /\ db'.edges_to_buses = Append(db.edges_to_buses, b)
       /\ BusNames(db') = BusNames(db)
       /\ \A c : BusOf(db', c) = BusOf(db, c)
       /\ \A s : GetVertexForStop(db', s) = GetVertexForStop(db, s)
       /\ \A s, t : GetDistance(db', s, t) = GetDistance(db, s, t)
  BY <1>2, <1>3, <1>4, BusOfEdgeSet
<1>12. /\ Len(db'.edges_to_buses) = k
       /\ \A n \in 1 .. k - 1 : db'.edges_to_buses[n] = db.edges_to_buses[n]
       /\ db'.edges_to_buses[k] = b
  <2>1. Len(db.edges_to_buses) = k - 1 /\ db.edges_to_buses \in Seq(BusName)
    BY <1>1, <1>3, <1>10, CatalogueFields DEF GraphInv, EdgesAligned
  <2>2. k - 1 + 1 = k
    BY <1>1, <1>10
  <2> QED
    BY <1>4, <1>11, <2>1, <2>2, Appended
<1> HIDE DEF new
<1>13. RideTypeOK'
  <2>1. weight + leg \in Int /\ span_count + 1 \in Nat
        /\ i + 1 \in Nat \ {0} /\ i + 2 \in Nat /\ j + 1 \in Nat /\ i + 1 + 1 = i + 2
    BY <1>3, <1>7
  <2>2. CASE LeaveAtTurn(CurrentBus)
    <3>1. from_at' = i + 1 /\ to_at' = i + 2 /\ weight' = 0 /\ span_count' = 0
      BY <1>1, <2>1, <2>2 DEF AddEdge, StartRides
    <3> QED
      BY <1>2, <1>3, <1>10, <1>11, <2>1, <3>1 DEF RideTypeOK
  <2>3. CASE ~LeaveAtTurn(CurrentBus)
    <3>1. from_at' = i /\ to_at' = j + 1 /\ weight' = weight + leg /\ span_count' = span_count + 1
      BY <1>1, <1>2, <2>3 DEF AddEdge
    <3> QED
      BY <1>2, <1>3, <1>10, <1>11, <2>1, <3>1 DEF RideTypeOK
  <2> QED
    BY <2>2, <2>3
<1>14. Carries(k, i, j)'
  BY <1>2, <1>6, <1>10, <1>11, <1>12 DEF Carries
<1>15. ASSUME NEW n \in 1 .. k - 1, NEW x, NEW y, Carries(n, x, y)
       PROVE  Carries(n, x, y)'
  BY <1>10, <1>11, <1>12, <1>15 DEF Carries
<1>16. ASSUME NEW n \in 1 .. k - 1, NEW x, NEW y, Priced(n, x, y)
       PROVE  Priced(n, x, y)'
  <2>1. n > 1 => n - 1 \in 1 .. k - 1
    BY <1>1, <1>10
  <2>2. n > 1 /\ Carries(n - 1, x, y - 1) => Carries(n - 1, x, y - 1)'
    BY <1>15, <2>1
  <2>3. /\ edges'[n] = edges[n] /\ db'.edges_to_buses[n] = db.edges_to_buses[n]
        /\ n > 1 => /\ edges'[n - 1] = edges[n - 1]
                    /\ db'.edges_to_buses[n - 1] = db.edges_to_buses[n - 1]
    BY <1>10, <1>12, <2>1
  <2> QED
    BY <1>11, <1>16, <2>2, <2>3 DEF Priced
<1>17. Priced(k, i, j)'
  <2>1. BusOf(db', db'.edges_to_buses[k]) = bus
    BY <1>2, <1>11, <1>12
  <2>2. leg = GetDistance(db', bus.route[j - 1], bus.route[j])
    BY <1>1, <1>11
  <2>3. CASE j = i + 1
    <3>1. edges'[k].weight = WaitingTime + leg
      BY <1>5, <1>7, <1>10, <2>3, WaitingTimeIsInt
    <3>2. WaitingTime' = WaitingTime
      BY DEF WaitingTime
    <3> QED
      BY <2>1, <2>2, <2>3, <3>1, <3>2 DEF Priced
  <2>4. CASE j # i + 1
    <3>1. /\ k - 1 > 0 /\ k - 1 \in 1 .. k - 1 /\ k > 1
          /\ db.edges_to_buses[k - 1] = b
          /\ Carries(k - 1, i, j - 1)
          /\ edges[k - 1].weight = WaitingTime + weight
      <4>1. LastIsRide /\ Len(edges) = k - 1
        BY <1>1, <1>3, <1>5, <1>10, <2>4
      <4>2. /\ k - 1 > 0 /\ db.edges_to_buses[k - 1] = b
            /\ Carries(k - 1, i, j - 1)
            /\ edges[k - 1].weight = WaitingTime + weight
        BY <1>1, <4>1 DEF LastIsRide
      <4> QED
        BY <1>1, <1>10, <4>2
    <3>2. Carries(k - 1, i, j - 1)'
      BY <1>15, <3>1
    <3>3. edges'[k].weight = edges'[k - 1].weight + leg
      BY <1>3, <1>7, <1>10, <3>1, WaitingTimeIsInt
    <3>4. db'.edges_to_buses[k - 1] = db'.edges_to_buses[k]
      BY <1>12, <3>1
    <3> QED
      BY <2>1, <2>2, <2>4, <3>1, <3>2, <3>3, <3>4 DEF Priced
  <2> QED
    BY <2>3, <2>4
<1>18. j \in i + 1 .. Furthest(bus, i)
  BY <1>2, <1>3, <1>4, <1>5 DEF Furthest
<1>19. EdgesAligned'
  <2>1. ASSUME NEW n \in 1 .. k - 1
        PROVE  /\ db'.edges_to_buses[n] \in BusNames(db')
               /\ \E x \in DOMAIN BusOf(db', db'.edges_to_buses[n]).route :
                    \E y \in x + 1 .. Furthest(BusOf(db', db'.edges_to_buses[n]), x) :
                       Carries(n, x, y)' /\ Priced(n, x, y)'
    <3>1. /\ db.edges_to_buses[n] \in BusNames(db)
          /\ \E x \in DOMAIN BusOf(db, db.edges_to_buses[n]).route :
               \E y \in x + 1 .. Furthest(BusOf(db, db.edges_to_buses[n]), x) :
                  Carries(n, x, y) /\ Priced(n, x, y)
      BY <1>10 DEF GraphInv, EdgesAligned
    <3> QED
      BY <1>11, <1>12, <1>15, <1>16, <3>1
  <2>2. /\ db'.edges_to_buses[k] \in BusNames(db')
        /\ BusOf(db', db'.edges_to_buses[k]) = bus
    BY <1>2, <1>4, <1>11, <1>12
  <2>3. \A n \in 1 .. k : n \in 1 .. k - 1 \/ n = k
    BY <1>1, <1>10
  <2> QED
    BY <1>6, <1>10, <1>12, <1>14, <1>17, <1>18, <2>1, <2>2, <2>3 DEF EdgesAligned
<1>20. RideInv'
  <2>1. CASE LeaveAtTurn(CurrentBus)
    <3>1. StartRides(i + 1) /\ i + 1 \in Nat \ {0}
      BY <1>1, <1>3, <2>1 DEF AddEdge
    <3> QED
      BY <1>13, <3>1, RidesStarted
  <2>2. CASE ~LeaveAtTurn(CurrentBus)
    <3>1. from_at' = i /\ to_at' = j + 1 /\ weight' = weight + leg /\ span_count' = span_count + 1
      BY <1>1, <1>2, <2>2 DEF AddEdge
    <3>2. CurrentBus' = bus /\ Head(buses') = b
      BY <1>1, <1>2, <1>11 DEF CurrentBus
    <3>3. LastIsRide'
      <4>1. Carries(k, from_at, to_at - 1)'
        <5>1. to_at' - 1 = j
          BY <1>3, <3>1
        <5> QED
          BY <1>14, <3>1, <5>1 DEF Carries
      <4>2. edges'[k].weight = WaitingTime + (weight + leg)
        BY <1>3, <1>7, <1>10, WaitingTimeIsInt
      <4>3. k > 0
        BY <1>1, <1>10
      <4>4. Carries(Len(edges), from_at, to_at - 1)'
        BY <1>10, <4>1 DEF Carries
      <4> QED
        BY <1>6, <1>10, <1>12, <3>1, <3>2, <4>2, <4>3, <4>4 DEF LastIsRide, WaitingTime
    <3>4. ~bus.is_roundtrip /\ i < Middle(bus) => j + 1 <= Middle(bus)
      BY <1>1, <1>3, <1>4, <1>5, <2>2 DEF LeaveAtTurn
    <3>5. to_at' > from_at' /\ span_count' = to_at' - from_at' - 1 /\ to_at' # from_at' + 1
      BY <1>3, <1>5, <3>1
    <3>6. ~CurrentBus'.is_roundtrip /\ from_at' < Middle(CurrentBus') => to_at' <= Middle(CurrentBus')
      BY <3>1, <3>2, <3>4
    <3> HIDE DEF RideInv
    <3> QED
      BY <3>3, <3>5, <3>6 DEF RideInv
  <2> QED
    BY <2>1, <2>2
<1> QED
  BY <1>13, <1>19, <1>20 DEF GraphInv

\* A row of the loops is over: the next one begins.
LEMMA RowEnded ==
    ASSUME GraphInv, EndOfRoute \/ NextBus
    PROVE  GraphInv'
<1>1. /\ UNCHANGED <<db, edges>> /\ RideTypeOK /\ EdgesAligned /\ buses # <<>>
  BY DEF GraphInv, EndOfRoute, NextBus
<1>2. PICK at \in Nat \ {0} : StartRides(at)
  <2>1. CASE EndOfRoute
    <3>1. from_at + 1 \in Nat \ {0} /\ StartRides(from_at + 1)
      BY <1>1, <2>1 DEF RideTypeOK, EndOfRoute
    <3> QED
      BY <3>1
  <2>2. CASE NextBus
    BY <2>2 DEF NextBus
  <2> QED
    BY <2>1, <2>2
<1>3. buses' \in Seq(BusNames(db))
  <2>1. buses' = buses \/ buses' = Tail(buses)
    BY DEF EndOfRoute, NextBus
  <2> QED
    BY <1>1, <2>1, HeadTailProperties DEF RideTypeOK
<1>4. RideTypeOK'
  BY <1>1, <1>2, <1>3 DEF RideTypeOK, StartRides
<1>5. RideInv'
  BY <1>2, <1>4, RidesStarted
<1>6. EdgesAligned'
  BY <1>1 DEF EdgesAligned, Carries, Priced, WaitingTime
<1> QED
  BY <1>4, <1>5, <1>6 DEF GraphInv

\* Every step of the constructor keeps the invariant.
LEMMA GraphInvNext == GraphInv /\ [Next]_vars => GraphInv'
<1> SUFFICES ASSUME GraphInv, [Next]_vars PROVE GraphInv'
  OBVIOUS
<1>1. CASE AddEdge
  BY <1>1, EdgeAdded
<1>2. CASE EndOfRoute \/ NextBus
  BY <1>2, RowEnded
<1>3. CASE UNCHANGED vars
  <2>1. UNCHANGED <<db, edges, buses, from_at, to_at, weight, span_count>>
    BY <1>3 DEF vars, ride
  <2> QED
    BY <2>1 DEF GraphInv, RideTypeOK, RideInv, LastIsRide, EdgesAligned, Carries, Priced,
                CurrentBus, WaitingTime
<1> QED
  BY <1>1, <1>2, <1>3 DEF Next

-----------------------------------------------------------------------------
(* What the catalogue offers *)

\* The metres from position i on, up to each position.
IsSum(f, legs, i, j) == f = [n \in i .. j |-> IF n = i THEN 0 ELSE f[n - 1] + legs[n]]

\* What they say of one position.
SumStep(f, legs, i, n) == f[n] = IF n = i THEN 0 ELSE f[n - 1] + legs[n]

\* They can be added up for as long as one likes.
LEMMA SumExists ==
    ASSUME NEW legs, NEW i \in Nat, NEW m \in Nat
    PROVE  \E f : IsSum(f, legs, i, i + m)
<1> DEFINE T == {n \in Nat : \E f : IsSum(f, legs, i, i + n)}
<1>1. 0 \in T
  <2> DEFINE f == [n \in i .. i + 0 |-> 0]
  <2>1. f = [n \in i .. i + 0 |-> IF n = i THEN 0 ELSE f[n - 1] + legs[n]]
    OBVIOUS
  <2>2. IsSum(f, legs, i, i + 0)
    BY <2>1 DEF IsSum
  <2> QED
    BY <2>2
<1>2. \A n \in T : n + 1 \in T
  <2> SUFFICES ASSUME NEW n \in T PROVE \E g : IsSum(g, legs, i, i + (n + 1))
    OBVIOUS
  <2>1. PICK f : IsSum(f, legs, i, i + n)
    OBVIOUS
  <2> DEFINE g == [k \in i .. i + (n + 1) |-> IF k = i THEN 0 ELSE f[k - 1] + legs[k]]
  <2>2. \A k \in i .. i + n : g[k] = f[k]
    <3>1. \A k \in i .. i + n : k \in i .. i + (n + 1)
      OBVIOUS
    <3>2. \A k \in i .. i + n : f[k] = IF k = i THEN 0 ELSE f[k - 1] + legs[k]
      BY <2>1 DEF IsSum
    <3> QED
      BY <3>1, <3>2
  <2>3. \A k \in i .. i + (n + 1) : k # i => k - 1 \in i .. i + n
    OBVIOUS
  <2>4. g = [k \in i .. i + (n + 1) |-> IF k = i THEN 0 ELSE g[k - 1] + legs[k]]
    BY <2>2, <2>3
  <2>5. IsSum(g, legs, i, i + (n + 1))
    BY <2>4 DEF IsSum
  <2> QED
    BY <2>5
<1> HIDE DEF T
<1>3. T \in SUBSET Nat
  BY DEF T
<1>4. T = Nat
  BY <1>1, <1>2, <1>3, Induction
<1> QED
  BY <1>4 DEF T

\* A sum says of each position what its equation says.
LEMMA SumAt ==
    ASSUME NEW legs, NEW i, NEW j, NEW f, IsSum(f, legs, i, j)
    PROVE  \A n \in i .. j : SumStep(f, legs, i, n)
<1> SUFFICES ASSUME NEW n \in i .. j PROVE SumStep(f, legs, i, n)
  OBVIOUS
<1>1. PICK h : h = [k \in i .. j |-> IF k = i THEN 0 ELSE f[k - 1] + legs[k]]
  OBVIOUS
<1>2. h[n] = IF n = i THEN 0 ELSE f[n - 1] + legs[n]
  BY <1>1
<1>3. f = h
  BY <1>1, Zenon DEF IsSum
<1> QED
  BY <1>2, <1>3 DEF SumStep

\* The metres from position i to itself are none, and those to the next
\* position are one leg more.
LEMMA MetresStep ==
    ASSUME NEW legs, NEW i \in Nat, NEW j \in Nat, i <= j
    PROVE  /\ Metres(legs, i, i) = 0
           /\ Metres(legs, i, j + 1) = Metres(legs, i, j) + legs[j + 1]
<1>1. \A k \in Nat : i <= k => \E f : IsSum(f, legs, i, k)
  <2> SUFFICES ASSUME NEW k \in Nat, i <= k PROVE \E f : IsSum(f, legs, i, k)
    OBVIOUS
  <2>1. PICK m \in Nat : k = i + m
    <3>1. k - i \in Nat /\ k = i + (k - i)
      OBVIOUS
    <3> QED
      BY <3>1
  <2> QED
    BY <2>1, SumExists
<1>2. \A k \in Nat : i <= k => \E f : IsSum(f, legs, i, k) /\ Metres(legs, i, k) = f[k]
  <2> SUFFICES ASSUME NEW k \in Nat, i <= k
               PROVE  \E f : IsSum(f, legs, i, k) /\ Metres(legs, i, k) = f[k]
    OBVIOUS
  <2> DEFINE F == CHOOSE f : IsSum(f, legs, i, k)
  <2>1. IsSum(F, legs, i, k)
    BY <1>1
  <2>2. Metres(legs, i, k) = F[k]
    BY DEF Metres, IsSum
  <2> QED
    BY <2>1, <2>2
<1>3. Metres(legs, i, i) = 0
  <2>1. PICK f : IsSum(f, legs, i, i) /\ Metres(legs, i, i) = f[i]
    BY <1>2
  <2>2. SumStep(f, legs, i, i)
    <3>1. i \in i .. i
      OBVIOUS
    <3> QED
      BY <2>1, <3>1, SumAt
  <2> QED
    BY <2>1, <2>2 DEF SumStep
<1>4. Metres(legs, i, j + 1) = Metres(legs, i, j) + legs[j + 1]
  <2>1. PICK f : IsSum(f, legs, i, j) /\ Metres(legs, i, j) = f[j]
    BY <1>2
  <2>2. j + 1 \in Nat /\ i <= j + 1
    OBVIOUS
  <2>3. PICK g : IsSum(g, legs, i, j + 1) /\ Metres(legs, i, j + 1) = g[j + 1]
    BY <1>2, <2>2
  <2>4. /\ \A n \in i .. j : SumStep(f, legs, i, n)
        /\ \A n \in i .. j + 1 : SumStep(g, legs, i, n)
    BY <2>1, <2>3, SumAt
  <2> DEFINE T == {m \in Nat : i + m <= j => f[i + m] = g[i + m]}
  <2>5. 0 \in T
    <3>1. i + 0 = i /\ i \in i .. j /\ i \in i .. j + 1
      OBVIOUS
    <3>2. f[i] = 0 /\ g[i] = 0
      BY <2>4, <3>1 DEF SumStep
    <3> QED
      BY <3>1, <3>2
  <2>6. \A m \in T : m + 1 \in T
    <3> SUFFICES ASSUME NEW m \in T, i + (m + 1) <= j PROVE f[i + (m + 1)] = g[i + (m + 1)]
      OBVIOUS
    <3>1. PICK n : n = i + (m + 1)
      OBVIOUS
    <3>2. n \in i .. j /\ n \in i .. j + 1 /\ n # i /\ n - 1 = i + m /\ i + m <= j
      BY <3>1
    <3>3. f[n - 1] = g[n - 1]
      BY <3>2
    <3> HIDE DEF T
    <3>4. f[n] = f[n - 1] + legs[n] /\ g[n] = g[n - 1] + legs[n]
      <4>1. SumStep(f, legs, i, n) /\ SumStep(g, legs, i, n)
        BY <2>4, <3>2
      <4> QED
        BY <3>2, <4>1, Zenon DEF SumStep
    <3> QED
      BY <3>1, <3>3, <3>4, Zenon
  <2> HIDE DEF T
  <2>7. T = Nat
    <3>1. T \in SUBSET Nat
      BY DEF T
    <3> QED
      BY <2>5, <2>6, <3>1, Induction
  <2>8. PICK m \in Nat : j = i + m
    <3>1. j - i \in Nat /\ j = i + (j - i)
      OBVIOUS
    <3> QED
      BY <3>1
  <2>9. f[j] = g[j]
    BY <2>7, <2>8 DEF T
  <2>10. g[j + 1] = g[(j + 1) - 1] + legs[j + 1]
    <3>1. j + 1 \in i .. j + 1 /\ j + 1 # i
      OBVIOUS
    <3>2. SumStep(g, legs, i, j + 1)
      BY <2>4, <3>1
    <3> QED
      BY <3>1, <3>2, Zenon DEF SumStep
  <2>11. (j + 1) - 1 = j
    OBVIOUS
  <2>12. g[j + 1] = f[j] + legs[j + 1]
    BY <2>9, <2>10, <2>11, Zenon
  <2> QED
    BY <2>1, <2>3, <2>12, Zenon
<1> QED
  BY <1>3, <1>4

\* All that could be offered.
Rides(d) == {Offer(d, b, i, j) : b \in BusNames(d), i \in Nat, j \in Nat}

\* The offers of the first m buses; those of bus b from the positions before
\* position i; and those from position i on to the positions before position j.
Finished(d, m) == FlattenSeq([n \in 1 .. m |-> OffersOf(d, GetAllBuses(d)[n])])
Boarded(d, b, i) == FlattenSeq([k \in 1 .. i - 1 |-> OffersFrom(d, b, k)])
Riding(d, b, i, j) == [n \in 1 .. j - i - 1 |-> Offer(d, b, i, i + n)]

\* What has been offered when the loops are at these places.
OfferedSoFar(d, bs, i, j) ==
    LET m == Len(GetAllBuses(d)) - Len(bs) IN
    IF bs = <<>> THEN Finished(d, m)
    ELSE (Finished(d, m) \o Boarded(d, Head(bs), i)) \o Riding(d, Head(bs), i, j)

\* A bus in the catalogue, its route and how far one can ride.
LEMMA BusRoute ==
    ASSUME NEW d \in Catalogue, NEW b \in BusNames(d)
    PROVE  LET bus == BusOf(d, b) IN
           /\ bus.route \in Seq(StopName) /\ bus.is_roundtrip \in BOOLEAN
           /\ Len(bus.route) \in Nat /\ DOMAIN bus.route = 1 .. Len(bus.route)
           /\ Middle(bus) \in Nat
           /\ Len(bus.route) > 1 => Middle(bus) <= Len(bus.route)
           /\ \A i \in 1 .. Len(bus.route) :
                Furthest(bus, i) \in Nat /\ i <= Furthest(bus, i) /\ Furthest(bus, i) <= Len(bus.route)
<1>1. PICK bus \in Bus : bus = BusOf(d, b)
  BY BusOfName
<1>2. bus.route \in Seq(StopName) /\ bus.is_roundtrip \in BOOLEAN
  BY DEF Bus
<1>3. PICK n \in Nat : n = Len(bus.route)
  BY <1>2
<1>4. /\ Middle(bus) \in Nat
      /\ n > 1 => Middle(bus) <= n
      /\ n = 1 => Middle(bus) = 1
  <2>1. \A m \in Nat : m \div 2 + 1 \in Nat /\ (m > 1 => m \div 2 + 1 <= m) /\ 1 \div 2 + 1 = 1
    OBVIOUS
  <2> QED
    BY <1>3, <2>1 DEF Middle
<1>5. \A i \in 1 .. n : Furthest(bus, i) \in Nat /\ i <= Furthest(bus, i) /\ Furthest(bus, i) <= n
  <2> SUFFICES ASSUME NEW i \in 1 .. n
               PROVE  Furthest(bus, i) \in Nat /\ i <= Furthest(bus, i) /\ Furthest(bus, i) <= n
    OBVIOUS
  <2>1. n = 1 \/ n > 1
    OBVIOUS
  <2> QED
    BY <1>3, <1>4, <2>1 DEF Furthest
<1> QED
  BY <1>1, <1>2, <1>3, <1>4, <1>5

\* The rides from one position.
LEMMA OffersFromType ==
    ASSUME NEW d \in Catalogue, NEW b \in BusNames(d), NEW i \in DOMAIN BusOf(d, b).route
    PROVE  OffersFrom(d, b, i) \in Seq(Rides(d))
<1>1. PICK n : n = Furthest(BusOf(d, b), i) - i
  OBVIOUS
<1>2. n \in Nat /\ i \in Nat
  BY <1>1, BusRoute
<1>3. \A k \in 1 .. n : i + k \in Nat /\ Offer(d, b, i, i + k) \in Rides(d)
  BY <1>2 DEF Rides
<1>4. OffersFrom(d, b, i) = [k \in 1 .. n |-> Offer(d, b, i, i + k)]
  BY <1>1 DEF OffersFrom
<1>5. OffersFrom(d, b, i) \in [1 .. n -> Rides(d)]
  BY <1>3, <1>4
<1> QED
  BY <1>2, <1>5, FunctionSeq

\* The rides of one bus, one position of boarding at a time.
LEMMA OffersOfRows ==
    ASSUME NEW d \in Catalogue, NEW b \in BusNames(d)
    PROVE  LET n == Len(BusOf(d, b).route) IN
           /\ OffersOf(d, b) \in Seq(Rides(d))
           /\ OffersOf(d, b) = Boarded(d, b, n + 1)
           /\ Boarded(d, b, 1) = <<>>
           /\ \A i \in 1 .. n + 1 :
                /\ Boarded(d, b, i) \in Seq(Rides(d))
                /\ \E z \in Seq(Rides(d)) : OffersOf(d, b) = Boarded(d, b, i) \o z
           /\ \A i \in 1 .. n :
                /\ OffersFrom(d, b, i) \in Seq(Rides(d))
                /\ Boarded(d, b, i + 1) = Boarded(d, b, i) \o OffersFrom(d, b, i)
                /\ \E z \in Seq(Rides(d)) : OffersOf(d, b) = (Boarded(d, b, i) \o OffersFrom(d, b, i)) \o z
<1>1. PICK n \in Nat : n = Len(BusOf(d, b).route) /\ DOMAIN BusOf(d, b).route = 1 .. n
  BY BusRoute
<1>2. PICK rows : rows = [i \in 1 .. n |-> OffersFrom(d, b, i)]
  OBVIOUS
<1>3. rows \in Seq(Seq(Rides(d))) /\ Len(rows) = n /\ \A i \in 1 .. n : rows[i] = OffersFrom(d, b, i)
  <2>1. \A i \in 1 .. n : OffersFrom(d, b, i) \in Seq(Rides(d))
    BY <1>1, OffersFromType
  <2>2. rows \in [1 .. n -> Seq(Rides(d))]
    BY <1>2, <2>1
  <2> QED
    BY <1>2, <2>2, FunctionSeq
<1>4. OffersOf(d, b) = FlattenSeq(rows)
  BY <1>1, <1>2 DEF OffersOf
<1>5. \A k \in 0 .. n : Boarded(d, b, k + 1) = FlattenSeq([i \in 1 .. k |-> rows[i]])
  <2> SUFFICES ASSUME NEW k \in 0 .. n
               PROVE  Boarded(d, b, k + 1) = FlattenSeq([i \in 1 .. k |-> rows[i]])
    OBVIOUS
  <2>1. (k + 1) - 1 = k /\ \A i \in 1 .. k : i \in 1 .. n
    BY <1>1
  <2>2. [i \in 1 .. k |-> OffersFrom(d, b, i)] = [i \in 1 .. k |-> rows[i]]
    BY <1>3, <2>1
  <2> QED
    BY <2>1, <2>2 DEF Boarded
<1>6. rows = [i \in 1 .. n |-> rows[i]]
  BY <1>2
<1>7. OffersOf(d, b) = Boarded(d, b, n + 1)
  BY <1>1, <1>4, <1>5, <1>6
<1>8. ASSUME NEW k \in 0 .. n
      PROVE  /\ Boarded(d, b, k + 1) \in Seq(Rides(d))
             /\ k < n => Boarded(d, b, k + 2) = Boarded(d, b, k + 1) \o OffersFrom(d, b, k + 1)
             /\ \E z \in Seq(Rides(d)) : OffersOf(d, b) = Boarded(d, b, k + 1) \o z
  <2>1. \E z \in Seq(Rides(d)) : OffersOf(d, b) = Boarded(d, b, k + 1) \o z
    <3>1. k \in 0 .. Len(rows)
      BY <1>3
    <3>2. \E z \in Seq(Rides(d)) : FlattenSeq(rows) = FlattenSeq([i \in 1 .. k |-> rows[i]]) \o z
      BY <1>3, <3>1, FlattenedPrefix
    <3> QED
      BY <1>4, <1>5, <3>2
  <2>2. ASSUME k < n
        PROVE  /\ Boarded(d, b, k + 1) \in Seq(Rides(d))
               /\ Boarded(d, b, k + 2) = Boarded(d, b, k + 1) \o OffersFrom(d, b, k + 1)
    <3>1. k + 1 \in 0 .. n /\ k + 1 \in 1 .. n /\ (k + 1) + 1 = k + 2 /\ k \in Nat
      BY <1>1, <2>2
    <3>2. rows[k + 1] = OffersFrom(d, b, k + 1)
      BY <1>3, <3>1
    <3>3. /\ FlattenSeq([i \in 1 .. k |-> rows[i]]) \in Seq(Rides(d))
          /\ FlattenSeq([i \in 1 .. k + 1 |-> rows[i]]) = FlattenSeq([i \in 1 .. k |-> rows[i]]) \o rows[k + 1]
      BY <1>3, <2>2, <3>1, FlattenedNext
    <3>4. /\ Boarded(d, b, k + 1) = FlattenSeq([i \in 1 .. k |-> rows[i]])
          /\ Boarded(d, b, k + 2) = FlattenSeq([i \in 1 .. k + 1 |-> rows[i]])
      <4>1. Boarded(d, b, (k + 1) + 1) = FlattenSeq([i \in 1 .. k + 1 |-> rows[i]])
        BY <1>5, <3>1
      <4> QED
        BY <1>5, <3>1, <4>1
    <3> QED
      BY <3>2, <3>3, <3>4
  <2>3. CASE k = n
    <3>1. FlattenSeq(rows) \in Seq(Rides(d))
      <4>1. <<>> \in Seq(Rides(d))
        OBVIOUS
      <4> QED
        BY <1>3, <4>1, Flattened
    <3>2. Boarded(d, b, k + 1) \in Seq(Rides(d))
      BY <1>4, <1>7, <2>3, <3>1
    <3> QED
      BY <2>1, <2>3, <3>2
  <2>4. k < n \/ k = n
    BY <1>1
  <2>5. CASE k < n
    BY <2>1, <2>2, <2>5
  <2> QED
    BY <2>3, <2>4, <2>5
<1>9. Boarded(d, b, 1) = <<>>
  <2>1. [k \in 1 .. 1 - 1 |-> OffersFrom(d, b, k)] = <<>>
    OBVIOUS
  <2> QED
    BY <2>1 DEF Boarded, FlattenSeq
<1>10. \A i \in 1 .. n + 1 :
         /\ Boarded(d, b, i) \in Seq(Rides(d))
         /\ \E z \in Seq(Rides(d)) : OffersOf(d, b) = Boarded(d, b, i) \o z
  <2> SUFFICES ASSUME NEW i \in 1 .. n + 1
               PROVE  /\ Boarded(d, b, i) \in Seq(Rides(d))
                      /\ \E z \in Seq(Rides(d)) : OffersOf(d, b) = Boarded(d, b, i) \o z
    OBVIOUS
  <2>1. PICK k \in 0 .. n : i = k + 1
    <3>1. i - 1 \in 0 .. n /\ i = (i - 1) + 1
      BY <1>1
    <3> QED
      BY <3>1
  <2> QED
    BY <1>8, <2>1
<1>11. \A i \in 1 .. n :
         /\ OffersFrom(d, b, i) \in Seq(Rides(d))
         /\ Boarded(d, b, i + 1) = Boarded(d, b, i) \o OffersFrom(d, b, i)
         /\ \E z \in Seq(Rides(d)) : OffersOf(d, b) = (Boarded(d, b, i) \o OffersFrom(d, b, i)) \o z
  <2> SUFFICES ASSUME NEW i \in 1 .. n
               PROVE  /\ OffersFrom(d, b, i) \in Seq(Rides(d))
                      /\ Boarded(d, b, i + 1) = Boarded(d, b, i) \o OffersFrom(d, b, i)
                      /\ \E z \in Seq(Rides(d)) : OffersOf(d, b) = Boarded(d, b, i + 1) \o z
    OBVIOUS
  <2>1. PICK k \in 0 .. n : i = k + 1 /\ k < n /\ i + 1 = k + 2
    <3>1. i - 1 \in 0 .. n /\ i = (i - 1) + 1 /\ i - 1 < n /\ i + 1 = (i - 1) + 2
      BY <1>1
    <3> QED
      BY <3>1
  <2>2. i + 1 \in 1 .. n + 1
    BY <1>1
  <2>3. Boarded(d, b, i + 1) = Boarded(d, b, i) \o OffersFrom(d, b, i)
    BY <1>8, <2>1
  <2> QED
    BY <1>1, <1>10, <2>2, <2>3, OffersFromType
<1>12. OffersOf(d, b) \in Seq(Rides(d))
  <2>1. n + 1 \in 1 .. n + 1
    BY <1>1
  <2> QED
    BY <1>7, <1>10, <2>1
<1> QED
  BY <1>1, <1>7, <1>9, <1>10, <1>11, <1>12

\* The rides of all buses, one bus at a time.
LEMMA OffersRows ==
    ASSUME NEW d \in Catalogue
    PROVE  LET all == GetAllBuses(d) IN
           /\ all \in Seq(BusNames(d)) /\ Len(all) \in Nat
           /\ Offers(d) = Finished(d, Len(all))
           /\ Finished(d, 0) = <<>>
           /\ \A m \in 0 .. Len(all) :
                /\ Finished(d, m) \in Seq(Rides(d))
                /\ \E z \in Seq(Rides(d)) : Offers(d) = Finished(d, m) \o z
           /\ \A m \in 0 .. Len(all) - 1 :
                Finished(d, m + 1) = Finished(d, m) \o OffersOf(d, all[m + 1])
<1>1. PICK all : all = GetAllBuses(d)
  OBVIOUS
<1>2. all \in Seq(BusNames(d))
  BY <1>1, NamesAreFinite, AscendingOrder DEF GetAllBuses
<1>3. PICK n \in Nat : n = Len(all) /\ DOMAIN all = 1 .. n
  BY <1>2
<1>4. PICK rows : rows = [i \in 1 .. n |-> OffersOf(d, all[i])]
  OBVIOUS
<1>5. rows \in Seq(Seq(Rides(d))) /\ Len(rows) = n /\ \A i \in 1 .. n : rows[i] = OffersOf(d, all[i])
  <2>1. \A i \in 1 .. n : OffersOf(d, all[i]) \in Seq(Rides(d))
    BY <1>2, <1>3, OffersOfRows
  <2>2. rows \in [1 .. n -> Seq(Rides(d))]
    BY <1>4, <2>1
  <2> QED
    BY <1>4, <2>2, FunctionSeq
<1>6. Offers(d) = FlattenSeq(rows)
  BY <1>1, <1>3, <1>4 DEF Offers
<1>7. \A m \in 0 .. n : Finished(d, m) = FlattenSeq([i \in 1 .. m |-> rows[i]])
  <2> SUFFICES ASSUME NEW m \in 0 .. n
               PROVE  Finished(d, m) = FlattenSeq([i \in 1 .. m |-> rows[i]])
    OBVIOUS
  <2>1. \A i \in 1 .. m : i \in 1 .. n
    BY <1>3
  <2>2. [i \in 1 .. m |-> OffersOf(d, all[i])] = [i \in 1 .. m |-> rows[i]]
    BY <1>5, <2>1
  <2> QED
    BY <1>1, <2>2 DEF Finished
<1>8. rows = [i \in 1 .. n |-> rows[i]]
  BY <1>4
<1>9. Offers(d) = Finished(d, n) /\ Offers(d) \in Seq(Rides(d))
  <2>1. n \in 0 .. n
    BY <1>3
  <2>2. Offers(d) = Finished(d, n)
    BY <1>6, <1>7, <1>8, <2>1
  <2>3. <<>> \in Seq(Rides(d))
    OBVIOUS
  <2>4. FlattenSeq(rows) \in Seq(Rides(d))
    BY <1>5, <2>3, Flattened
  <2> QED
    BY <1>6, <2>2, <2>4
<1>10. Finished(d, 0) = <<>>
  <2>1. [k \in 1 .. 0 |-> OffersOf(d, GetAllBuses(d)[k])] = <<>>
    OBVIOUS
  <2> QED
    BY <2>1 DEF Finished, FlattenSeq
<1>11. ASSUME NEW m \in 0 .. n, m < n
       PROVE  /\ Finished(d, m) \in Seq(Rides(d))
              /\ Finished(d, m + 1) = Finished(d, m) \o OffersOf(d, all[m + 1])
  <2>1. m \in Nat /\ m + 1 \in 0 .. n /\ m + 1 \in 1 .. n
    BY <1>3, <1>11
  <2>2. /\ FlattenSeq([i \in 1 .. m |-> rows[i]]) \in Seq(Rides(d))
        /\ FlattenSeq([i \in 1 .. m + 1 |-> rows[i]]) = FlattenSeq([i \in 1 .. m |-> rows[i]]) \o rows[m + 1]
    BY <1>5, <1>11, <2>1, FlattenedNext
  <2> QED
    BY <1>5, <1>7, <2>1, <2>2
<1>12. ASSUME NEW m \in 0 .. n
       PROVE  /\ Finished(d, m) \in Seq(Rides(d))
              /\ \E z \in Seq(Rides(d)) : Offers(d) = Finished(d, m) \o z
  <2>1. m < n \/ m = n
    BY <1>3
  <2>2. Finished(d, m) \in Seq(Rides(d))
    BY <1>9, <1>11, <2>1
  <2>3. m \in 0 .. Len(rows)
    BY <1>5
  <2>4. \E z \in Seq(Rides(d)) : FlattenSeq(rows) = FlattenSeq([i \in 1 .. m |-> rows[i]]) \o z
    BY <1>5, <2>3, FlattenedPrefix
  <2> QED
    BY <1>6, <1>7, <2>2, <2>4
<1>13. \A m \in 0 .. n - 1 : Finished(d, m + 1) = Finished(d, m) \o OffersOf(d, all[m + 1])
  <2> SUFFICES ASSUME NEW m \in 0 .. n - 1
               PROVE  Finished(d, m + 1) = Finished(d, m) \o OffersOf(d, all[m + 1])
    OBVIOUS
  <2>1. m \in 0 .. n /\ m < n
    BY <1>3
  <2> QED
    BY <1>11, <2>1
<1> QED
  BY <1>1, <1>2, <1>3, <1>9, <1>10, <1>12, <1>13

\* Where the loops may be: bs is the rest of the buses, i a position of the
\* first of them, or past the last, and j a position that follows i, or past
\* the furthest one can ride.
AtPlace(d, bs, i, j) ==
    LET all == GetAllBuses(d) IN
    /\ bs \in Seq(BusNames(d)) /\ Len(bs) <= Len(all)
    /\ \A n \in 1 .. Len(bs) : bs[n] = all[Len(all) - Len(bs) + n]
    /\ i \in Nat \ {0} /\ j \in Nat /\ i < j
    /\ bs # <<>> =>
         LET bus == BusOf(d, Head(bs)) IN
         /\ i <= Len(bus.route) + 1
         /\ IF i <= Len(bus.route) THEN j <= Furthest(bus, i) + 1 ELSE j = i + 1

\* The parts of what has been offered, at such a place.
LEMMA PlaceParts ==
    ASSUME NEW d \in Catalogue, NEW bs, NEW i, NEW j, AtPlace(d, bs, i, j), bs # <<>>
    PROVE  LET b == Head(bs)
               m == Len(GetAllBuses(d)) - Len(bs) IN
           /\ b \in BusNames(d) /\ b = GetAllBuses(d)[m + 1]
           /\ Len(bs) \in Nat /\ Tail(bs) \in Seq(BusNames(d))
           /\ m \in 0 .. Len(GetAllBuses(d)) - 1
           /\ Len(Tail(bs)) = Len(bs) - 1
           /\ \A n \in 1 .. Len(bs) - 1 : Tail(bs)[n] = bs[n + 1]
           /\ Finished(d, m) \in Seq(Rides(d))
           /\ Boarded(d, b, i) \in Seq(Rides(d))
           /\ Riding(d, b, i, j) \in Seq(Rides(d)) /\ Len(Riding(d, b, i, j)) = j - i - 1
<1>1. PICK all, b, m, n :
        /\ all = GetAllBuses(d) /\ b = Head(bs) /\ n = Len(BusOf(d, b).route)
        /\ m = Len(all) - Len(bs)
  OBVIOUS
<1>2. /\ bs \in Seq(BusNames(d)) /\ Len(bs) <= Len(all) /\ Len(all) \in Nat
      /\ \A k \in 1 .. Len(bs) : bs[k] = all[m + k]
      /\ i \in Nat \ {0} /\ j \in Nat /\ i < j /\ i <= n + 1
  BY <1>1, OffersRows DEF AtPlace
<1>3. /\ Len(bs) \in Nat /\ Len(bs) > 0 /\ b = bs[1] /\ b \in BusNames(d)
      /\ Tail(bs) \in Seq(BusNames(d)) /\ Len(Tail(bs)) = Len(bs) - 1
      /\ \A k \in 1 .. Len(bs) - 1 : Tail(bs)[k] = bs[k + 1]
  BY <1>1, <1>2, HeadTailProperties
<1>4. m \in 0 .. Len(all) - 1 /\ m \in 0 .. Len(all) /\ b = all[m + 1]
  BY <1>1, <1>2, <1>3
<1>5. Finished(d, m) \in Seq(Rides(d))
  BY <1>1, <1>4, OffersRows
<1>6. Boarded(d, b, i) \in Seq(Rides(d))
  <2>1. i \in 1 .. n + 1
    BY <1>1, <1>2, <1>3, BusRoute
  <2> QED
    BY <1>1, <1>3, <2>1, OffersOfRows
<1>7. Riding(d, b, i, j) \in Seq(Rides(d)) /\ Len(Riding(d, b, i, j)) = j - i - 1
  <2>1. j - i - 1 \in Nat /\ \A k \in 1 .. j - i - 1 : i \in Nat /\ i + k \in Nat
    BY <1>2
  <2>2. \A k \in 1 .. j - i - 1 : Offer(d, b, i, i + k) \in Rides(d)
    BY <1>3, <2>1 DEF Rides
  <2>3. Riding(d, b, i, j) \in [1 .. j - i - 1 -> Rides(d)]
    BY <2>2 DEF Riding
  <2> QED
    BY <2>1, <2>3, FunctionSeq
<1> QED
  BY <1>1, <1>3, <1>4, <1>5, <1>6, <1>7

\* One ride is added to what has been offered.
LEMMA OfferedNext ==
    ASSUME NEW d \in Catalogue, NEW bs, NEW i, NEW j, AtPlace(d, bs, i, j), bs # <<>>
    PROVE  OfferedSoFar(d, bs, i, j + 1)
           = Append(OfferedSoFar(d, bs, i, j), Offer(d, Head(bs), i, j))
<1>1. PICK b, m, n, f, g : /\ b = Head(bs) /\ m = Len(GetAllBuses(d)) - Len(bs) /\ n = j - i
                           /\ f = Finished(d, m) \o Boarded(d, b, i) /\ g = Riding(d, b, i, j)
  OBVIOUS
<1>2. /\ f \in Seq(Rides(d)) /\ g \in Seq(Rides(d)) /\ Len(g) = n - 1 /\ b \in BusNames(d)
  <2>1. /\ Finished(d, m) \in Seq(Rides(d)) /\ Boarded(d, b, i) \in Seq(Rides(d))
        /\ Riding(d, b, i, j) \in Seq(Rides(d)) /\ Len(Riding(d, b, i, j)) = j - i - 1
        /\ b \in BusNames(d)
    BY <1>1, PlaceParts
  <2> QED
    BY <1>1, <2>1, ConcatProperties
<1>3. i \in Nat /\ j \in Nat /\ i < j
  BY DEF AtPlace
<1>4. n \in Nat /\ n > 0 /\ i + n = j /\ (j + 1) - i - 1 = n /\ j - i - 1 = n - 1
  BY <1>1, <1>3
<1>5. PICK x : x = Offer(d, b, i, j)
  OBVIOUS
<1>6. x \in Rides(d)
  BY <1>2, <1>3, <1>5 DEF Rides
<1>7. Riding(d, b, i, j + 1) = Append(g, x)
  <2>1. PICK h : h = Riding(d, b, i, j + 1)
    OBVIOUS
  <2>2. h = [k \in 1 .. n |-> Offer(d, b, i, i + k)] /\ g = [k \in 1 .. n - 1 |-> Offer(d, b, i, i + k)]
    BY <1>1, <1>4, <2>1 DEF Riding
  <2>3. \A k \in 1 .. n : i + k \in Nat /\ (k \in 1 .. n - 1 \/ k = n)
    BY <1>3, <1>4
  <2>4. h \in Seq(Rides(d)) /\ Len(h) = n
    <3>1. \A k \in 1 .. n : Offer(d, b, i, i + k) \in Rides(d)
      BY <1>2, <1>3, <2>3 DEF Rides
    <3>2. h \in [1 .. n -> Rides(d)]
      BY <2>2, <3>1
    <3> QED
      BY <1>4, <3>2, FunctionSeq
  <2>5. /\ Append(g, x) \in Seq(Rides(d)) /\ Len(Append(g, x)) = n
        /\ \A k \in 1 .. n - 1 : Append(g, x)[k] = g[k]
        /\ Append(g, x)[n] = x
    <3>1. n - 1 + 1 = n
      BY <1>4
    <3> QED
      BY <1>2, <1>6, <3>1, Appended
  <2>6. \A k \in 1 .. n : h[k] = Append(g, x)[k]
    <3> SUFFICES ASSUME NEW k \in 1 .. n PROVE h[k] = Append(g, x)[k]
      OBVIOUS
    <3>1. h[k] = Offer(d, b, i, i + k)
      BY <2>2
    <3>2. CASE k = n
      BY <1>4, <1>5, <2>5, <3>1, <3>2
    <3>3. CASE k \in 1 .. n - 1
      BY <2>2, <2>5, <3>1, <3>3
    <3> QED
      BY <2>3, <3>2, <3>3
  <2> QED
    BY <2>1, <2>4, <2>5, <2>6, SeqEqual
<1>8. f \o Append(g, x) = Append(f \o g, x)
  BY <1>2, <1>6
<1>9. /\ OfferedSoFar(d, bs, i, j) = f \o g
      /\ OfferedSoFar(d, bs, i, j + 1) = f \o Append(g, x)
  BY <1>1, <1>7 DEF OfferedSoFar
<1> QED
  BY <1>1, <1>5, <1>8, <1>9

\* All rides from one position have been added.
LEMMA OfferedRow ==
    ASSUME NEW d \in Catalogue, NEW bs, NEW i, NEW j, AtPlace(d, bs, i, j), bs # <<>>,
           i <= Len(BusOf(d, Head(bs)).route), j = Furthest(BusOf(d, Head(bs)), i) + 1
    PROVE  /\ AtPlace(d, bs, i + 1, i + 2)
           /\ OfferedSoFar(d, bs, i + 1, i + 2) = OfferedSoFar(d, bs, i, j)
<1>1. PICK b, m, n, far, e, f : /\ b = Head(bs) /\ m = Len(GetAllBuses(d)) - Len(bs)
                                /\ n = Len(BusOf(d, b).route) /\ far = Furthest(BusOf(d, b), i)
                                /\ e = Finished(d, m) /\ f = Boarded(d, b, i)
  OBVIOUS
<1>2. b \in BusNames(d) /\ e \in Seq(Rides(d)) /\ f \in Seq(Rides(d))
  BY <1>1, PlaceParts
<1>3. i \in Nat \ {0} /\ j \in Nat /\ i < j /\ i <= n /\ j = far + 1
  BY <1>1 DEF AtPlace
<1>4. /\ i \in 1 .. n /\ n \in Nat
      /\ \A k \in 1 .. n : far \in Nat /\ k <= Furthest(BusOf(d, b), k)
                           /\ Furthest(BusOf(d, b), k) <= n /\ Furthest(BusOf(d, b), k) \in Nat
  <2>1. n \in Nat
    BY <1>1, <1>2, BusRoute
  <2>2. i \in 1 .. n
    BY <1>3, <2>1
  <2> QED
    BY <1>1, <1>2, <2>1, <2>2, BusRoute
<1>5. AtPlace(d, bs, i + 1, i + 2)
  <2>1. /\ i + 1 \in Nat \ {0} /\ i + 2 \in Nat /\ i + 1 < i + 2 /\ i + 1 <= n + 1
        /\ (i + 1) + 1 = i + 2
        /\ i + 1 <= n => i + 1 \in 1 .. n
    BY <1>3, <1>4
  <2>2. i + 1 <= n => i + 2 <= Furthest(BusOf(d, b), i + 1) + 1
    <3>1. ASSUME i + 1 <= n
          PROVE  i + 1 <= Furthest(BusOf(d, b), i + 1) /\ Furthest(BusOf(d, b), i + 1) \in Nat
      BY <1>4, <2>1, <3>1
    <3> QED
      BY <1>3, <3>1
  <2> QED
    BY <1>1, <2>1, <2>2 DEF AtPlace
<1>6. Riding(d, b, i, j) = OffersFrom(d, b, i)
  <2>1. j - i - 1 = far - i
    BY <1>3, <1>4
  <2> QED
    BY <1>1, <2>1 DEF Riding, OffersFrom
<1>7. Riding(d, b, i + 1, i + 2) = <<>>
  <2>1. (i + 2) - (i + 1) - 1 = 0
    BY <1>3
  <2>2. [k \in 1 .. 0 |-> Offer(d, b, i + 1, i + 1 + k)] = <<>>
    OBVIOUS
  <2> QED
    BY <2>1, <2>2 DEF Riding
<1>8. PICK g : g = OffersFrom(d, b, i)
  OBVIOUS
<1>9. g \in Seq(Rides(d)) /\ Boarded(d, b, i + 1) = f \o g
  BY <1>1, <1>2, <1>4, <1>8, OffersOfRows
<1>10. (e \o (f \o g)) \o <<>> = (e \o f) \o g
  BY <1>2, <1>9
<1>11. /\ OfferedSoFar(d, bs, i, j) = (e \o f) \o g
       /\ OfferedSoFar(d, bs, i + 1, i + 2) = (e \o (f \o g)) \o <<>>
  BY <1>1, <1>6, <1>7, <1>8, <1>9 DEF OfferedSoFar
<1> QED
  BY <1>5, <1>10, <1>11

\* All rides of one bus have been added.
LEMMA OfferedBus ==
    ASSUME NEW d \in Catalogue, NEW bs, NEW i, NEW j, AtPlace(d, bs, i, j), bs # <<>>,
           i > Len(BusOf(d, Head(bs)).route)
    PROVE  /\ AtPlace(d, Tail(bs), 1, 2)
           /\ OfferedSoFar(d, Tail(bs), 1, 2) = OfferedSoFar(d, bs, i, j)
<1>1. PICK all, b, m, n, e, f, r :
        /\ all = GetAllBuses(d) /\ b = Head(bs) /\ m = Len(all) - Len(bs)
        /\ n = Len(BusOf(d, b).route) /\ r = Tail(bs)
        /\ e = Finished(d, m) /\ f = Boarded(d, b, i)
  OBVIOUS
<1>2. /\ b \in BusNames(d) /\ b = all[m + 1] /\ Len(bs) \in Nat
      /\ r \in Seq(BusNames(d)) /\ m \in 0 .. Len(all) - 1
      /\ Len(r) = Len(bs) - 1
      /\ \A k \in 1 .. Len(bs) - 1 : r[k] = bs[k + 1]
      /\ e \in Seq(Rides(d)) /\ f \in Seq(Rides(d))
  BY <1>1, PlaceParts
<1>3. n \in Nat
  BY <1>1, <1>2, BusRoute
<1>4. /\ i \in Nat /\ j = i + 1 /\ i = n + 1 /\ Len(bs) <= Len(all)
      /\ \A k \in 1 .. Len(bs) : bs[k] = all[m + k]
  <2>1. /\ i \in Nat \ {0} /\ i <= n + 1 /\ (i <= n \/ j = i + 1) /\ Len(bs) <= Len(all) /\ i > n
        /\ \A k \in 1 .. Len(bs) : bs[k] = all[m + k]
    BY <1>1 DEF AtPlace
  <2> QED
    BY <1>3, <2>1
<1>5. Len(all) \in Nat
  BY <1>1, OffersRows
<1>6. AtPlace(d, r, 1, 2)
  <2>1. Len(r) <= Len(all)
    BY <1>2, <1>4, <1>5
  <2>2. \A k \in 1 .. Len(r) : r[k] = all[Len(all) - Len(r) + k]
    <3> SUFFICES ASSUME NEW k \in 1 .. Len(r) PROVE r[k] = all[Len(all) - Len(r) + k]
      OBVIOUS
    <3>1. k \in 1 .. Len(bs) - 1 /\ k + 1 \in 1 .. Len(bs)
      BY <1>2
    <3>2. m + (k + 1) = Len(all) - Len(r) + k
      BY <1>1, <1>2, <1>5
    <3>3. r[k] = bs[k + 1] /\ bs[k + 1] = all[m + (k + 1)]
      BY <1>2, <1>4, <3>1
    <3> QED
      BY <3>2, <3>3
  <2>3. /\ 1 \in Nat \ {0} /\ 2 \in Nat /\ 1 < 2
    OBVIOUS
  <2>4. ASSUME r # <<>>
        PROVE  LET bus == BusOf(d, Head(r)) IN
               /\ 1 <= Len(bus.route) + 1
               /\ IF 1 <= Len(bus.route) THEN 2 <= Furthest(bus, 1) + 1 ELSE 2 = 1 + 1
    <3>1. PICK c : c = Head(r)
      OBVIOUS
    <3>2. c \in BusNames(d)
      BY <1>2, <2>4, <3>1, HeadTailProperties
    <3>3. /\ Len(BusOf(d, c).route) \in Nat
          /\ \A k \in 1 .. Len(BusOf(d, c).route) :
               Furthest(BusOf(d, c), k) \in Nat /\ k <= Furthest(BusOf(d, c), k)
      BY <3>2, BusRoute
    <3>4. 1 <= Len(BusOf(d, c).route) => 2 <= Furthest(BusOf(d, c), 1) + 1
      <4>1. ASSUME 1 <= Len(BusOf(d, c).route)
            PROVE  Furthest(BusOf(d, c), 1) \in Nat /\ 1 <= Furthest(BusOf(d, c), 1)
        <5>1. 1 \in 1 .. Len(BusOf(d, c).route)
          BY <3>3, <4>1
        <5> QED
          BY <3>3, <5>1
      <4> QED
        BY <4>1
    <3> QED
      BY <3>1, <3>3, <3>4
  <2> QED
    BY <1>1, <1>2, <2>1, <2>2, <2>3, <2>4 DEF AtPlace
<1>7. Riding(d, b, i, j) = <<>>
  <2>1. j - i - 1 = 0
    BY <1>4
  <2>2. [k \in 1 .. 0 |-> Offer(d, b, i, i + k)] = <<>>
    OBVIOUS
  <2> QED
    BY <2>1, <2>2 DEF Riding
<1>8. f = OffersOf(d, b)
  BY <1>1, <1>2, <1>4, OffersOfRows
<1>9. Finished(d, m + 1) = e \o f
  BY <1>1, <1>2, <1>8, OffersRows
<1>10. OfferedSoFar(d, bs, i, j) = e \o f
  <2>1. (e \o f) \o <<>> = e \o f
    BY <1>2
  <2> QED
    BY <1>1, <1>7, <2>1 DEF OfferedSoFar
<1>11. Len(all) - Len(r) = m + 1
  BY <1>1, <1>2, <1>5
<1>12. OfferedSoFar(d, r, 1, 2) = e \o f
  <2>1. CASE r = <<>>
    BY <1>1, <1>9, <1>11, <2>1 DEF OfferedSoFar
  <2>2. CASE r # <<>>
    <3>1. PICK c : c = Head(r)
      OBVIOUS
    <3>2. c \in BusNames(d)
      BY <1>2, <2>2, <3>1, HeadTailProperties
    <3>3. Boarded(d, c, 1) = <<>>
      BY <3>2, OffersOfRows
    <3>4. Riding(d, c, 1, 2) = <<>>
      <4>1. 2 - 1 - 1 = 0
        OBVIOUS
      <4>2. [k \in 1 .. 0 |-> Offer(d, c, 1, 1 + k)] = <<>>
        OBVIOUS
      <4> QED
        BY <4>1, <4>2 DEF Riding
    <3>5. ((e \o f) \o <<>>) \o <<>> = e \o f
      BY <1>2
    <3> QED
      BY <1>1, <1>9, <1>11, <2>2, <3>1, <3>3, <3>4, <3>5 DEF OfferedSoFar
  <2> QED
    BY <2>1, <2>2
<1> QED
  BY <1>1, <1>6, <1>10, <1>12

\* What has been offered begins what the catalogue offers, and is all of it
\* when no bus is left.
LEMMA OfferedPrefix ==
    ASSUME NEW d \in Catalogue, NEW bs, NEW i, NEW j, AtPlace(d, bs, i, j)
    PROVE  /\ IsPrefix(OfferedSoFar(d, bs, i, j), Offers(d))
           /\ bs = <<>> => OfferedSoFar(d, bs, i, j) = Offers(d)
<1>1. PICK all, m, W : all = GetAllBuses(d) /\ m = Len(all) - Len(bs) /\ W = Rides(d)
  OBVIOUS
<1>2. CASE bs = <<>>
  <2>1. Len(bs) = 0 /\ m = Len(all) /\ Len(all) \in Nat /\ Len(all) \in 0 .. Len(all)
    BY <1>1, <1>2, OffersRows
  <2>2. OfferedSoFar(d, bs, i, j) = Finished(d, Len(all))
    BY <1>1, <1>2, <2>1 DEF OfferedSoFar
  <2>3. Offers(d) = Finished(d, Len(all)) /\ Finished(d, Len(all)) \in Seq(W)
    BY <1>1, <2>1, OffersRows
  <2>4. Offers(d) \o <<>> = Offers(d) /\ <<>> \in Seq(W)
    BY <2>3
  <2>5. IsPrefix(Offers(d), Offers(d) \o <<>>)
    BY <2>3, <2>4, ContinuedPrefix
  <2> QED
    BY <2>2, <2>3, <2>4, <2>5
<1>3. CASE bs # <<>>
  <2>1. PICK b, n, e, f, g : /\ b = Head(bs) /\ n = Len(BusOf(d, b).route)
                             /\ e = Finished(d, m) /\ f = Boarded(d, b, i) /\ g = Riding(d, b, i, j)
    OBVIOUS
  <2>2. /\ b \in BusNames(d) /\ b = all[m + 1] /\ m \in 0 .. Len(all) - 1
        /\ e \in Seq(W) /\ f \in Seq(W) /\ g \in Seq(W)
    BY <1>1, <1>3, <2>1, PlaceParts
  <2>3. /\ i \in Nat \ {0} /\ j \in Nat /\ i < j /\ i <= n + 1
        /\ IF i <= n THEN j <= Furthest(BusOf(d, b), i) + 1 ELSE j = i + 1
    BY <1>3, <2>1 DEF AtPlace
  <2>4. n \in Nat /\ i \in 1 .. n + 1
    <3>1. n \in Nat
      BY <2>1, <2>2, BusRoute
    <3> QED
      BY <2>3, <3>1
  <2>5. PICK z \in Seq(W) : OffersOf(d, b) = (f \o g) \o z
    <3>1. CASE i <= n
      <4>1. i \in 1 .. n
        BY <2>3, <2>4, <3>1
      <4>2. PICK far \in Nat : far = Furthest(BusOf(d, b), i) /\ j <= far + 1 /\ i <= far
        BY <2>1, <2>2, <2>3, <3>1, <4>1, BusRoute
      <4>3. PICK y \in Seq(W) : OffersOf(d, b) = (f \o OffersFrom(d, b, i)) \o y
        BY <1>1, <2>1, <2>2, <4>1, OffersOfRows
      <4>4. PICK q : q = [k \in 1 .. far - j + 1 |-> Offer(d, b, i, j - 1 + k)]
        OBVIOUS
      <4>5. q \in Seq(W) /\ Len(q) = far - j + 1
        <5>1. far - j + 1 \in Nat /\ \A k \in 1 .. far - j + 1 : j - 1 + k \in Nat /\ i \in Nat
          BY <2>3, <4>2
        <5>2. \A k \in 1 .. far - j + 1 : Offer(d, b, i, j - 1 + k) \in W
          BY <1>1, <2>2, <5>1 DEF Rides
        <5>3. q \in [1 .. far - j + 1 -> W]
          BY <4>4, <5>2
        <5> QED
          BY <5>1, <5>3, FunctionSeq
      <4>6. OffersFrom(d, b, i) = g \o q
        <5>1. PICK h : h = OffersFrom(d, b, i)
          OBVIOUS
        <5>2. h \in Seq(W)
          BY <1>1, <2>1, <2>2, <4>1, <5>1, OffersOfRows
        <5>3. h = [k \in 1 .. far - i |-> Offer(d, b, i, i + k)]
          BY <4>2, <5>1 DEF OffersFrom
        <5>4. g = [k \in 1 .. j - i - 1 |-> Offer(d, b, i, i + k)]
          BY <2>1 DEF Riding
        <5>5. PICK c \in Nat : c = j - i - 1
          BY <2>3
        <5>6. far - i \in Nat /\ far - i = c + (far - j + 1)
          BY <2>3, <4>2, <5>5
        <5>7. Len(h) = far - i /\ Len(g) = c
          <6>1. DOMAIN h = 1 .. far - i /\ DOMAIN g = 1 .. c
            BY <5>3, <5>4, <5>5
          <6> QED
            BY <2>2, <5>2, <5>5, <5>6, <6>1, LenProperties
        <5>8. /\ g \o q \in Seq(W) /\ Len(g \o q) = far - i
              /\ \A k \in 1 .. c : (g \o q)[k] = g[k]
              /\ \A k \in c + 1 .. far - i : (g \o q)[k] = q[k - c]
          <6>1. /\ g \o q \in Seq(W) /\ Len(g \o q) = Len(g) + Len(q)
                /\ \A k \in 1 .. Len(g) + Len(q) :
                     (g \o q)[k] = IF k <= Len(g) THEN g[k] ELSE q[k - Len(g)]
            BY <2>2, <4>5, ConcatProperties
          <6>2. PICK l \in Nat : l = far - i
            BY <5>6
          <6>3. Len(g) = c /\ Len(g) + Len(q) = l
            BY <4>5, <5>6, <5>7, <6>2
          <6>4. /\ Len(g \o q) = l
                /\ \A k \in 1 .. l : (g \o q)[k] = IF k <= c THEN g[k] ELSE q[k - c]
            BY <6>1, <6>3
          <6>5. \A k \in 1 .. c : k \in 1 .. l /\ k <= c
            BY <4>5, <5>7, <6>3
          <6>6. \A k \in c + 1 .. l : k \in 1 .. l /\ ~(k <= c)
            BY <5>5
          <6> QED
            BY <6>1, <6>2, <6>4, <6>5, <6>6
        <5>9. \A k \in 1 .. far - i : h[k] = (g \o q)[k]
          <6> SUFFICES ASSUME NEW k \in 1 .. far - i PROVE h[k] = (g \o q)[k]
            OBVIOUS
          <6>1. h[k] = Offer(d, b, i, i + k)
            BY <5>3
          <6>2. CASE k \in 1 .. c
            BY <5>4, <5>5, <5>8, <6>1, <6>2
          <6>3. CASE k \in c + 1 .. far - i
            <7>1. k - c \in 1 .. far - j + 1 /\ j - 1 + (k - c) = i + k
              BY <2>3, <4>2, <5>5, <5>6, <6>3
            <7>2. q[k - c] = Offer(d, b, i, i + k)
              BY <4>4, <7>1
            <7> QED
              BY <5>8, <6>1, <6>3, <7>2
          <6>4. k \in 1 .. c \/ k \in c + 1 .. far - i
            BY <5>5, <5>6
          <6> QED
            BY <6>2, <6>3, <6>4
        <5> QED
          BY <5>1, <5>2, <5>7, <5>8, <5>9, SeqEqual
      <4>7. (f \o (g \o q)) \o y = (f \o g) \o (q \o y) /\ q \o y \in Seq(W)
        <5>1. /\ g \o q \in Seq(W) /\ q \o y \in Seq(W) /\ f \o g \in Seq(W)
          BY <2>2, <4>3, <4>5, ConcatProperties
        <5>4. /\ f \in Seq(W) /\ g \in Seq(W) /\ q \in Seq(W) /\ y \in Seq(W) /\ f \o g \in Seq(W)
          BY <2>2, <4>3, <4>5, <5>1
        <5>3. (f \o g) \o q = f \o (g \o q)
          BY <5>4, ConcatAssociative
        <5>2. ((f \o g) \o q) \o y = (f \o g) \o (q \o y)
          <6>1. PICK h : h = f \o g
            OBVIOUS
          <6>2. h \in Seq(W) /\ q \in Seq(W) /\ y \in Seq(W)
            BY <5>4, <6>1
          <6>3. (h \o q) \o y = h \o (q \o y)
            BY <6>2, ConcatAssociative
          <6> QED
            BY <6>1, <6>3
        <5> QED
          BY <5>1, <5>2, <5>3
      <4> QED
        BY <4>3, <4>6, <4>7
    <3>2. CASE i > n
      <4>1. PICK y \in Seq(W) : OffersOf(d, b) = f \o y
        BY <1>1, <2>1, <2>2, <2>4, OffersOfRows
      <4>2. g = <<>>
        <5>1. j - i - 1 = 0
          BY <2>3, <2>4, <3>2
        <5>2. [k \in 1 .. 0 |-> Offer(d, b, i, i + k)] = <<>>
          OBVIOUS
        <5> QED
          BY <2>1, <5>1, <5>2 DEF Riding
      <4>3. f \o g = f
        BY <2>2, <4>2
      <4> QED
        BY <4>1, <4>3
    <3>3. i <= n \/ i > n
      BY <2>3, <2>4
    <3> QED
      BY <3>1, <3>2, <3>3
  <2>6. PICK x \in Seq(W) : Offers(d) = (e \o OffersOf(d, b)) \o x
    <3>1. m + 1 \in 0 .. Len(all)
      <4>1. Len(all) \in Nat
        BY <1>1, OffersRows
      <4> QED
        BY <2>2, <4>1
    <3>2. Finished(d, m + 1) = e \o OffersOf(d, b)
      BY <1>1, <2>1, <2>2, OffersRows
    <3>3. \E x \in Seq(W) : Offers(d) = Finished(d, m + 1) \o x
      BY <1>1, <3>1, OffersRows
    <3> QED
      BY <3>2, <3>3
  <2>7. (e \o ((f \o g) \o z)) \o x = ((e \o f) \o g) \o (z \o x)
    <3>1. PICK fg : fg = f \o g
      OBVIOUS
    <3>2. fg \in Seq(W) /\ fg \o z \in Seq(W) /\ z \o x \in Seq(W)
      BY <2>2, <3>1, ConcatProperties
    <3>7. e \in Seq(W) /\ f \in Seq(W) /\ g \in Seq(W) /\ z \in Seq(W) /\ x \in Seq(W)
      BY <2>2, <2>5, <2>6
    <3>3. (e \o (fg \o z)) \o x = e \o ((fg \o z) \o x)
      <4>1. PICK h : h = fg \o z
        OBVIOUS
      <4>2. e \in Seq(W) /\ h \in Seq(W) /\ x \in Seq(W)
        BY <3>2, <3>7, <4>1
      <4>3. (e \o h) \o x = e \o (h \o x)
        BY <4>2, ConcatAssociative
      <4> QED
        BY <4>1, <4>3
    <3>4. (fg \o z) \o x = fg \o (z \o x)
      <4>1. fg \in Seq(W) /\ z \in Seq(W) /\ x \in Seq(W)
        BY <3>2, <3>7
      <4> QED
        BY <4>1, ConcatAssociative
    <3>5. e \o (fg \o (z \o x)) = (e \o fg) \o (z \o x)
      <4>1. PICK h : h = z \o x
        OBVIOUS
      <4>2. e \in Seq(W) /\ fg \in Seq(W) /\ h \in Seq(W)
        BY <3>2, <3>7, <4>1
      <4>3. e \o (fg \o h) = (e \o fg) \o h
        BY <4>2, ConcatAssociative
      <4> QED
        BY <4>1, <4>3
    <3>6. e \o (f \o g) = (e \o f) \o g
      <4>1. e \in Seq(W) /\ f \in Seq(W) /\ g \in Seq(W)
        BY <3>7
      <4>2. (e \o f) \o g = e \o (f \o g)
        BY <4>1, ConcatAssociative
      <4> QED
        BY <4>2
    <3>8. (e \o (fg \o z)) \o x = (e \o fg) \o (z \o x)
      <4>1. PICK y, zx : y = fg \o z /\ zx = z \o x
        OBVIOUS
      <4>2. (e \o y) \o x = e \o (y \o x)
        BY <3>3, <4>1
      <4>3. y \o x = fg \o zx
        BY <3>4, <4>1
      <4>4. (e \o y) \o x = e \o (fg \o zx)
        BY <4>2, <4>3
      <4>5. e \o (fg \o zx) = (e \o fg) \o zx
        BY <3>5, <4>1
      <4> QED
        BY <4>1, <4>4, <4>5
    <3>9. e \o fg = (e \o f) \o g
      BY <3>1, <3>6, Zenon
    <3> QED
      BY <3>1, <3>8, <3>9, Zenon
  <2>8. (e \o f) \o g \in Seq(W) /\ z \o x \in Seq(W)
    BY <2>2, <2>5, <2>6, ConcatProperties
  <2>9. OfferedSoFar(d, bs, i, j) = (e \o f) \o g
    BY <1>1, <1>3, <2>1 DEF OfferedSoFar
  <2>10. IsPrefix((e \o f) \o g, ((e \o f) \o g) \o (z \o x))
    BY <2>8, ContinuedPrefix
  <2> QED
    BY <1>3, <2>5, <2>6, <2>7, <2>9, <2>10
<1> QED
  BY <1>2, <1>3

\* Noting the bus of an edge does not change what the catalogue offers.
LEMMA SameOffers ==
    ASSUME NEW d \in Catalogue, NEW x \in BusName, NEW e, e = SetBusForEdge(d, x)
    PROVE  /\ GetAllBuses(e) = GetAllBuses(d) /\ BusNames(e) = BusNames(d)
           /\ \A c : BusOf(e, c) = BusOf(d, c)
           /\ \A bus : Legs(e, bus) = Legs(d, bus)
           /\ \A v : GetStopForVertex(e, v) = GetStopForVertex(d, v)
           /\ Offers(e) = Offers(d)
           /\ \A bs, i, j : OfferedSoFar(e, bs, i, j) = OfferedSoFar(d, bs, i, j)
           /\ \A bs, i, j : AtPlace(d, bs, i, j) => AtPlace(e, bs, i, j)
           /\ Resolved(d) /\ x \in BusNames(d) => Resolved(e)
<1>1. /\ BusNames(e) = BusNames(d) /\ e.edges_to_buses = Append(d.edges_to_buses, x)
      /\ \A c : BusOf(e, c) = BusOf(d, c)
      /\ \A s, t : GetDistance(e, s, t) = GetDistance(d, s, t)
  BY BusOfEdgeSet
<1>2. GetAllBuses(e) = GetAllBuses(d)
  BY <1>1 DEF GetAllBuses
<1>3. \A bus : Legs(e, bus) = Legs(d, bus)
  BY <1>1 DEF Legs
<1>4. /\ e.stops = d.stops /\ e.buses = d.buses /\ e.distances = d.distances
  BY DEF SetBusForEdge, Catalogue
<1>5. StopNames(e) = StopNames(d)
  BY <1>4 DEF StopNames
<1>6. \A v : GetStopForVertex(e, v) = GetStopForVertex(d, v)
  BY <1>5 DEF GetStopForVertex, GetAllStops
<1>7. \A b, i, j : Offer(e, b, i, j) = Offer(d, b, i, j)
  BY <1>1, <1>3 DEF Offer
<1>8. \A b, i : OffersFrom(e, b, i) = OffersFrom(d, b, i)
  <2> SUFFICES ASSUME NEW b, NEW i PROVE OffersFrom(e, b, i) = OffersFrom(d, b, i)
    OBVIOUS
  <2>1. PICK n : n = Furthest(BusOf(d, b), i) - i
    OBVIOUS
  <2>2. [k \in 1 .. n |-> Offer(e, b, i, i + k)] = [k \in 1 .. n |-> Offer(d, b, i, i + k)]
    BY <1>7
  <2> QED
    BY <1>1, <2>1, <2>2 DEF OffersFrom
<1>9. \A b : OffersOf(e, b) = OffersOf(d, b)
  <2> SUFFICES ASSUME NEW b PROVE OffersOf(e, b) = OffersOf(d, b)
    OBVIOUS
  <2>1. [i \in DOMAIN BusOf(d, b).route |-> OffersFrom(e, b, i)]
        = [i \in DOMAIN BusOf(d, b).route |-> OffersFrom(d, b, i)]
    BY <1>8
  <2> QED
    BY <1>1, <2>1 DEF OffersOf
<1>10. Offers(e) = Offers(d)
  <2>1. PICK all : all = GetAllBuses(d)
    OBVIOUS
  <2>2. [n \in DOMAIN all |-> OffersOf(e, all[n])] = [n \in DOMAIN all |-> OffersOf(d, all[n])]
    BY <1>9
  <2> QED
    BY <1>2, <2>1, <2>2 DEF Offers
<1>11. \A m : Finished(e, m) = Finished(d, m)
  <2> SUFFICES ASSUME NEW m PROVE Finished(e, m) = Finished(d, m)
    OBVIOUS
  <2>1. PICK all : all = GetAllBuses(d)
    OBVIOUS
  <2>2. [n \in 1 .. m |-> OffersOf(e, all[n])] = [n \in 1 .. m |-> OffersOf(d, all[n])]
    BY <1>9
  <2> QED
    BY <1>2, <2>1, <2>2 DEF Finished
<1>12. \A b, i : Boarded(e, b, i) = Boarded(d, b, i)
  <2> SUFFICES ASSUME NEW b, NEW i PROVE Boarded(e, b, i) = Boarded(d, b, i)
    OBVIOUS
  <2>1. [k \in 1 .. i - 1 |-> OffersFrom(e, b, k)] = [k \in 1 .. i - 1 |-> OffersFrom(d, b, k)]
    BY <1>8
  <2> QED
    BY <2>1 DEF Boarded
<1>13. \A b, i, j : Riding(e, b, i, j) = Riding(d, b, i, j)
  BY <1>7 DEF Riding
<1>14. \A bs, i, j : OfferedSoFar(e, bs, i, j) = OfferedSoFar(d, bs, i, j)
  BY <1>2, <1>11, <1>12, <1>13 DEF OfferedSoFar
<1>15. \A bs, i, j : AtPlace(d, bs, i, j) => AtPlace(e, bs, i, j)
  BY <1>1, <1>2 DEF AtPlace
<1>16. ASSUME Resolved(d), x \in BusNames(d) PROVE Resolved(e)
  <2>1. ToSet(e.edges_to_buses) = ToSet(d.edges_to_buses) \cup {x}
    BY <1>1, CatalogueFields, Appended
  <2> QED
    BY <1>1, <1>4, <1>5, <1>16, <2>1 DEF Resolved
<1> QED
  BY <1>1, <1>2, <1>3, <1>6, <1>10, <1>14, <1>15, <1>16

\* The stop of the vertex of a stored stop is that stop.
LEMMA StopOfVertex ==
    ASSUME NEW d \in Catalogue, NEW s \in StopNames(d)
    PROVE  GetStopForVertex(d, GetVertexForStop(d, s)) = s
<1>1. PICK S : S = StopNames(d) /\ S \in SUBSET Int /\ IsFiniteSet(S)
  BY NamesAreFinite
<1>2. PICK r : r = Rank(S, s)
  OBVIOUS
<1>3. r \in 0 .. Cardinality(S) - 1 /\ Cardinality(S) \in Nat
  BY <1>1, <1>2, RankBound, FS_CardinalityType
<1>4. PICK n \in 1 .. Cardinality(S) : n = r + 1
  BY <1>3
<1>5. PICK t : t = Ascending(S)[n]
  OBVIOUS
<1>6. t \in S /\ Rank(S, t) = n - 1
  <2>1. /\ Ascending(S) \in Seq(S) /\ Len(Ascending(S)) = Cardinality(S)
        /\ \A k \in 1 .. Cardinality(S) : Rank(S, Ascending(S)[k]) = k - 1
    BY <1>1, AscendingOrder
  <2> QED
    BY <1>4, <1>5, <2>1
<1>7. Rank(S, t) = Rank(S, s) /\ Rank(S, s) \in Int /\ s \in Int /\ t \in Int
  BY <1>1, <1>2, <1>3, <1>4, <1>6
<1>8. ~(s < t) /\ ~(t < s)
  <2>1. s < t => Rank(S, s) < Rank(S, t)
    BY <1>1, <1>6, RankOrder
  <2>2. t < s => Rank(S, t) < Rank(S, s)
    BY <1>1, <1>6, RankOrder
  <2> QED
    BY <1>7, <2>1, <2>2
<1>9. t = s
  BY <1>7, <1>8
<1> QED
  BY <1>1, <1>2, <1>4, <1>5, <1>9 DEF GetStopForVertex, GetVertexForStop, GetAllStops

-----------------------------------------------------------------------------
(* The rides offered *)

\* What the constructor keeps of the offers: what has been printed so far is
\* what the catalogue offers up to the place where the loops are, and weight
\* is what has been ridden from the position of boarding.
OfferInv ==
    /\ Resolved(db)
    /\ AtPlace(db, buses, from_at, to_at)
    /\ buses # <<>> => weight = Metres(Legs(db, CurrentBus), from_at, to_at - 1)
    /\ Printed = OfferedSoFar(db, buses, from_at, to_at)

\* Nothing has been offered at the beginning.
LEMMA OfferInvInit == Init => OfferInv
<1> SUFFICES ASSUME Init PROVE OfferInv
  OBVIOUS
<1>1. /\ db \in Catalogue /\ Resolved(db) /\ edges = <<>> /\ buses = GetAllBuses(db)
      /\ from_at = 1 /\ to_at = 2 /\ weight = 0
  BY CataloguesAssumption DEF Init
<1>2. PICK all : all = GetAllBuses(db)
  OBVIOUS
<1>3. all \in Seq(BusNames(db)) /\ Len(all) \in Nat /\ Finished(db, 0) = <<>>
  BY <1>1, <1>2, OffersRows
<1>4. ASSUME all # <<>>
      PROVE  /\ Head(all) \in BusNames(db) /\ Len(BusOf(db, Head(all)).route) \in Nat
             /\ 1 <= Len(BusOf(db, Head(all)).route) =>
                  2 <= Furthest(BusOf(db, Head(all)), 1) + 1
  <2>1. PICK b : b = Head(all)
    OBVIOUS
  <2>2. b \in BusNames(db)
    BY <1>3, <1>4, <2>1, HeadTailProperties
  <2>3. PICK n \in Nat :
          /\ n = Len(BusOf(db, b).route)
          /\ \A i \in 1 .. n : Furthest(BusOf(db, b), i) \in Nat /\ i <= Furthest(BusOf(db, b), i)
    BY <1>1, <2>2, BusRoute
  <2>4. 1 <= n => 1 \in 1 .. n
    OBVIOUS
  <2>5. 1 <= n => 2 <= Furthest(BusOf(db, b), 1) + 1
    BY <2>3, <2>4
  <2> QED
    BY <2>1, <2>2, <2>3, <2>5
<1>5. AtPlace(db, all, 1, 2)
  <2>1. \A n \in 1 .. Len(all) : all[n] = all[Len(all) - Len(all) + n] 
    <3>1. \A n \in 1 .. Len(all) : Len(all) - Len(all) + n = n
      BY <1>3
    <3> QED
      BY <3>1
  <2>2. Len(all) <= Len(all)
    BY <1>3
  <2> QED
    BY <1>2, <1>3, <1>4, <2>1, <2>2 DEF AtPlace
<1>6. all # <<>> => weight = Metres(Legs(db, CurrentBus), 1, 2 - 1)
  <2>1. \A l : Metres(l, 1, 1) = 0
    BY MetresStep
  <2>2. 2 - 1 = 1
    OBVIOUS
  <2> QED
    BY <1>1, <2>1, <2>2
<1>7. OfferedSoFar(db, all, 1, 2) = <<>>
  <2>1. Len(all) - Len(all) = 0
    BY <1>3
  <2>2. CASE all = <<>>
    BY <1>2, <1>3, <2>1, <2>2 DEF OfferedSoFar
  <2>3. CASE all # <<>>
    <3>1. PICK b : b = Head(all)
      OBVIOUS
    <3>2. Boarded(db, b, 1) = <<>>
      BY <1>1, <1>4, <2>3, <3>1, OffersOfRows
    <3>3. Riding(db, b, 1, 2) = <<>>
      <4>1. 2 - 1 - 1 = 0
        OBVIOUS
      <4>2. [k \in 1 .. 0 |-> Offer(db, b, 1, 1 + k)] = <<>>
        OBVIOUS
      <4> QED
        BY <4>1, <4>2 DEF Riding
    <3>4. (<<>> \o <<>>) \o <<>> = <<>>
      OBVIOUS
    <3> QED
      BY <1>2, <1>3, <2>1, <2>3, <3>1, <3>2, <3>3, <3>4 DEF OfferedSoFar
  <2> QED
    BY <2>2, <2>3
<1>8. Printed = <<>>
  BY <1>1 DEF Printed
<1> QED
  BY <1>1, <1>2, <1>5, <1>6, <1>7, <1>8 DEF OfferInv

\* Where the loops are when an edge is added: at a stop one can ride to.
LEMMA RideIsOffered ==
    ASSUME GraphInv, OfferInv, AddEdge
    PROVE  LET b == Head(buses) IN
           /\ db \in Catalogue /\ b \in BusNames(db) /\ CurrentBus = BusOf(db, b)
           /\ from_at \in DOMAIN CurrentBus.route /\ to_at \in DOMAIN CurrentBus.route
           /\ from_at \in Nat \ {0} /\ to_at \in Nat /\ from_at < to_at
           /\ to_at <= Furthest(CurrentBus, from_at)
           /\ LeaveAtTurn(CurrentBus) => to_at = Furthest(CurrentBus, from_at)
           /\ \A n \in DOMAIN CurrentBus.route : CurrentBus.route[n] \in StopNames(db)
           /\ RidingTime(CurrentBus) = Metres(Legs(db, CurrentBus), from_at, to_at)
<1>1. PICK b, bus, i, j : /\ b = Head(buses) /\ bus = CurrentBus /\ i = from_at /\ j = to_at
  OBVIOUS
<1>2. /\ db \in Catalogue /\ buses \in Seq(BusNames(db)) /\ buses # <<>>
      /\ i \in Nat \ {0} /\ j \in Nat /\ bus = BusOf(db, b)
      /\ j <= Len(bus.route)
      /\ Resolved(db)
      /\ i < j
      /\ i <= Len(bus.route) + 1
      /\ IF i <= Len(bus.route) THEN j <= Furthest(bus, i) + 1 ELSE j = i + 1
      /\ weight = Metres(Legs(db, bus), i, j - 1)
      /\ ~bus.is_roundtrip /\ i < Middle(bus) => j <= Middle(bus)
  BY <1>1 DEF GraphInv, RideTypeOK, RideInv, OfferInv, AtPlace, AddEdge, CurrentBus
<1>3. b \in BusNames(db)
  BY <1>1, <1>2, CurrentBusType
<1>4. /\ bus.route \in Seq(StopName) /\ Len(bus.route) \in Nat
      /\ DOMAIN bus.route = 1 .. Len(bus.route) /\ Middle(bus) \in Nat
      /\ bus.is_roundtrip \in BOOLEAN
  BY <1>2, <1>3, BusRoute
<1>5. i \in DOMAIN bus.route /\ j \in DOMAIN bus.route /\ j \in 2 .. Len(bus.route)
  BY <1>2, <1>4
<1>6. j <= Furthest(bus, i)
  BY <1>2, <1>4 DEF Furthest
<1>7. LeaveAtTurn(bus) => j = Furthest(bus, i)
  BY <1>1, <1>2, <1>4 DEF LeaveAtTurn, Furthest
<1>8. \A n \in DOMAIN bus.route : bus.route[n] \in StopNames(db)
  <2>1. PICK k \in DOMAIN db.buses : bus = db.buses[k]
    BY <1>2, <1>3, BusOfName
  <2>2. ToSet(bus.route) \subseteq StopNames(db)
    BY <1>2, <2>1 DEF Resolved
  <2> QED
    BY <2>2 DEF ToSet
<1>9. RidingTime(bus) = Metres(Legs(db, bus), i, j)
  <2>1. PICK legs : legs = Legs(db, bus)
    OBVIOUS
  <2>2. legs[j] = GetDistance(db, bus.route[j - 1], bus.route[j])
    BY <1>5, <2>1 DEF Legs
  <2>3. i \in Nat /\ j - 1 \in Nat /\ i <= j - 1 /\ (j - 1) + 1 = j
    BY <1>2
  <2>4. Metres(legs, i, (j - 1) + 1) = Metres(legs, i, j - 1) + legs[(j - 1) + 1]
    BY <2>3, MetresStep
  <2> QED
    BY <1>1, <1>2, <2>1, <2>2, <2>3, <2>4 DEF RidingTime
<1> QED
  BY <1>1, <1>2, <1>3, <1>5, <1>6, <1>7, <1>8, <1>9

\* The edge added is printed as the ride it is.
LEMMA PrintedNext ==
    ASSUME GraphInv, OfferInv, AddEdge
    PROVE  Printed' = Append(Printed, Offer(db, Head(buses), from_at, to_at))
<1>1. PICK b, bus, i, j, k :
        /\ b = Head(buses) /\ bus = CurrentBus /\ i = from_at /\ j = to_at /\ k = Len(edges) + 1
  OBVIOUS
<1>2. /\ db \in Catalogue /\ b \in BusNames(db) /\ bus = BusOf(db, b)
      /\ i \in DOMAIN bus.route /\ j \in DOMAIN bus.route
      /\ i \in Nat \ {0} /\ j \in Nat /\ i < j
      /\ \A n \in DOMAIN bus.route : bus.route[n] \in StopNames(db)
      /\ RidingTime(bus) = Metres(Legs(db, bus), i, j)
  BY <1>1, RideIsOffered
<1>3. /\ edges \in Seq(Ride) /\ Len(db.edges_to_buses) = Len(edges) /\ span_count = j - i - 1
  BY <1>1 DEF GraphInv, RideTypeOK, RideInv, EdgesAligned, AddEdge
<1>4. b \in BusName /\ db' = SetBusForEdge(db, b)
  BY <1>1, <1>2, CatalogueFields DEF AddEdge
<1>5. /\ \A v : GetStopForVertex(db', v) = GetStopForVertex(db, v)
      /\ db'.edges_to_buses = Append(db.edges_to_buses, b)
  BY <1>2, <1>4, SameOffers, BusOfEdgeSet
<1>6. PICK new : new = [from |-> GetVertexForStop(db, bus.route[i]),
                        to |-> GetVertexForStop(db, bus.route[j]),
                        weight |-> RidingTime(bus) + NormalVelocity * BusWaitTime,
                        span_count |-> span_count + 1]
  OBVIOUS
<1>7. edges' = Append(edges, new)
  BY <1>1, <1>2, <1>6 DEF AddEdge
<1>8. /\ DOMAIN edges' = 1 .. k /\ DOMAIN edges = 1 .. k - 1 /\ k \in Nat \ {0}
      /\ \A n \in 1 .. k - 1 : edges'[n] = edges[n]
      /\ edges'[k] = new
  <2>1. GraphInv'
    BY EdgeAdded
  <2>2. edges' \in Seq(Ride)
    BY <2>1 DEF GraphInv, RideTypeOK
  <2>3. PICK e, f, l : e = edges /\ f = edges' /\ l = Len(e)
    OBVIOUS
  <2>4. e \in Seq(Ride) /\ f \in Seq(Ride) /\ f = Append(e, new) /\ k = l + 1 /\ l \in Nat
    BY <1>1, <1>3, <1>7, <2>2, <2>3
  <2>5. /\ Len(f) = l + 1 /\ DOMAIN f = 1 .. Len(f) /\ DOMAIN e = 1 .. l
        /\ \A n \in 1 .. l : f[n] = e[n]
        /\ f[l + 1] = new
    BY <2>3, <2>4
  <2>6. k - 1 = l /\ k \in Nat \ {0}
    BY <2>4
  <2> QED
    BY <2>3, <2>4, <2>5, <2>6
<1>9. /\ \A n \in 1 .. k - 1 : GetBusByEdge(db', n - 1) = GetBusByEdge(db, n - 1)
      /\ GetBusByEdge(db', k - 1) = b
  <2>1. db.edges_to_buses \in Seq(BusName) /\ Len(db.edges_to_buses) = k - 1
    BY <1>1, <1>2, <1>3, <1>8, CatalogueFields
  <2>2. /\ \A n \in 1 .. k - 1 : db'.edges_to_buses[n] = db.edges_to_buses[n]
        /\ db'.edges_to_buses[k - 1 + 1] = b
    BY <1>4, <1>5, <2>1, Appended
  <2>3. \A n \in 1 .. k : (n - 1) + 1 = n
    BY <1>8
  <2>4. k \in 1 .. k /\ \A n \in 1 .. k - 1 : n \in 1 .. k
    BY <1>8
  <2> QED
    BY <2>2, <2>3, <2>4 DEF GetBusByEdge
<1> DEFINE printed(d, es, n) ==
             [bus |-> GetBusByEdge(d, n - 1),
              from |-> GetStopForVertex(d, es[n].from), to |-> GetStopForVertex(d, es[n].to),
              weight |-> es[n].weight, span_count |-> es[n].span_count]
<1>10. /\ Printed = [n \in 1 .. k - 1 |-> printed(db, edges, n)]
       /\ Printed' = [n \in 1 .. k |-> printed(db', edges', n)]
  BY <1>8 DEF Printed
<1>11. \A n \in 1 .. k - 1 : printed(db', edges', n) = printed(db, edges, n)
  BY <1>5, <1>8, <1>9
<1>12. printed(db', edges', k) = Offer(db, b, i, j)
  <2>1. /\ GetStopForVertex(db', edges'[k].from) = bus.route[i]
        /\ GetStopForVertex(db', edges'[k].to) = bus.route[j]
    BY <1>2, <1>5, <1>6, <1>8, StopOfVertex
  <2>2. edges'[k].weight = Metres(Legs(db, bus), i, j) + WaitingTime
    BY <1>2, <1>6, <1>8 DEF WaitingTime
  <2>3. edges'[k].span_count = j - i
    <3>1. span_count + 1 = j - i
      BY <1>2, <1>3
    <3> QED
      BY <1>6, <1>8, <3>1
  <2> QED
    BY <1>2, <1>9, <2>1, <2>2, <2>3 DEF Offer
<1> HIDE DEF printed
<1>13. PICK f, g, x, W : /\ f = Printed /\ g = Printed' /\ x = Offer(db, b, i, j)
                         /\ W = {f[n] : n \in 1 .. k - 1} \cup {x}
  OBVIOUS
<1>14. f \in Seq(W) /\ Len(f) = k - 1 /\ x \in W
  <2>1. f \in [1 .. k - 1 -> W] /\ k - 1 \in Nat
    <3>1. DOMAIN f = 1 .. k - 1 /\ f = [n \in 1 .. k - 1 |-> f[n]]
      BY <1>10, <1>13
    <3> QED
      BY <1>8, <1>13, <3>1
  <2> QED
    BY <1>13, <2>1, FunctionSeq
<1>15. \A n \in 1 .. k : n \in 1 .. k - 1 \/ n = k
  BY <1>8
<1>16. /\ \A n \in 1 .. k - 1 : g[n] = f[n]
       /\ g[k] = x
  <2>1. k \in 1 .. k /\ \A n \in 1 .. k - 1 : n \in 1 .. k
    BY <1>8
  <2> QED
    BY <1>10, <1>11, <1>12, <1>13, <2>1
<1>17. g \in Seq(W) /\ Len(g) = k
  <2>1. g = [n \in 1 .. k |-> g[n]]
    BY <1>10, <1>13
  <2>2. \A n \in 1 .. k : g[n] \in W
    BY <1>13, <1>15, <1>16
  <2>3. g \in [1 .. k -> W]
    BY <2>1, <2>2
  <2> QED
    BY <1>8, <2>3, FunctionSeq
<1>18. g = Append(f, x)
  <2>1. PICK h : h = Append(f, x)
    OBVIOUS
  <2>2. h \in Seq(W) /\ Len(h) = k /\ (\A n \in 1 .. k - 1 : h[n] = f[n]) /\ h[k] = x
    <3>1. k - 1 + 1 = k
      BY <1>8
    <3> QED
      BY <1>14, <2>1, <3>1, Appended
  <2>3. \A n \in 1 .. k : g[n] = h[n]
    BY <1>15, <1>16, <2>2
  <2> QED
    BY <1>17, <2>1, <2>2, <2>3, SeqEqual
<1> QED
  BY <1>1, <1>13, <1>18

\* A ride is offered.
LEMMA OfferAdded ==
    ASSUME GraphInv, OfferInv, AddEdge
    PROVE  OfferInv'
<1>1. PICK b, bus, i, j :
        /\ b = Head(buses) /\ bus = CurrentBus /\ i = from_at /\ j = to_at
  OBVIOUS
<1>2. /\ db \in Catalogue /\ b \in BusNames(db) /\ bus = BusOf(db, b)
      /\ i \in DOMAIN bus.route /\ j \in DOMAIN bus.route
      /\ i \in Nat \ {0} /\ j \in Nat /\ i < j
      /\ j <= Furthest(bus, i)
      /\ LeaveAtTurn(bus) => j = Furthest(bus, i)
      /\ RidingTime(bus) = Metres(Legs(db, bus), i, j)
  BY <1>1, RideIsOffered
<1>3. /\ b \in BusName /\ db' = SetBusForEdge(db, b) /\ buses' = buses /\ buses # <<>>
      /\ AtPlace(db, buses, i, j) /\ Resolved(db)
  BY <1>1, <1>2, CatalogueFields DEF AddEdge, OfferInv
<1>4. /\ \A bs, x, y : OfferedSoFar(db', bs, x, y) = OfferedSoFar(db, bs, x, y)
      /\ \A bs, x, y : AtPlace(db, bs, x, y) => AtPlace(db', bs, x, y)
      /\ \A c : BusOf(db', c) = BusOf(db, c)
      /\ \A c : Legs(db', c) = Legs(db, c)
      /\ Resolved(db')
  BY <1>2, <1>3, SameOffers
<1>5. CurrentBus' = bus
  BY <1>1, <1>2, <1>3, <1>4 DEF CurrentBus
<1>6. /\ Len(bus.route) \in Nat /\ i \in 1 .. Len(bus.route) /\ Furthest(bus, i) \in Nat
  <2>1. /\ Len(bus.route) \in Nat /\ DOMAIN bus.route = 1 .. Len(bus.route)
        /\ \A n \in 1 .. Len(bus.route) : Furthest(bus, n) \in Nat
    BY <1>2, BusRoute
  <2> QED
    BY <1>2, <2>1
<1>7. AtPlace(db, buses, i, j + 1)
  <2>1. j + 1 \in Nat /\ i < j + 1 /\ j + 1 <= Furthest(bus, i) + 1 /\ i <= Len(bus.route)
    BY <1>2, <1>6
  <2> QED
    BY <1>1, <1>2, <1>3, <2>1 DEF AtPlace
<1>8. Printed' = OfferedSoFar(db, buses, i, j + 1)
  <2>1. Printed = OfferedSoFar(db, buses, i, j)
    BY <1>1 DEF OfferInv
  <2>2. OfferedSoFar(db, buses, i, j + 1) = Append(OfferedSoFar(db, buses, i, j), Offer(db, b, i, j))
    BY <1>1, <1>2, <1>3, OfferedNext
  <2> QED
    BY <1>1, <2>1, <2>2, PrintedNext
<1>9. CASE LeaveAtTurn(bus)
  <2>1. from_at' = i + 1 /\ to_at' = (i + 1) + 1 /\ weight' = 0 /\ (i + 1) + 1 = i + 2
    BY <1>1, <1>2, <1>9 DEF AddEdge, StartRides
  <2>2. j + 1 = Furthest(bus, i) + 1 /\ i <= Len(bus.route)
    BY <1>2, <1>6, <1>9
  <2>3. /\ AtPlace(db, buses, i + 1, i + 2)
        /\ OfferedSoFar(db, buses, i + 1, i + 2) = OfferedSoFar(db, buses, i, j + 1)
    <3>1. PICK l : l = j + 1
      OBVIOUS
    <3>2. /\ AtPlace(db, buses, i, l) /\ buses # <<>>
          /\ i <= Len(BusOf(db, Head(buses)).route)
          /\ l = Furthest(BusOf(db, Head(buses)), i) + 1
      BY <1>1, <1>2, <1>3, <1>7, <2>2, <3>1
    <3>3. /\ AtPlace(db, buses, i + 1, i + 2)
          /\ OfferedSoFar(db, buses, i + 1, i + 2) = OfferedSoFar(db, buses, i, l)
      BY <1>2, <3>2, OfferedRow
    <3> QED
      BY <3>1, <3>3
  <2>4. weight' = Metres(Legs(db', bus), from_at', to_at' - 1)
    <3>1. i + 1 \in Nat /\ to_at' - 1 = i + 1
      BY <1>2, <2>1
    <3> QED
      BY <2>1, <3>1, MetresStep
  <2>5. /\ AtPlace(db', buses', from_at', to_at')
        /\ Printed' = OfferedSoFar(db', buses', from_at', to_at')
    BY <1>3, <1>4, <1>8, <2>1, <2>3
  <2> QED
    BY <1>4, <1>5, <2>4, <2>5 DEF OfferInv
<1>10. CASE ~LeaveAtTurn(bus)
  <2>1. from_at' = i /\ to_at' = j + 1 /\ weight' = RidingTime(bus)
    BY <1>1, <1>10 DEF AddEdge
  <2>2. weight' = Metres(Legs(db', bus), from_at', to_at' - 1)
    <3>1. to_at' - 1 = j
      BY <1>2, <2>1
    <3> QED
      BY <1>2, <1>4, <2>1, <3>1
  <2>3. /\ AtPlace(db', buses', from_at', to_at')
        /\ Printed' = OfferedSoFar(db', buses', from_at', to_at')
    BY <1>3, <1>4, <1>7, <1>8, <2>1
  <2> QED
    BY <1>4, <1>5, <2>2, <2>3 DEF OfferInv
<1> QED
  BY <1>9, <1>10

\* The rides from one position, or those of one bus, have been offered.
LEMMA OfferRowEnded ==
    ASSUME GraphInv, OfferInv, EndOfRoute \/ NextBus
    PROVE  OfferInv'
<1>1. PICK b, bus, i, j :
        /\ b = Head(buses) /\ bus = CurrentBus /\ i = from_at /\ j = to_at
  OBVIOUS
<1>2. /\ db \in Catalogue /\ UNCHANGED <<db, edges>> /\ bus = BusOf(db, b)
      /\ buses # <<>> /\ AtPlace(db, buses, i, j) /\ Resolved(db)
      /\ Printed = OfferedSoFar(db, buses, i, j)
      /\ buses \in Seq(BusNames(db)) /\ i \in Nat \ {0} /\ j \in Nat
  BY <1>1 DEF GraphInv, RideTypeOK, OfferInv, EndOfRoute, NextBus, CurrentBus
<1>3. b \in BusNames(db)
  BY <1>1, <1>2, CurrentBusType
<1>4. Printed' = Printed
  BY <1>2 DEF Printed
<1>5. ASSUME NEW at \in Nat, StartRides(at), buses' # <<>>
      PROVE  weight' = Metres(Legs(db, CurrentBus), from_at, to_at - 1)'
  <2>1. weight' = 0 /\ from_at' = at /\ to_at' = at + 1 /\ to_at' - 1 = at
    BY <1>5 DEF StartRides
  <2>2. \A l : Metres(l, at, at) = 0
    BY <1>5, MetresStep
  <2> QED
    BY <2>1, <2>2
<1>6. CASE EndOfRoute
  <2>1. /\ from_at' = i + 1 /\ to_at' = (i + 1) + 1 /\ (i + 1) + 1 = i + 2 /\ buses' = buses
        /\ StartRides(i + 1) /\ i + 1 \in Nat
        /\ i <= Len(bus.route) /\ j > Len(bus.route)
    BY <1>1, <1>2, <1>6 DEF EndOfRoute, StartRides
  <2>2. j = Furthest(bus, i) + 1
    <3>1. /\ Len(bus.route) \in Nat
          /\ \A n \in 1 .. Len(bus.route) :
               Furthest(bus, n) \in Nat /\ Furthest(bus, n) <= Len(bus.route)
      BY <1>2, <1>3, BusRoute
    <3>2. i \in 1 .. Len(bus.route)
      BY <1>2, <2>1, <3>1
    <3>3. j <= Furthest(bus, i) + 1
      BY <1>1, <1>2, <2>1 DEF AtPlace
    <3> QED
      BY <1>2, <2>1, <3>1, <3>2, <3>3
  <2>3. /\ AtPlace(db, buses, i + 1, i + 2)
        /\ OfferedSoFar(db, buses, i + 1, i + 2) = OfferedSoFar(db, buses, i, j)
    BY <1>1, <1>2, <2>1, <2>2, OfferedRow
  <2>4. /\ AtPlace(db', buses', from_at', to_at')
        /\ Printed' = OfferedSoFar(db', buses', from_at', to_at')
    BY <1>2, <1>4, <2>1, <2>3
  <2> QED
    BY <1>2, <1>5, <2>1, <2>4 DEF OfferInv
<1>7. CASE NextBus
  <2>1. /\ from_at' = 1 /\ to_at' = 2 /\ buses' = Tail(buses)
        /\ StartRides(1) /\ i > Len(bus.route)
    BY <1>1, <1>2, <1>7 DEF NextBus, StartRides
  <2>2. /\ AtPlace(db, Tail(buses), 1, 2)
        /\ OfferedSoFar(db, Tail(buses), 1, 2) = OfferedSoFar(db, buses, i, j)
    BY <1>1, <1>2, <2>1, OfferedBus
  <2>3. /\ AtPlace(db', buses', from_at', to_at')
        /\ Printed' = OfferedSoFar(db', buses', from_at', to_at')
    BY <1>2, <1>4, <2>1, <2>2
  <2> QED
    BY <1>2, <1>5, <2>1, <2>3 DEF OfferInv
<1> QED
  BY <1>6, <1>7

\* Every step of the constructor keeps what it keeps of the offers.
LEMMA OfferInvNext == GraphInv /\ OfferInv /\ [Next]_vars => OfferInv'
<1> SUFFICES ASSUME GraphInv, OfferInv, [Next]_vars PROVE OfferInv'
  OBVIOUS
<1>1. CASE AddEdge
  BY <1>1, OfferAdded
<1>2. CASE EndOfRoute \/ NextBus
  BY <1>2, OfferRowEnded
<1>3. CASE UNCHANGED vars
  <2>1. UNCHANGED <<db, edges, buses, from_at, to_at, weight, span_count>>
    BY <1>3 DEF vars, ride
  <2> QED
    BY <2>1 DEF OfferInv, Printed, CurrentBus
<1> QED
  BY <1>1, <1>2, <1>3 DEF Next

-----------------------------------------------------------------------------
(* All rides that are offered *)

\* The elements of two sequences one after the other.
LEMMA BothElements ==
    ASSUME NEW W, NEW s \in Seq(W), NEW t \in Seq(W)
    PROVE  ToSet(s \o t) = ToSet(s) \cup ToSet(t)
<1>1. PICK u, m, n : u = s \o t /\ m = Len(s) /\ n = Len(t)
  OBVIOUS
<1>2. /\ m \in Nat /\ n \in Nat /\ DOMAIN s = 1 .. m /\ DOMAIN t = 1 .. n
      /\ DOMAIN u = 1 .. m + n
      /\ \A i \in 1 .. m + n : u[i] = IF i <= m THEN s[i] ELSE t[i - m]
  <2>1. u \in Seq(W) /\ Len(u) = m + n
    BY <1>1
  <2> QED
    BY <1>1, <2>1
<1>3. \A x \in ToSet(u) : x \in ToSet(s) \cup ToSet(t)
  <2> SUFFICES ASSUME NEW i \in 1 .. m + n PROVE u[i] \in ToSet(s) \cup ToSet(t)
    BY <1>2 DEF ToSet
  <2>1. CASE i <= m
    <3>1. i \in 1 .. m /\ u[i] = s[i]
      BY <1>2, <2>1
    <3> QED
      BY <1>2, <3>1 DEF ToSet
  <2>2. CASE ~(i <= m)
    <3>1. i - m \in 1 .. n /\ u[i] = t[i - m]
      BY <1>2, <2>2
    <3> QED
      BY <1>2, <3>1 DEF ToSet
  <2> QED
    BY <2>1, <2>2
<1>4. \A x \in ToSet(s) : x \in ToSet(u)
  <2> SUFFICES ASSUME NEW i \in 1 .. m PROVE s[i] \in ToSet(u)
    BY <1>2 DEF ToSet
  <2>1. i \in 1 .. m + n /\ u[i] = s[i]
    BY <1>2
  <2> QED
    BY <1>2, <2>1 DEF ToSet
<1>5. \A x \in ToSet(t) : x \in ToSet(u)
  <2> SUFFICES ASSUME NEW i \in 1 .. n PROVE t[i] \in ToSet(u)
    BY <1>2 DEF ToSet
  <2>1. m + i \in 1 .. m + n /\ ~(m + i <= m) /\ (m + i) - m = i
    BY <1>2
  <2>2. u[m + i] = t[i]
    BY <1>2, <2>1
  <2> QED
    BY <1>2, <2>1, <2>2 DEF ToSet
<1> QED
  BY <1>1, <1>3, <1>4, <1>5

\* The elements of a sequence of sequences, flattened, are those of each.
LEMMA FlattenedElements ==
    ASSUME NEW W, NEW s \in Seq(Seq(W))
    PROVE  \A x : x \in ToSet(FlattenSeq(s)) <=> \E n \in 1 .. Len(s) : x \in ToSet(s[n])
<1> DEFINE flat(k) == FlattenSeq([i \in 1 .. k |-> s[i]])
           T == {k \in Nat : k <= Len(s) =>
                   \A x : x \in ToSet(flat(k)) <=> \E n \in 1 .. k : x \in ToSet(s[n])}
<1>1. Len(s) \in Nat /\ \A i \in 1 .. Len(s) : s[i] \in Seq(W)
  OBVIOUS
<1>2. 0 \in T
  <2>1. [i \in 1 .. 0 |-> s[i]] = <<>>
    OBVIOUS
  <2>2. flat(0) = <<>>
    BY <2>1 DEF FlattenSeq
  <2>3. ToSet(<<>>) = {}
    BY DEF ToSet
  <2> QED
    BY <2>2, <2>3
<1>3. \A k \in T : k + 1 \in T
  <2> SUFFICES ASSUME NEW k \in T PROVE k + 1 \in T
    OBVIOUS
  <2>1. k \in Nat /\ k + 1 \in Nat
    OBVIOUS
  <2>2. ASSUME k + 1 <= Len(s), NEW x
        PROVE  x \in ToSet(flat(k + 1)) <=> \E n \in 1 .. k + 1 : x \in ToSet(s[n])
    <3>1. k < Len(s) /\ k <= Len(s)
      BY <1>1, <2>1, <2>2
    <3>2. x \in ToSet(flat(k)) <=> \E n \in 1 .. k : x \in ToSet(s[n])
      BY <3>1
    <3>3. flat(k) \in Seq(W) /\ flat(k + 1) = flat(k) \o s[k + 1]
      BY <2>1, <3>1, FlattenedNext
    <3>4. s[k + 1] \in Seq(W)
      BY <1>1, <2>1, <2>2
    <3> HIDE DEF flat, T
    <3>5. ToSet(flat(k + 1)) = ToSet(flat(k)) \cup ToSet(s[k + 1])
      BY <3>3, <3>4, BothElements
    <3>6. \A n : n \in 1 .. k + 1 <=> n \in 1 .. k \/ n = k + 1
      BY <2>1
    <3> QED
      BY <3>2, <3>5, <3>6, Zenon
  <2> HIDE DEF flat
  <2> QED
    BY <2>1, <2>2
<1>4. T = Nat
  <2>1. T \in SUBSET Nat
    OBVIOUS
  <2> HIDE DEF T
  <2> QED
    BY <1>2, <1>3, <2>1, Induction
<1>5. flat(Len(s)) = FlattenSeq(s)
  <2>1. s = [i \in 1 .. Len(s) |-> s[i]]
    OBVIOUS
  <2> QED
    BY <2>1
<1>6. \A x : x \in ToSet(flat(Len(s))) <=> \E n \in 1 .. Len(s) : x \in ToSet(s[n])
  <2>1. Len(s) \in T
    BY <1>1, <1>4
  <2> HIDE DEF flat
  <2> QED
    BY <1>1, <2>1
<1> QED
  BY <1>5, <1>6, Zenon

\* The rides that a catalogue offers: those of any bus from any position of
\* its route to a later one, not past the turn.
Rideable(d, b, i, j) ==
    /\ b \in BusNames(d) /\ i \in DOMAIN BusOf(d, b).route
    /\ j \in i + 1 .. Furthest(BusOf(d, b), i)

LEMMA OfferedRides ==
    ASSUME NEW d \in Catalogue
    PROVE  /\ Offers(d) \in Seq(Rides(d))
           /\ \A x : x \in ToSet(Offers(d)) <=>
                       \E b, i, j : Rideable(d, b, i, j) /\ x = Offer(d, b, i, j)
<1>1. PICK all : all = GetAllBuses(d)
  OBVIOUS
<1>2. all \in Seq(BusNames(d)) /\ DOMAIN all = 1 .. Len(all) /\ ToSet(all) = BusNames(d)
  BY <1>1, NamesAreFinite, AscendingOrder DEF GetAllBuses
<1>3. ASSUME NEW b \in BusNames(d), NEW i \in DOMAIN BusOf(d, b).route, NEW x
      PROVE  x \in ToSet(OffersFrom(d, b, i)) <=>
               \E j \in i + 1 .. Furthest(BusOf(d, b), i) : x = Offer(d, b, i, j)
  <2>1. PICK far : far = Furthest(BusOf(d, b), i)
    OBVIOUS
  <2>2. far \in Nat /\ i \in Nat
    BY <2>1, BusRoute
  <2>3. OffersFrom(d, b, i) = [n \in 1 .. far - i |-> Offer(d, b, i, i + n)]
    BY <2>1 DEF OffersFrom
  <2>4. x \in ToSet(OffersFrom(d, b, i)) <=> \E n \in 1 .. far - i : x = Offer(d, b, i, i + n)
    BY <2>3 DEF ToSet
  <2>5. ASSUME NEW n \in 1 .. far - i PROVE i + n \in i + 1 .. far
    BY <2>2
  <2>6. ASSUME NEW j \in i + 1 .. far PROVE j - i \in 1 .. far - i /\ i + (j - i) = j
    BY <2>2
  <2> QED
    BY <2>1, <2>4, <2>5, <2>6, Zenon
<1>4. ASSUME NEW b \in BusNames(d), NEW x
      PROVE  x \in ToSet(OffersOf(d, b)) <=> \E i, j : Rideable(d, b, i, j) /\ x = Offer(d, b, i, j)
  <2>1. PICK n, rows : n = Len(BusOf(d, b).route) /\ rows = [i \in 1 .. n |-> OffersFrom(d, b, i)]
    OBVIOUS
  <2>2. n \in Nat /\ DOMAIN BusOf(d, b).route = 1 .. n
    BY <2>1, BusRoute
  <2>3. rows \in [1 .. n -> Seq(Rides(d))]
    <3>1. \A i \in 1 .. n : OffersFrom(d, b, i) \in Seq(Rides(d))
      BY <2>2, OffersFromType
    <3> QED
      BY <2>1, <3>1
  <2>4. rows \in Seq(Seq(Rides(d))) /\ Len(rows) = n
    BY <2>2, <2>3, FunctionSeq
  <2>5. OffersOf(d, b) = FlattenSeq(rows)
    BY <2>1, <2>2 DEF OffersOf
  <2>6. \A i \in 1 .. n : rows[i] = OffersFrom(d, b, i)
    BY <2>1
  <2>7. x \in ToSet(OffersOf(d, b)) <=> \E i \in 1 .. n : x \in ToSet(rows[i])
    BY <2>4, <2>5, FlattenedElements
  <2>8. x \in ToSet(OffersOf(d, b)) <=>
          \E i \in 1 .. n : \E j \in i + 1 .. Furthest(BusOf(d, b), i) : x = Offer(d, b, i, j)
    BY <1>3, <2>2, <2>6, <2>7
  <2> QED
    BY <2>2, <2>8 DEF Rideable
<1>5. PICK rows : rows = [n \in 1 .. Len(all) |-> OffersOf(d, all[n])]
  OBVIOUS
<1>6. \A n \in 1 .. Len(all) : rows[n] = OffersOf(d, all[n]) /\ all[n] \in BusNames(d)
  BY <1>2, <1>5
<1>7. rows \in Seq(Seq(Rides(d))) /\ Len(rows) = Len(all)
  <2>1. rows \in [1 .. Len(all) -> Seq(Rides(d))] /\ Len(all) \in Nat
    BY <1>2, <1>5, <1>6, OffersOfRows
  <2> QED
    BY <2>1, FunctionSeq
<1>8. Offers(d) = FlattenSeq(rows)
  BY <1>1, <1>2, <1>5 DEF Offers
<1>9. ASSUME NEW x
      PROVE  x \in ToSet(Offers(d)) <=> \E b, i, j : Rideable(d, b, i, j) /\ x = Offer(d, b, i, j)
  <2>1. x \in ToSet(Offers(d)) <=> \E n \in 1 .. Len(all) : x \in ToSet(rows[n])
    BY <1>7, <1>8, FlattenedElements
  <2>2. \A b \in BusNames(d) : \E n \in 1 .. Len(all) : all[n] = b
    BY <1>2 DEF ToSet
  <2>3. \A b, i, j : Rideable(d, b, i, j) => b \in BusNames(d)
    BY DEF Rideable
  <2>4. x \in ToSet(Offers(d)) <=> \E b \in BusNames(d) : x \in ToSet(OffersOf(d, b))
    BY <1>6, <2>1, <2>2, Zenon
  <2>5. ASSUME x \in ToSet(Offers(d))
        PROVE  \E b, i, j : Rideable(d, b, i, j) /\ x = Offer(d, b, i, j)
    <3>1. PICK b \in BusNames(d) : x \in ToSet(OffersOf(d, b))
      BY <2>4, <2>5
    <3> QED
      BY <1>4, <3>1
  <2>6. ASSUME NEW b, NEW i, NEW j, Rideable(d, b, i, j), x = Offer(d, b, i, j)
        PROVE  x \in ToSet(Offers(d))
    <3>1. b \in BusNames(d)
      BY <2>3, <2>6
    <3>2. x \in ToSet(OffersOf(d, b))
      BY <1>4, <2>6, <3>1
    <3> QED
      BY <2>4, <3>1, <3>2
  <2> QED
    BY <2>5, <2>6
<1>10. Offers(d) \in Seq(Rides(d))
  <2>1. <<>> \in Seq(Rides(d))
    OBVIOUS
  <2> QED
    BY <1>7, <1>8, <2>1, Flattened
<1> QED
  BY <1>9, <1>10

-----------------------------------------------------------------------------
(* The finished graph *)

\* The ride on bus b from position i to position j as an edge.
RideOf(b, i, j) ==
    LET bus == BusOf(db, b) IN
    <<GetVertexForStop(db, bus.route[i]), GetVertexForStop(db, bus.route[j]),
      Metres(Legs(db, bus), i, j) + WaitingTime>>

\* The stops that the buses call at are stored, each with a vertex of its own.
LEMMA StopsOfRoute ==
    ASSUME NEW d \in Catalogue, Resolved(d), NEW b \in BusNames(d),
           NEW i \in DOMAIN BusOf(d, b).route
    PROVE  BusOf(d, b).route[i] \in StopNames(d) /\ BusOf(d, b).route[i] \in StopName
<1>1. PICK n \in DOMAIN d.buses : BusOf(d, b) = d.buses[n]
  BY BusOfName
<1>2. ToSet(d.buses[n].route) \subseteq StopNames(d)
  BY DEF Resolved
<1>3. StopNames(d) \subseteq StopName
  BY CatalogueFields
<1> QED
  BY <1>1, <1>2, <1>3 DEF ToSet

\* The edges of the finished graph are the rides that are offered.
LEMMA GraphOfOffers ==
    ASSUME GraphInv, OfferInv, Done
    PROVE  \A x : x \in RidesOfGraph <=> \E b, i, j : Rideable(db, b, i, j) /\ x = RideOf(b, i, j)
<1>1. /\ db \in Catalogue /\ Resolved(db) /\ edges \in Seq(Ride) /\ EdgesAligned
      /\ AtPlace(db, buses, from_at, to_at) /\ buses = <<>>
      /\ Printed = OfferedSoFar(db, buses, from_at, to_at)
  BY DEF GraphInv, RideTypeOK, OfferInv, Done
<1>2. Printed = Offers(db)
  BY <1>1, OfferedPrefix
<1>3. PICK P : P = Printed
  OBVIOUS
<1>4. /\ DOMAIN P = DOMAIN edges
      /\ \A k \in DOMAIN edges :
           /\ P[k].from = GetStopForVertex(db, edges[k].from)
           /\ P[k].to = GetStopForVertex(db, edges[k].to)
           /\ P[k].weight = edges[k].weight
  BY <1>3 DEF Printed
<1>5. ASSUME NEW k \in DOMAIN edges
      PROVE  /\ edges[k].from = GetVertexForStop(db, P[k].from)
             /\ edges[k].to = GetVertexForStop(db, P[k].to)
  <2>1. PICK b : b = db.edges_to_buses[k] /\ b \in BusNames(db)
    BY <1>1 DEF EdgesAligned
  <2>2. PICK i \in DOMAIN BusOf(db, b).route : \E j : Carries(k, i, j)
    BY <1>1, <2>1 DEF EdgesAligned
  <2>3. PICK j : Carries(k, i, j)
    BY <2>2
  <2>4. /\ j \in DOMAIN BusOf(db, b).route
        /\ edges[k].from = GetVertexForStop(db, BusOf(db, b).route[i])
        /\ edges[k].to = GetVertexForStop(db, BusOf(db, b).route[j])
    BY <2>1, <2>3 DEF Carries
  <2>5. BusOf(db, b).route[i] \in StopNames(db) /\ BusOf(db, b).route[j] \in StopNames(db)
    BY <1>1, <2>1, <2>4, StopsOfRoute
  <2>6. /\ GetStopForVertex(db, edges[k].from) = BusOf(db, b).route[i]
        /\ GetStopForVertex(db, edges[k].to) = BusOf(db, b).route[j]
    BY <1>1, <2>4, <2>5, StopOfVertex
  <2> QED
    BY <1>4, <2>4, <2>6
<1> DEFINE R(o) == <<GetVertexForStop(db, o.from), GetVertexForStop(db, o.to), o.weight>>
<1>6. \A x : x \in RidesOfGraph <=> \E k \in DOMAIN P : x = R(P[k])
  <2>1. \A k \in DOMAIN edges : <<edges[k].from, edges[k].to, edges[k].weight>> = R(P[k])
    BY <1>4, <1>5
  <2> HIDE DEF R
  <2> QED
    BY <1>4, <2>1 DEF RidesOfGraph
<1>7. \A x : x \in RidesOfGraph <=> \E o \in ToSet(Offers(db)) : x = R(o)
  <2> HIDE DEF R
  <2> QED
    BY <1>2, <1>3, <1>6 DEF ToSet
<1>8. ASSUME NEW b, NEW i, NEW j PROVE R(Offer(db, b, i, j)) = RideOf(b, i, j)
  BY DEF Offer, RideOf
<1>9. \A o : o \in ToSet(Offers(db)) <=> \E b, i, j : Rideable(db, b, i, j) /\ o = Offer(db, b, i, j)
  BY <1>1, OfferedRides
<1> HIDE DEF R
<1> SUFFICES ASSUME NEW x
             PROVE  x \in RidesOfGraph <=> \E b, i, j : Rideable(db, b, i, j) /\ x = RideOf(b, i, j)
  OBVIOUS
<1>10. ASSUME x \in RidesOfGraph PROVE \E b, i, j : Rideable(db, b, i, j) /\ x = RideOf(b, i, j)
  <2>1. PICK o \in ToSet(Offers(db)) : x = R(o)
    BY <1>7, <1>10
  <2>2. PICK b, i, j : Rideable(db, b, i, j) /\ o = Offer(db, b, i, j)
    BY <1>9
  <2> QED
    BY <1>8, <2>1, <2>2
<1>11. ASSUME NEW b, NEW i, NEW j, Rideable(db, b, i, j), x = RideOf(b, i, j)
       PROVE  x \in RidesOfGraph
  <2>1. Offer(db, b, i, j) \in ToSet(Offers(db))
    BY <1>9, <1>11
  <2>2. x = R(Offer(db, b, i, j))
    BY <1>8, <1>11
  <2> QED
    BY <1>7, <2>1, <2>2
<1> QED
  BY <1>10, <1>11

-----------------------------------------------------------------------------
(* A passenger's moves *)

\* There is a seat to arrive at position i of bus b in; nobody has to get out
\* there; the three kinds of moves from there.
HasSeat(b, i) == b \in BusNames(db) /\ i \in DOMAIN BusOf(db, b).route
Stays(b, i) == BusOf(db, b).is_roundtrip \/ i # Middle(BusOf(db, b))

BoardMove(b, i) == <<At(BusOf(db, b).route[i]), <<b, i + 1>>, WaitingTime + Leg(b, i)>>
RideMove(b, i) == <<<<b, i>>, <<b, i + 1>>, Leg(b, i)>>
LeaveMove(b, i) == <<<<b, i>>, At(BusOf(db, b).route[i]), 0>>

\* The seats.
LEMMA SeatsAre ==
    /\ \A t : t \in Seats <=> HasSeat(t[1], t[2]) /\ t = <<t[1], t[2]>>
    /\ \A b, i : <<b, i>> \in Seats <=> HasSeat(b, i)
<1>1. ASSUME NEW t
      PROVE  t \in Seats <=> \E b \in BusNames(db) : \E i \in DOMAIN BusOf(db, b).route : t = <<b, i>>
  BY DEF Seats
<1>2. ASSUME NEW t, t \in Seats PROVE HasSeat(t[1], t[2]) /\ t = <<t[1], t[2]>>
  <2>1. PICK b \in BusNames(db) : \E i \in DOMAIN BusOf(db, b).route : t = <<b, i>>
    BY <1>1, <1>2
  <2>2. PICK i \in DOMAIN BusOf(db, b).route : t = <<b, i>>
    BY <2>1
  <2>3. t[1] = b /\ t[2] = i
    BY <2>2
  <2> QED
    BY <2>2, <2>3 DEF HasSeat
<1>3. ASSUME NEW t, HasSeat(t[1], t[2]), t = <<t[1], t[2]>> PROVE t \in Seats
  BY <1>1, <1>3 DEF HasSeat
<1>4. ASSUME NEW b, NEW i PROVE <<b, i>> \in Seats <=> HasSeat(b, i)
  <2>1. PICK t : t = <<b, i>>
    OBVIOUS
  <2>2. t[1] = b /\ t[2] = i
    BY <2>1
  <2> QED
    BY <1>2, <1>3, <2>1, <2>2
<1> QED
  BY <1>2, <1>3, <1>4

\* The moves are of those kinds.
LEMMA MovesAre ==
    ASSUME NEW m
    PROVE  m \in Moves <=>
             \/ \E b, i : HasSeat(b, i) /\ HasSeat(b, i + 1) /\ m = BoardMove(b, i)
             \/ \E b, i : HasSeat(b, i) /\ HasSeat(b, i + 1) /\ Stays(b, i) /\ m = RideMove(b, i)
             \/ \E b, i : HasSeat(b, i) /\ m = LeaveMove(b, i)
<1> DEFINE next(t) == <<t[1], t[2] + 1>>
           board(t) == <<At(BusOf(db, t[1]).route[t[2]]), next(t), WaitingTime + Leg(t[1], t[2])>>
           on(t) == <<t, next(t), Leg(t[1], t[2])>>
           leave(t) == <<t, At(BusOf(db, t[1]).route[t[2]]), 0>>
           stays(t) == BusOf(db, t[1]).is_roundtrip \/ t[2] # Middle(BusOf(db, t[1]))
<1>1. m \in Moves <=>
        \/ \E t \in Seats : next(t) \in Seats /\ m = board(t)
        \/ \E t \in Seats : next(t) \in Seats /\ stays(t) /\ m = on(t)
        \/ \E t \in Seats : m = leave(t)
  BY DEF Moves
<1>2. ASSUME NEW b, NEW i, NEW t, t = <<b, i>>
      PROVE  /\ t[1] = b /\ t[2] = i
             /\ next(t) = <<b, i + 1>>
             /\ board(t) = BoardMove(b, i) /\ on(t) = RideMove(b, i) /\ leave(t) = LeaveMove(b, i)
             /\ stays(t) <=> Stays(b, i)
             /\ t \in Seats <=> HasSeat(b, i)
             /\ next(t) \in Seats <=> HasSeat(b, i + 1)
  <2>1. t[1] = b /\ t[2] = i
    BY <1>2
  <2>2. next(t) = <<b, i + 1>>
    BY <2>1
  <2>3. board(t) = BoardMove(b, i) /\ on(t) = RideMove(b, i) /\ leave(t) = LeaveMove(b, i)
    BY <1>2, <2>1, <2>2 DEF BoardMove, RideMove, LeaveMove
  <2>4. stays(t) <=> Stays(b, i)
    BY <2>1 DEF Stays
  <2> HIDE DEF next, board, on, leave, stays
  <2>5. (t \in Seats <=> HasSeat(b, i)) /\ (next(t) \in Seats <=> HasSeat(b, i + 1))
    BY <1>2, <2>2, SeatsAre
  <2> QED
    BY <2>1, <2>2, <2>3, <2>4, <2>5
<1>3. \A t \in Seats : t = <<t[1], t[2]>>
  BY SeatsAre
<1> HIDE DEF next, board, on, leave, stays
<1>4. ASSUME m \in Moves
      PROVE  \/ \E b, i : HasSeat(b, i) /\ HasSeat(b, i + 1) /\ m = BoardMove(b, i)
             \/ \E b, i : HasSeat(b, i) /\ HasSeat(b, i + 1) /\ Stays(b, i) /\ m = RideMove(b, i)
             \/ \E b, i : HasSeat(b, i) /\ m = LeaveMove(b, i)
  <2>1. PICK t \in Seats : \/ next(t) \in Seats /\ m = board(t)
                           \/ next(t) \in Seats /\ stays(t) /\ m = on(t)
                           \/ m = leave(t)
    BY <1>1, <1>4
  <2>2. PICK b, i : b = t[1] /\ i = t[2]
    OBVIOUS
  <2>3. t = <<b, i>>
    BY <1>3, <2>2
  <2> QED
    BY <1>2, <2>1, <2>3
<1>5. ASSUME NEW b, NEW i, HasSeat(b, i),
             \/ HasSeat(b, i + 1) /\ m = BoardMove(b, i)
             \/ HasSeat(b, i + 1) /\ Stays(b, i) /\ m = RideMove(b, i)
             \/ m = LeaveMove(b, i)
      PROVE  m \in Moves
  <2>1. PICK t : t = <<b, i>>
    OBVIOUS
  <2>2. \/ next(t) \in Seats /\ m = board(t)
        \/ next(t) \in Seats /\ stays(t) /\ m = on(t)
        \/ m = leave(t)
    BY <1>2, <1>5, <2>1
  <2>3. t \in Seats
    BY <1>2, <1>5, <2>1
  <2> QED
    BY <1>1, <2>2, <2>3
<1> QED
  BY <1>4, <1>5

\* What the ride on bus b from position i to position j costs.
Price(b, i, j) == Metres(Legs(db, BusOf(db, b)), i, j) + WaitingTime

\* Where a passenger is on a bus that he has boarded, one stop further on each
\* time: on a ride that the bus offers, until he has to get out.
LEMMA RidesGoOn ==
    ASSUME db \in Catalogue, NEW b \in BusNames(db), NEW i \in DOMAIN BusOf(db, b).route
    PROVE  /\ i \in Nat \ {0}
           /\ HasSeat(b, i + 1) => Rideable(db, b, i, i + 1)
           /\ \A j \in Nat : Rideable(db, b, i, j) /\ HasSeat(b, j + 1) /\ Stays(b, j) =>
                Rideable(db, b, i, j + 1)
           /\ \A j \in Nat : i < j /\ Rideable(db, b, i, j + 1) =>
                Rideable(db, b, i, j) /\ Stays(b, j)
           /\ \A j : Rideable(db, b, i, j) => j \in Nat /\ i < j /\ HasSeat(b, j)
<1>1. PICK bus, n, mid, far : /\ bus = BusOf(db, b) /\ n = Len(bus.route)
                              /\ mid = Middle(bus) /\ far = Furthest(bus, i)
  OBVIOUS
<1>2. /\ n \in Nat /\ DOMAIN bus.route = 1 .. n /\ mid \in Nat
      /\ n > 1 => mid <= n
      /\ far \in Nat /\ i <= far /\ far <= n
  BY <1>1, BusRoute
<1>3. i \in 1 .. n
  BY <1>1, <1>2
<1>4. \/ (bus.is_roundtrip \/ i >= mid) /\ far = n
      \/ ~bus.is_roundtrip /\ i < mid /\ far = mid
  BY <1>1, <1>2, <1>3 DEF Furthest
<1>5. \A j : Rideable(db, b, i, j) <=> j \in i + 1 .. far
  BY <1>1 DEF Rideable
<1>6. \A j : HasSeat(b, j) <=> j \in 1 .. n
  BY <1>1, <1>2 DEF HasSeat
<1>7. \A j : Stays(b, j) <=> bus.is_roundtrip \/ j # mid
  BY <1>1 DEF Stays
<1>8. i + 1 \in 1 .. n => i + 1 \in i + 1 .. far
  BY <1>2, <1>3, <1>4
<1>9. ASSUME NEW j \in Nat, j \in i + 1 .. far, j + 1 \in 1 .. n, bus.is_roundtrip \/ j # mid
      PROVE  j + 1 \in i + 1 .. far
  BY <1>2, <1>3, <1>4, <1>9
<1>10. ASSUME NEW j \in Nat, i < j, j + 1 \in i + 1 .. far
       PROVE  j \in i + 1 .. far /\ (bus.is_roundtrip \/ j # mid)
  BY <1>2, <1>3, <1>4, <1>10
<1>11. ASSUME NEW j \in i + 1 .. far PROVE j \in Nat /\ i < j /\ j \in 1 .. n
  <2>1. i \in Nat /\ i > 0
    BY <1>3
  <2> QED
    BY <1>2, <2>1
<1> QED
  BY <1>3, <1>5, <1>6, <1>7, <1>8, <1>9, <1>10, <1>11

\* The price of a ride is the waiting time and the legs.
LEMMA PriceGoesOn ==
    ASSUME db \in Catalogue, Resolved(db), NEW b \in BusNames(db),
           NEW i \in DOMAIN BusOf(db, b).route
    PROVE  /\ \A j \in Nat : HasSeat(b, j) /\ HasSeat(b, j + 1) => Leg(b, j) \in Int
           /\ HasSeat(b, i + 1) => Price(b, i, i + 1) = WaitingTime + Leg(b, i)
           /\ \A j \in Nat : i < j /\ Rideable(db, b, i, j + 1) =>
                Price(b, i, j + 1) = Price(b, i, j) + Leg(b, j)
           /\ \A j : Rideable(db, b, i, j) => Price(b, i, j) \in Int
<1>1. PICK bus, n, legs : bus = BusOf(db, b) /\ n = Len(bus.route) /\ legs = Legs(db, bus)
  OBVIOUS
<1>2. n \in Nat /\ DOMAIN bus.route = 1 .. n /\ i \in 1 .. n /\ i \in Nat
  BY <1>1, BusRoute
<1>3. /\ \A j \in 1 .. n : HasSeat(b, j)
      /\ \A j : HasSeat(b, j) => j \in 1 .. n
  BY <1>1, <1>2 DEF HasSeat
<1>4. ASSUME NEW j \in Nat, j \in 1 .. n, j + 1 \in 1 .. n
      PROVE  legs[j + 1] = Leg(b, j) /\ Leg(b, j) \in Int
  <2>1. j + 1 \in 2 .. n /\ (j + 1) - 1 = j
    BY <1>2, <1>4
  <2>2. legs[j + 1] = GetDistance(db, bus.route[(j + 1) - 1], bus.route[j + 1])
    BY <1>1, <2>1 DEF Legs
  <2>3. bus.route[j] \in StopName /\ bus.route[j + 1] \in StopName
    BY <1>1, <1>2, <1>4, StopsOfRoute
  <2> QED
    BY <1>1, <2>1, <2>2, <2>3, DistanceIsInt DEF Leg
<1>5. \A j : Price(b, i, j) = Metres(legs, i, j) + WaitingTime
  BY <1>1 DEF Price
<1>6. \A j \in Nat : i <= j => /\ Metres(legs, i, i) = 0
                               /\ Metres(legs, i, j + 1) = Metres(legs, i, j) + legs[j + 1]
  BY <1>2, MetresStep
<1>7. Metres(legs, i, i) = 0
  BY <1>2, <1>6
<1> DEFINE T == {m \in Nat : i + m <= n => Metres(legs, i, i + m) \in Int}
<1>8. T = Nat
  <2>1. 0 \in T
    BY <1>2, <1>7
  <2>2. \A m \in T : m + 1 \in T
    <3> SUFFICES ASSUME NEW m \in T PROVE m + 1 \in T
      OBVIOUS
    <3>1. m \in Nat /\ m + 1 \in Nat
      OBVIOUS
    <3>2. ASSUME i + (m + 1) <= n PROVE Metres(legs, i, i + (m + 1)) \in Int
      <4>1. Metres(legs, i, i + m) \in Int
        BY <1>2, <3>1, <3>2
      <4>2. PICK j \in Nat : j = i + m
        BY <1>2, <3>1
      <4>3. i <= j /\ j \in 1 .. n /\ j + 1 \in 1 .. n /\ i + (m + 1) = j + 1
        BY <1>2, <3>1, <3>2, <4>2
      <4>4. legs[j + 1] \in Int
        BY <1>4, <4>3
      <4>5. Metres(legs, i, j + 1) = Metres(legs, i, j) + legs[j + 1]
        BY <1>6, <4>3
      <4>6. Metres(legs, i, j) \in Int
        BY <4>1, <4>2
      <4>7. Metres(legs, i, j + 1) \in Int
        BY <4>4, <4>5, <4>6
      <4> QED
        BY <4>3, <4>7
    <3> QED
      BY <3>1, <3>2
  <2>3. T \in SUBSET Nat
    OBVIOUS
  <2> HIDE DEF T
  <2> QED
    BY <2>1, <2>2, <2>3, Induction
<1>9. \A j \in Nat : i <= j /\ j <= n => Metres(legs, i, j) \in Int
  <2> SUFFICES ASSUME NEW j \in Nat, i <= j, j <= n PROVE Metres(legs, i, j) \in Int
    OBVIOUS
  <2>1. PICK m \in Nat : j = i + m
    <3>1. j - i \in Nat /\ i + (j - i) = j
      BY <1>2
    <3> QED
      BY <3>1
  <2>2. m \in T
    BY <1>8
  <2> QED
    BY <2>1, <2>2
<1>10. \A j : Rideable(db, b, i, j) => j \in Nat /\ i < j /\ j \in 1 .. n
  BY <1>3, RidesGoOn
<1>11. WaitingTime \in Int
  BY WaitingTimeIsInt
<1>12. ASSUME NEW j, Rideable(db, b, i, j) PROVE Price(b, i, j) \in Int
  <2>1. j \in Nat /\ i <= j /\ j <= n
    BY <1>2, <1>10, <1>12
  <2>2. Metres(legs, i, j) \in Int
    BY <1>9, <2>1
  <2> QED
    BY <1>5, <1>11, <2>2
<1>13. ASSUME HasSeat(b, i + 1) PROVE Price(b, i, i + 1) = WaitingTime + Leg(b, i)
  <2>1. i + 1 \in 1 .. n
    BY <1>3, <1>13
  <2>2. legs[i + 1] = Leg(b, i) /\ Leg(b, i) \in Int
    BY <1>2, <1>4, <2>1
  <2>3. Metres(legs, i, i + 1) = Leg(b, i)
    BY <1>2, <1>6, <1>7, <2>2
  <2> QED
    BY <1>5, <1>11, <2>2, <2>3
<1>14. ASSUME NEW j \in Nat, i < j, Rideable(db, b, i, j + 1)
       PROVE  Price(b, i, j + 1) = Price(b, i, j) + Leg(b, j)
  <2>1. j + 1 \in 1 .. n /\ j \in 1 .. n /\ i <= j /\ j <= n
    BY <1>2, <1>10, <1>14
  <2>2. legs[j + 1] = Leg(b, j) /\ Leg(b, j) \in Int
    BY <1>4, <2>1
  <2>3. Metres(legs, i, j + 1) = Metres(legs, i, j) + Leg(b, j) /\ Metres(legs, i, j) \in Int
    BY <1>6, <1>9, <2>1, <2>2
  <2>4. (Metres(legs, i, j) + Leg(b, j)) + WaitingTime = (Metres(legs, i, j) + WaitingTime) + Leg(b, j)
    BY <1>11, <2>2, <2>3
  <2> QED
    BY <1>5, <2>3, <2>4
<1>15. \A j \in Nat : HasSeat(b, j) /\ HasSeat(b, j + 1) => Leg(b, j) \in Int
  BY <1>3, <1>4
<1> QED
  BY <1>12, <1>13, <1>14, <1>15

-----------------------------------------------------------------------------
(* Cheapest trips *)

\* The cheapest trips by at most k moves, for each k up to n.
IsBest(f, start, moves, n) ==
    f = [k \in 0 .. n |-> IF k = 0 THEN {<<start, 0>>} ELSE Cheapest(Onward(f[k - 1], moves))]

\* What they say of one number of moves.
BestStep(f, start, moves, k) ==
    f[k] = IF k = 0 THEN {<<start, 0>>} ELSE Cheapest(Onward(f[k - 1], moves))

\* They can be found for as many moves as one likes.
LEMMA BestExists ==
    ASSUME NEW start, NEW moves, NEW n \in Nat
    PROVE  \E f : IsBest(f, start, moves, n)
<1> DEFINE T == {k \in Nat : \E f : IsBest(f, start, moves, k)}
<1>1. 0 \in T
  <2> DEFINE f == [k \in 0 .. 0 |-> {<<start, 0>>}]
  <2>1. f = [k \in 0 .. 0 |-> IF k = 0 THEN {<<start, 0>>} ELSE Cheapest(Onward(f[k - 1], moves))]
    OBVIOUS
  <2>2. IsBest(f, start, moves, 0)
    BY <2>1 DEF IsBest
  <2> QED
    BY <2>2
<1>2. \A k \in T : k + 1 \in T
  <2> SUFFICES ASSUME NEW m \in T PROVE \E g : IsBest(g, start, moves, m + 1)
    OBVIOUS
  <2>1. PICK f : IsBest(f, start, moves, m)
    OBVIOUS
  <2> DEFINE g == [k \in 0 .. m + 1 |-> IF k = 0 THEN {<<start, 0>>} ELSE Cheapest(Onward(f[k - 1], moves))]
  <2>2. \A k \in 0 .. m : g[k] = f[k]
    <3>1. \A k \in 0 .. m : k \in 0 .. m + 1
      OBVIOUS
    <3>2. \A k \in 0 .. m : f[k] = IF k = 0 THEN {<<start, 0>>} ELSE Cheapest(Onward(f[k - 1], moves))
      BY <2>1 DEF IsBest
    <3> QED
      BY <3>1, <3>2
  <2>3. \A k \in 0 .. m + 1 : k # 0 => k - 1 \in 0 .. m
    OBVIOUS
  <2>4. g = [k \in 0 .. m + 1 |-> IF k = 0 THEN {<<start, 0>>} ELSE Cheapest(Onward(g[k - 1], moves))]
    BY <2>2, <2>3
  <2>5. IsBest(g, start, moves, m + 1)
    BY <2>4 DEF IsBest
  <2> QED
    BY <2>5
<1> HIDE DEF T
<1>3. T \in SUBSET Nat
  BY DEF T
<1>4. T = Nat
  BY <1>1, <1>2, <1>3, Induction
<1> QED
  BY <1>4 DEF T

\* CheapestFrom is the last of them.
LEMMA BestIsCheapest ==
    ASSUME NEW start, NEW moves, NEW n \in Nat
    PROVE  \E f : /\ \A k \in 0 .. n : BestStep(f, start, moves, k)
                  /\ CheapestFrom(start, moves, n) = f[n]
<1> DEFINE F == CHOOSE f : IsBest(f, start, moves, n)
<1>1. IsBest(F, start, moves, n)
  BY BestExists
<1>2. CheapestFrom(start, moves, n) = F[n]
  BY DEF CheapestFrom, IsBest
<1> HIDE DEF F
<1>3. ASSUME NEW k \in 0 .. n PROVE BestStep(F, start, moves, k)
  <2>1. PICK h : h = [j \in 0 .. n |-> IF j = 0 THEN {<<start, 0>>} ELSE Cheapest(Onward(F[j - 1], moves))]
    OBVIOUS
  <2>2. h[k] = IF k = 0 THEN {<<start, 0>>} ELSE Cheapest(Onward(F[k - 1], moves))
    BY <2>1
  <2>3. F = h
    BY <1>1, <2>1, Zenon DEF IsBest
  <2> QED
    BY <2>2, <2>3 DEF BestStep
<1> QED
  BY <1>2, <1>3

\* A trip that went on.
LEMMA OnwardTrips ==
    ASSUME NEW trips, NEW moves, NEW t
    PROVE  t \in Onward(trips, moves) <=>
             \/ t \in trips
             \/ \E p \in trips : \E m \in moves : m[1] = p[1] /\ t = <<m[2], p[2] + m[3]>>
  BY DEF Onward

\* Moves between finitely many places.
IsNetwork(places, start, moves) ==
    /\ IsFiniteSet(places) /\ start \in places
    /\ \A m \in moves : m[1] \in places /\ m[2] \in places /\ m[3] \in Int

\* The trips from start: the least set that has the empty trip and goes on by
\* every move.
ClosedUnder(S, start, moves) ==
    /\ <<start, 0>> \in S
    /\ \A p \in S : \A m \in moves : m[1] = p[1] => <<m[2], p[2] + m[3]>> \in S

Trips(places, start, moves) ==
    {t \in places \X Int :
       \A S \in SUBSET (places \X Int) : ClosedUnder(S, start, moves) => t \in S}

\* The trips are such a set.
LEMMA TripsClosed ==
    ASSUME NEW places, NEW start, NEW moves, IsNetwork(places, start, moves)
    PROVE  /\ ClosedUnder(Trips(places, start, moves), start, moves)
           /\ Trips(places, start, moves) \in SUBSET (places \X Int)
<1>1. PICK T : T = Trips(places, start, moves)
  OBVIOUS
<1>2. /\ \A t : t \in T <=> /\ t \in places \X Int
                            /\ \A S \in SUBSET (places \X Int) : ClosedUnder(S, start, moves) => t \in S
  BY <1>1 DEF Trips
<1>3. <<start, 0>> \in T
  <2>1. <<start, 0>> \in places \X Int
    BY DEF IsNetwork
  <2>2. \A S \in SUBSET (places \X Int) : ClosedUnder(S, start, moves) => <<start, 0>> \in S
    BY DEF ClosedUnder
  <2> QED
    BY <1>2, <2>1, <2>2
<1>4. ASSUME NEW p \in T, NEW m \in moves, m[1] = p[1] PROVE <<m[2], p[2] + m[3]>> \in T
  <2>1. p \in places \X Int /\ m[2] \in places /\ m[3] \in Int
    BY <1>2 DEF IsNetwork
  <2>2. <<m[2], p[2] + m[3]>> \in places \X Int
    BY <2>1
  <2>3. \A S \in SUBSET (places \X Int) : ClosedUnder(S, start, moves) => <<m[2], p[2] + m[3]>> \in S
    <3> SUFFICES ASSUME NEW S \in SUBSET (places \X Int), ClosedUnder(S, start, moves)
                 PROVE  <<m[2], p[2] + m[3]>> \in S
      OBVIOUS
    <3>1. p \in S
      BY <1>2, <1>4
    <3> QED
      BY <1>4, <3>1 DEF ClosedUnder
  <2> QED
    BY <1>2, <2>2, <2>3
<1>5. ClosedUnder(T, start, moves)
  BY <1>3, <1>4 DEF ClosedUnder
<1>6. T \in SUBSET (places \X Int)
  BY <1>2
<1> QED
  BY <1>1, <1>5, <1>6

\* What is true of the empty trip and remains true of every move is true of all
\* trips.
LEMMA TripsLeast ==
    ASSUME NEW places, NEW start, NEW moves,
           NEW S \in SUBSET (places \X Int), ClosedUnder(S, start, moves)
    PROVE  Trips(places, start, moves) \subseteq S
  BY DEF Trips

\* Of trips that cost nothing or more, there is a cheapest to each place.
LEMMA CheapestTrips ==
    ASSUME NEW places, IsFiniteSet(places), NEW T \in SUBSET (places \X Int),
           \A t \in T : t[2] >= 0
    PROVE  /\ IsFiniteSet(Cheapest(T)) /\ Cardinality(Cheapest(T)) <= Cardinality(places)
           /\ \A t \in T : \E o \in Cheapest(T) : o[1] = t[1] /\ o[2] <= t[2]
<1>1. PICK O : O = Cheapest(T)
  OBVIOUS
<1>2. /\ O \subseteq T
      /\ \A o \in O : \A q \in T : q[1] = o[1] => o[2] <= q[2]
      /\ \A o \in T : (\A q \in T : q[1] = o[1] => o[2] <= q[2]) => o \in O
  BY <1>1 DEF Cheapest
<1>3. \A t \in T : t[1] \in places /\ t[2] \in Nat /\ t = <<t[1], t[2]>>
  OBVIOUS
<1>4. ASSUME NEW t \in T PROVE \E o \in O : o[1] = t[1] /\ o[2] <= t[2]
  <2> DEFINE C == {c \in Nat : <<t[1], c>> \in T}
  <2>1. C \in SUBSET Nat /\ t[2] \in C
    BY <1>3
  <2>2. PICK c \in C : \A y \in C : c <= y
    BY <2>1, LeastNumber
  <2>3. PICK o : o = <<t[1], c>>
    OBVIOUS
  <2>4. o \in T /\ o[1] = t[1] /\ o[2] = c
    BY <2>3
  <2>5. \A q \in T : q[1] = o[1] => o[2] <= q[2]
    BY <1>3, <2>2, <2>4
  <2> QED
    BY <1>2, <2>1, <2>2, <2>4, <2>5
<1>5. IsFiniteSet(O) /\ Cardinality(O) <= Cardinality(places)
  <2> DEFINE f == [o \in O |-> o[1]]
  <2>1. f \in [O -> places]
    BY <1>2, <1>3
  <2>2. \A o, q \in O : f[o] = f[q] => o = q
    <3> SUFFICES ASSUME NEW o \in O, NEW q \in O, o[1] = q[1] PROVE o = q
      OBVIOUS
    <3>1. o[2] <= q[2] /\ q[2] <= o[2]
      BY <1>2
    <3>2. o[2] = q[2]
      BY <1>2, <1>3, <3>1
    <3>3. o = <<o[1], o[2]>> /\ q = <<q[1], q[2]>>
      BY <1>2, <1>3
    <3> QED
      BY <3>2, <3>3
  <2>3. f \in Injection(O, places)
    BY <2>1, <2>2 DEF Injection, IsInjective
  <2> QED
    BY <2>3, FS_Injection
<1> QED
  BY <1>1, <1>4, <1>5

\* A cheapest trip goes on from a cheapest trip.
LEMMA CheapestBefore ==
    ASSUME NEW places, NEW start, NEW moves, IsNetwork(places, start, moves),
           NEW T, T = Trips(places, start, moves),
           NEW p \in T, NEW m \in moves, m[1] = p[1], <<m[2], p[2] + m[3]>> \in Cheapest(T)
    PROVE  p \in Cheapest(T)
<1>1. T \in SUBSET (places \X Int) /\ ClosedUnder(T, start, moves)
  BY TripsClosed
<1>2. m[3] \in Int
  BY DEF IsNetwork
<1>3. ASSUME NEW q \in T, q[1] = p[1] PROVE p[2] <= q[2]
  <2>1. q[2] \in Int /\ p[2] \in Int
    BY <1>1
  <2>2. PICK u, v : u = <<m[2], p[2] + m[3]>> /\ v = <<m[2], q[2] + m[3]>>
    OBVIOUS
  <2>3. v \in T
    BY <1>1, <1>3, <2>2 DEF ClosedUnder
  <2>4. u[2] <= v[2]
    BY <2>2, <2>3 DEF Cheapest
  <2>5. u[2] = p[2] + m[3] /\ v[2] = q[2] + m[3]
    BY <2>2
  <2> QED
    BY <1>2, <2>1, <2>4, <2>5
<1> QED
  BY <1>3 DEF Cheapest

\* When no cheapest trip is found by one move more, all have been found.
LEMMA NoneMore ==
    ASSUME NEW places, NEW start, NEW moves, IsNetwork(places, start, moves),
           NEW T, T = Trips(places, start, moves), NEW B, NEW C,
           <<start, 0>> \in B, B \subseteq T,
           C = Cheapest(Onward(B, moves)), Cheapest(T) \cap C \subseteq B
    PROVE  Cheapest(T) \subseteq B
<1>1. T \in SUBSET (places \X Int) /\ ClosedUnder(T, start, moves)
  BY TripsClosed
<1> DEFINE O == Cheapest(T)
           S == {t \in T : t \in O => t \in B}
<1>2. \A p \in T : \A m \in moves : m[1] = p[1] => <<m[2], p[2] + m[3]>> \in T
  BY <1>1 DEF ClosedUnder
<1>3. Onward(B, moves) \subseteq T
  <2> SUFFICES ASSUME NEW t \in Onward(B, moves) PROVE t \in T
    OBVIOUS
  <2>1. CASE t \in B
    BY <2>1
  <2>2. CASE \E p \in B : \E m \in moves : m[1] = p[1] /\ t = <<m[2], p[2] + m[3]>>
    BY <1>2, <2>2
  <2> QED
    BY <2>1, <2>2, OnwardTrips
<1>4. ASSUME NEW p \in S, NEW m \in moves, m[1] = p[1], <<m[2], p[2] + m[3]>> \in O
      PROVE  <<m[2], p[2] + m[3]>> \in B
  <2>1. PICK u : u = <<m[2], p[2] + m[3]>>
    OBVIOUS
  <2>2. p \in O
    BY <1>4, CheapestBefore
  <2>3. p \in B
    BY <2>2
  <2>4. u \in Onward(B, moves)
    BY <1>4, <2>1, <2>3, OnwardTrips
  <2>5. u \in C
    BY <1>3, <1>4, <2>1, <2>4 DEF Cheapest
  <2> QED
    BY <1>4, <2>1, <2>5
<1>5. ClosedUnder(S, start, moves)
  <2>1. <<start, 0>> \in S
    OBVIOUS
  <2>2. ASSUME NEW p \in S, NEW m \in moves, m[1] = p[1] PROVE <<m[2], p[2] + m[3]>> \in S
    BY <1>2, <1>4, <2>2
  <2> HIDE DEF S
  <2> QED
    BY <2>1, <2>2 DEF ClosedUnder
<1>6. T \subseteq S
  <2>1. S \in SUBSET (places \X Int)
    BY <1>1
  <2> HIDE DEF S
  <2> QED
    BY <1>5, <2>1, TripsLeast
<1>7. O \subseteq T
  BY DEF Cheapest
<1> QED
  BY <1>6, <1>7

\* No trip costs less than nothing.
NoneIsNegative(trips) == \A t \in trips : t[2] >= 0

\* Trips among which all the cheapest of T are that are among B, and more of
\* them if B lacks any.
Gains(T, B, C) ==
    /\ C \subseteq T
    /\ Cheapest(T) \cap B \subseteq Cheapest(T) \cap C
    /\ ~(Cheapest(T) \subseteq B) =>
         Cardinality(Cheapest(T) \cap C) > Cardinality(Cheapest(T) \cap B)

\* One move more keeps the cheapest trips that were found, and finds another
\* while there are any.
LEMMA OneMore ==
    ASSUME NEW places, NEW start, NEW moves, IsNetwork(places, start, moves),
           NEW T, T = Trips(places, start, moves), NoneIsNegative(T),
           NEW B, NEW C, B \subseteq T, <<start, 0>> \in B, C = Cheapest(Onward(B, moves))
    PROVE  <<start, 0>> \in C /\ Gains(T, B, C)
<1>1. PICK O : O = Cheapest(T)
  OBVIOUS
<1>2. T \in SUBSET (places \X Int) /\ ClosedUnder(T, start, moves) /\ IsFiniteSet(places)
  BY TripsClosed DEF IsNetwork
<1>3. Onward(B, moves) \subseteq T
  <2> SUFFICES ASSUME NEW t \in Onward(B, moves) PROVE t \in T
    OBVIOUS
  <2>1. CASE t \in B
    BY <2>1
  <2>2. CASE \E p \in B : \E m \in moves : m[1] = p[1] /\ t = <<m[2], p[2] + m[3]>>
    BY <1>2, <2>2 DEF ClosedUnder
  <2> QED
    BY <2>1, <2>2, OnwardTrips
<1>4. C \subseteq T
  BY <1>3 DEF Cheapest
<1>5. O \cap B \subseteq O \cap C
  <2> SUFFICES ASSUME NEW o \in O, o \in B PROVE o \in C
    OBVIOUS
  <2>1. o \in Onward(B, moves)
    BY OnwardTrips
  <2>2. \A q \in T : q[1] = o[1] => o[2] <= q[2]
    BY <1>1 DEF Cheapest
  <2> QED
    BY <1>3, <2>1, <2>2 DEF Cheapest
<1>6. <<start, 0>> \in O
  <2>1. PICK z : z = <<start, 0>>
    OBVIOUS
  <2>2. z \in T /\ z[2] = 0
    BY <1>2, <2>1 DEF ClosedUnder
  <2> QED
    BY <1>1, <2>1, <2>2 DEF Cheapest, NoneIsNegative
<1>7. <<start, 0>> \in C
  BY <1>5, <1>6
<1>8. ASSUME ~(O \subseteq B) PROVE Cardinality(O \cap C) > Cardinality(O \cap B)
  <2>1. ~(O \cap C \subseteq B)
    BY <1>1, <1>8, NoneMore
  <2>2. IsFiniteSet(O) /\ IsFiniteSet(O \cap C)
    <3>1. IsFiniteSet(O)
      BY <1>1, <1>2, CheapestTrips DEF NoneIsNegative
    <3> QED
      BY <3>1, FS_Subset
  <2>3. /\ IsFiniteSet(O \cap B) /\ Cardinality(O \cap B) <= Cardinality(O \cap C)
        /\ Cardinality(O \cap C) = Cardinality(O \cap B) => O \cap C = O \cap B
    BY <1>5, <2>2, FS_Subset
  <2>4. Cardinality(O \cap C) \in Nat /\ Cardinality(O \cap B) \in Nat
    BY <2>2, <2>3, FS_CardinalityType
  <2> QED
    BY <2>1, <2>3, <2>4
<1> QED
  BY <1>1, <1>4, <1>5, <1>7, <1>8 DEF Gains

\* As many moves as there are places are enough for all cheapest trips.
LEMMA EnoughMoves ==
    ASSUME NEW places, NEW start, NEW moves, IsNetwork(places, start, moves),
           NoneIsNegative(Trips(places, start, moves)),
           NEW n \in Nat, Cardinality(places) <= n
    PROVE  CheapestFrom(start, moves, n) = Cheapest(Trips(places, start, moves))
<1>1. PICK T, O : T = Trips(places, start, moves) /\ O = Cheapest(T)
  OBVIOUS
<1>2. /\ T \in SUBSET (places \X Int) /\ ClosedUnder(T, start, moves)
      /\ IsFiniteSet(places) /\ start \in places
  BY <1>1, TripsClosed DEF IsNetwork
<1>3. /\ IsFiniteSet(O) /\ Cardinality(O) <= Cardinality(places)
      /\ \A t \in T : \E o \in O : o[1] = t[1] /\ o[2] <= t[2]
      /\ Cardinality(O) \in Nat /\ Cardinality(places) \in Nat
  BY <1>1, <1>2, CheapestTrips, FS_CardinalityType DEF NoneIsNegative
<1>4. PICK f : /\ \A k \in 0 .. n : BestStep(f, start, moves, k)
               /\ CheapestFrom(start, moves, n) = f[n]
  BY BestIsCheapest
<1> DEFINE Found(k) == /\ f[k] \subseteq T /\ <<start, 0>> \in f[k]
                       /\ O \subseteq f[k] \/ Cardinality(O \cap f[k]) >= k + 1
           N == {k \in Nat : k <= n => Found(k)}
<1>5. Found(0)
  <2>1. f[0] = {<<start, 0>>}
    <3>1. BestStep(f, start, moves, 0)
      BY <1>4
    <3> QED
      BY <3>1 DEF BestStep
  <2>2. <<start, 0>> \in T
    BY <1>2 DEF ClosedUnder
  <2>3. <<start, 0>> \in O
    <3>1. PICK z : z = <<start, 0>>
      OBVIOUS
    <3>2. z \in T /\ z[2] = 0
      BY <2>2, <3>1
    <3> QED
      BY <1>1, <3>1, <3>2 DEF Cheapest, NoneIsNegative
  <2>4. O \cap f[0] = {<<start, 0>>}
    BY <2>1, <2>3
  <2>5. Cardinality(O \cap f[0]) = 1
    BY <2>4, FS_Singleton
  <2> QED
    BY <2>1, <2>2, <2>5
<1>6. ASSUME NEW k \in Nat, k + 1 <= n, Found(k) PROVE Found(k + 1)
  <2>1. PICK B, C : B = f[k] /\ C = f[k + 1]
    OBVIOUS
  <2>2. C = Cheapest(Onward(B, moves))
    <3>1. k + 1 \in 0 .. n /\ k + 1 # 0 /\ (k + 1) - 1 = k
      BY <1>6
    <3>2. BestStep(f, start, moves, k + 1)
      BY <1>4, <3>1
    <3> QED
      BY <2>1, <3>1, <3>2 DEF BestStep
  <2>3. B \subseteq T /\ <<start, 0>> \in B
    BY <1>6, <2>1
  <2>4. /\ C \subseteq T /\ <<start, 0>> \in C
        /\ O \cap B \subseteq O \cap C
        /\ ~(O \subseteq B) => Cardinality(O \cap C) > Cardinality(O \cap B)
    <3>1. NoneIsNegative(T)
      BY <1>1
    <3>2. T = Trips(places, start, moves)
      BY <1>1
    <3>3. <<start, 0>> \in C /\ Gains(T, B, C)
      BY <2>2, <2>3, <3>1, <3>2, OneMore
    <3> QED
      BY <1>1, <3>3 DEF Gains
  <2>5. Cardinality(O \cap C) \in Nat /\ Cardinality(O \cap B) \in Nat
    <3>1. IsFiniteSet(O \cap C) /\ IsFiniteSet(O \cap B)
      BY <1>3, FS_Subset
    <3> QED
      BY <3>1, FS_CardinalityType
  <2>6. O \subseteq B => O \subseteq C
    BY <2>4
  <2>7. O \subseteq B \/ Cardinality(O \cap B) >= k + 1
    BY <1>6, <2>1
  <2>8. O \subseteq C \/ Cardinality(O \cap C) >= (k + 1) + 1
    BY <2>4, <2>5, <2>6, <2>7
  <2> QED
    BY <2>1, <2>4, <2>8
<1>7. N = Nat
  <2> HIDE DEF Found
  <2>1. 0 \in N
    BY <1>5
  <2>2. \A k \in N : k + 1 \in N
    <3> SUFFICES ASSUME NEW k \in N, k + 1 <= n PROVE Found(k + 1)
      OBVIOUS
    <3>1. k \in Nat /\ k <= n
      OBVIOUS
    <3>2. Found(k)
      BY <3>1
    <3> QED
      BY <1>6, <3>1, <3>2
  <2>3. N \in SUBSET Nat
    OBVIOUS
  <2> HIDE DEF N
  <2> QED
    BY <2>1, <2>2, <2>3, Induction
<1>8. Found(n)
  <2>1. n \in N
    BY <1>7
  <2> HIDE DEF Found
  <2> QED
    BY <2>1
<1>9. O \subseteq f[n]
  <2> SUFFICES ASSUME Cardinality(O \cap f[n]) >= n + 1 PROVE FALSE
    BY <1>8
  <2>1. Cardinality(O \cap f[n]) <= Cardinality(O) /\ IsFiniteSet(O \cap f[n])
    BY <1>3, FS_Subset
  <2>2. Cardinality(O \cap f[n]) \in Nat
    BY <2>1, FS_CardinalityType
  <2> QED
    BY <1>3, <2>1, <2>2
<1>10. n # 0
  <2>1. Cardinality(places) # 0
    BY <1>2, FS_EmptySet
  <2> QED
    BY <1>3, <2>1
<1>11. PICK B : f[n] = Cheapest(Onward(B, moves))
  <2>1. BestStep(f, start, moves, n)
    BY <1>4
  <2> QED
    BY <1>10, <2>1 DEF BestStep
<1>12. f[n] \subseteq O
  <2> SUFFICES ASSUME NEW p \in f[n] PROVE p \in O
    OBVIOUS
  <2>1. p \in T
    BY <1>8
  <2>2. PICK o \in O : o[1] = p[1] /\ o[2] <= p[2]
    BY <1>3, <2>1
  <2>3. p[2] <= o[2]
    <3>1. o \in f[n]
      BY <1>9
    <3> QED
      BY <1>11, <2>2, <3>1 DEF Cheapest
  <2>4. o \in T /\ \A q \in T : q[1] = o[1] => o[2] <= q[2]
    BY <1>1 DEF Cheapest
  <2>5. p[2] \in Int /\ o[2] \in Int
    BY <1>2, <2>1, <2>4
  <2>6. p[2] = o[2]
    BY <2>2, <2>3, <2>5
  <2> QED
    BY <1>1, <2>1, <2>2, <2>4, <2>6 DEF Cheapest
<1> QED
  BY <1>1, <1>4, <1>9, <1>12

-----------------------------------------------------------------------------
(* Trips in the graph and trips of passengers *)

\* Where one can be in the graph, and as a passenger; the trips from stop s.
Vertices == {GetVertexForStop(db, t) : t \in StopNames(db)}
Places == {At(t) : t \in StopNames(db)} \cup Seats

GraphTrips(s) == Trips(Vertices, GetVertexForStop(db, s), RidesOfGraph)
PassengerTrips(s) == Trips(Places, At(s), Moves)

\* A set named by the elements of another is no larger.
LEMMA NoMoreNames ==
    ASSUME NEW S, IsFiniteSet(S), NEW f, NEW T, T = {f[x] : x \in S}
    PROVE  IsFiniteSet(T) /\ Cardinality(T) <= Cardinality(S)
<1> DEFINE g == [x \in S |-> f[x]]
<1>1. g \in Surjection(S, T)
  BY DEF Surjection
<1> QED
  BY <1>1, FS_Surjection

\* There are at most as many stops as are counted.
LEMMA NumberOfStops ==
    ASSUME db \in Catalogue
    PROVE  /\ EvaluateVertexCount(db) \in Nat /\ IsFiniteSet(StopNames(db))
           /\ Cardinality(StopNames(db)) \in Nat
           /\ Cardinality(StopNames(db)) <= EvaluateVertexCount(db)
<1>1. PICK n \in Nat : n = Len(db.stops) /\ DOMAIN db.stops = 1 .. n
  BY CatalogueFields
<1>2. PICK f : f = [k \in 1 .. n |-> db.stops[k].name]
  OBVIOUS
<1>3. StopNames(db) = {f[k] : k \in 1 .. n}
  BY <1>1, <1>2 DEF StopNames
<1>4. IsFiniteSet(1 .. n) /\ Cardinality(1 .. n) = n
  BY <1>1, FS_Interval
<1>5. IsFiniteSet(StopNames(db)) /\ Cardinality(StopNames(db)) <= Cardinality(1 .. n)
  BY <1>3, <1>4, NoMoreNames
<1> QED
  BY <1>1, <1>4, <1>5, FS_CardinalityType DEF EvaluateVertexCount

\* The vertices and edges of the graph.
LEMMA GraphIsNetwork ==
    ASSUME GraphInv, OfferInv, Done, NEW s \in StopNames(db)
    PROVE  /\ IsNetwork(Vertices, GetVertexForStop(db, s), RidesOfGraph)
           /\ Cardinality(Vertices) <= EvaluateVertexCount(db)
<1>1. db \in Catalogue /\ Resolved(db)
  BY DEF GraphInv, RideTypeOK, OfferInv
<1>2. /\ IsFiniteSet(StopNames(db)) /\ Cardinality(StopNames(db)) \in Nat
      /\ Cardinality(StopNames(db)) <= EvaluateVertexCount(db) /\ EvaluateVertexCount(db) \in Nat
  BY <1>1, NumberOfStops
<1>3. PICK f : f = [t \in StopNames(db) |-> GetVertexForStop(db, t)]
  OBVIOUS
<1>4. Vertices = {f[t] : t \in StopNames(db)}
  BY <1>3 DEF Vertices
<1>5. IsFiniteSet(Vertices) /\ Cardinality(Vertices) <= Cardinality(StopNames(db))
  BY <1>2, <1>4, NoMoreNames
<1>6. Cardinality(Vertices) \in Nat
  BY <1>5, FS_CardinalityType
<1>7. ASSUME NEW m \in RidesOfGraph PROVE m[1] \in Vertices /\ m[2] \in Vertices /\ m[3] \in Int
  <2>1. PICK b, i, j : Rideable(db, b, i, j) /\ m = RideOf(b, i, j)
    BY GraphOfOffers
  <2>2. b \in BusNames(db) /\ i \in DOMAIN BusOf(db, b).route
    BY <2>1 DEF Rideable
  <2>3. j \in DOMAIN BusOf(db, b).route /\ Price(b, i, j) \in Int
    BY <1>1, <2>1, <2>2, RidesGoOn, PriceGoesOn DEF HasSeat
  <2>4. BusOf(db, b).route[i] \in StopNames(db) /\ BusOf(db, b).route[j] \in StopNames(db)
    BY <1>1, <2>2, <2>3, StopsOfRoute
  <2>5. /\ m[1] = GetVertexForStop(db, BusOf(db, b).route[i])
        /\ m[2] = GetVertexForStop(db, BusOf(db, b).route[j])
        /\ m[3] = Price(b, i, j)
    BY <2>1 DEF RideOf, Price
  <2> QED
    BY <2>3, <2>4, <2>5 DEF Vertices
<1>8. GetVertexForStop(db, s) \in Vertices
  BY DEF Vertices
<1>9. IsNetwork(Vertices, GetVertexForStop(db, s), RidesOfGraph)
  BY <1>5, <1>7, <1>8 DEF IsNetwork
<1> QED
  BY <1>2, <1>5, <1>6, <1>9

\* No catalogue has infinitely many seats.
LEMMA SeatsAreFinite ==
    ASSUME db \in Catalogue
    PROVE  IsFiniteSet(Seats)
<1> DEFINE row(b) == {<<b, i>> : i \in DOMAIN BusOf(db, b).route}
<1>1. PICK f : f = [b \in BusNames(db) |-> row(b)]
  OBVIOUS
<1>2. PICK rows : rows = {f[b] : b \in BusNames(db)}
  OBVIOUS
<1>3. IsFiniteSet(rows)
  BY <1>2, NamesAreFinite, NoMoreNames
<1>4. ASSUME NEW r \in rows PROVE IsFiniteSet(r)
  <2>1. PICK b \in BusNames(db) : r = row(b)
    BY <1>1, <1>2, <1>4
  <2>2. PICK n \in Nat : DOMAIN BusOf(db, b).route = 1 .. n
    BY BusRoute
  <2>3. PICK g : g = [i \in 1 .. n |-> <<b, i>>]
    OBVIOUS
  <2>4. r = {g[i] : i \in 1 .. n}
    BY <2>1, <2>2, <2>3
  <2>5. IsFiniteSet(1 .. n)
    BY FS_Interval
  <2> QED
    BY <2>4, <2>5, NoMoreNames
<1>5. Seats = UNION rows
  BY <1>1, <1>2 DEF Seats
<1> QED
  BY <1>3, <1>4, <1>5, FS_UNION

\* The places and moves of a passenger.
LEMMA PassengersAreNetwork ==
    ASSUME db \in Catalogue, Resolved(db), NEW s \in StopNames(db)
    PROVE  /\ IsNetwork(Places, At(s), Moves)
           /\ MostMoves \in Nat /\ Cardinality(Places) <= MostMoves
<1>1. /\ IsFiniteSet(StopNames(db)) /\ Cardinality(StopNames(db)) \in Nat
      /\ Cardinality(StopNames(db)) <= EvaluateVertexCount(db) /\ EvaluateVertexCount(db) \in Nat
  BY NumberOfStops
<1>2. PICK f, S : f = [t \in StopNames(db) |-> At(t)] /\ S = {f[t] : t \in StopNames(db)}
  OBVIOUS
<1>3. Places = S \cup Seats
  BY <1>2 DEF Places
<1>4. IsFiniteSet(S) /\ Cardinality(S) <= Cardinality(StopNames(db))
  BY <1>1, <1>2, NoMoreNames
<1>5. IsFiniteSet(Seats)
  BY SeatsAreFinite
<1>6. /\ IsFiniteSet(Places)
      /\ Cardinality(Places) = Cardinality(S) + Cardinality(Seats) - Cardinality(S \cap Seats)
  BY <1>3, <1>4, <1>5, FS_Union
<1>7. IsFiniteSet(S \cap Seats)
  BY <1>4, FS_Subset
<1>8. /\ Cardinality(S) \in Nat /\ Cardinality(Seats) \in Nat /\ Cardinality(S \cap Seats) \in Nat
      /\ Cardinality(Places) \in Nat
  BY <1>4, <1>5, <1>6, <1>7, FS_CardinalityType
<1>9. MostMoves \in Nat /\ Cardinality(Places) <= MostMoves
  BY <1>1, <1>4, <1>6, <1>8 DEF MostMoves
<1>10. ASSUME NEW b, NEW i, HasSeat(b, i)
       PROVE  At(BusOf(db, b).route[i]) \in Places /\ <<b, i>> \in Places
  BY <1>10, StopsOfRoute, SeatsAre DEF Places, HasSeat
<1>11. ASSUME NEW m \in Moves PROVE m[1] \in Places /\ m[2] \in Places /\ m[3] \in Int
  <2>1. CASE \E b, i : HasSeat(b, i) /\ HasSeat(b, i + 1) /\ m = BoardMove(b, i)
    <3>1. PICK b, i : HasSeat(b, i) /\ HasSeat(b, i + 1) /\ m = BoardMove(b, i)
      BY <2>1
    <3>2. i \in Nat /\ Leg(b, i) \in Int
      BY <3>1, RidesGoOn, PriceGoesOn DEF HasSeat
    <3>3. m[1] = At(BusOf(db, b).route[i]) /\ m[2] = <<b, i + 1>> /\ m[3] = WaitingTime + Leg(b, i)
      BY <3>1 DEF BoardMove
    <3>4. m[3] \in Int
      BY <3>2, <3>3, WaitingTimeIsInt
    <3>5. m[1] \in Places /\ m[2] \in Places
      BY <1>10, <3>1, <3>3
    <3> QED
      BY <3>4, <3>5
  <2>2. CASE \E b, i : HasSeat(b, i) /\ HasSeat(b, i + 1) /\ Stays(b, i) /\ m = RideMove(b, i)
    <3>1. PICK b, i : HasSeat(b, i) /\ HasSeat(b, i + 1) /\ m = RideMove(b, i)
      BY <2>2
    <3>2. i \in Nat /\ Leg(b, i) \in Int
      BY <3>1, RidesGoOn, PriceGoesOn DEF HasSeat
    <3>3. m[1] = <<b, i>> /\ m[2] = <<b, i + 1>> /\ m[3] = Leg(b, i)
      BY <3>1 DEF RideMove
    <3> QED
      BY <1>10, <3>1, <3>2, <3>3
  <2>3. CASE \E b, i : HasSeat(b, i) /\ m = LeaveMove(b, i)
    <3>1. PICK b, i : HasSeat(b, i) /\ m = LeaveMove(b, i)
      BY <2>3
    <3>3. m[1] = <<b, i>> /\ m[2] = At(BusOf(db, b).route[i]) /\ m[3] = 0
      BY <3>1 DEF LeaveMove
    <3> QED
      BY <1>10, <3>1, <3>3
  <2> QED
    BY <2>1, <2>2, <2>3, MovesAre
<1>12. At(s) \in Places
  BY DEF Places
<1> QED
  BY <1>6, <1>9, <1>11, <1>12 DEF IsNetwork

\* Standing at a stop is not sitting in a bus.
LEMMA StopsAndSeats ==
    ASSUME NEW t
    PROVE  /\ \A b, i : At(t) # <<b, i>> /\ <<b, i>> # At(t)
           /\ \A u : At(t) = At(u) => t = u
           /\ At(t)[1] = t /\ Len(At(t)) = 1
  BY DEF At

\* A seat is one of one bus, at one position.
LEMMA SeatParts ==
    ASSUME NEW b, NEW i
    PROVE  /\ \A c, j : <<b, i>> = <<c, j>> => b = c /\ i = j
           /\ Len(<<b, i>>) = 2
  OBVIOUS

\* What the graph knows of a passenger's trip from s: to a stop, it has one of
\* the same cost; in a bus, he is on a ride that the bus offers, and it has a
\* trip to where he boarded.
Arrived(s, p) ==
    \E t \in StopNames(db) : p[1] = At(t) /\ <<GetVertexForStop(db, t), p[2]>> \in GraphTrips(s)

OnBus(s, p) ==
    \E b, i, j : /\ Rideable(db, b, i, j) /\ p[1] = <<b, j>>
                 /\ <<GetVertexForStop(db, BusOf(db, b).route[i]), p[2] - Price(b, i, j)>> \in GraphTrips(s)

\* He boards a bus.
LEMMA BoardedTrip ==
    ASSUME GraphInv, OfferInv, Done, NEW s \in StopNames(db),
           NEW p, p[2] \in Int, Arrived(s, p) \/ OnBus(s, p),
           NEW b, NEW i, HasSeat(b, i), HasSeat(b, i + 1), p[1] = At(BusOf(db, b).route[i]),
           NEW q, q = <<<<b, i + 1>>, p[2] + (WaitingTime + Leg(b, i))>>
    PROVE  OnBus(s, q)
<1>1. db \in Catalogue /\ Resolved(db) /\ b \in BusNames(db) /\ i \in DOMAIN BusOf(db, b).route
  BY DEF GraphInv, RideTypeOK, OfferInv, HasSeat
<1>2. PICK t \in StopNames(db) : p[1] = At(t) /\ <<GetVertexForStop(db, t), p[2]>> \in GraphTrips(s)
  <2>1. ASSUME OnBus(s, p) PROVE FALSE
    <3>1. PICK c, k : p[1] = <<c, k>>
      BY <2>1 DEF OnBus
    <3>2. At(BusOf(db, b).route[i]) # <<c, k>>
      BY StopsAndSeats, Zenon
    <3> QED
      BY <3>1, <3>2, Zenon
  <2>2. Arrived(s, p)
    BY <2>1
  <2> QED
    BY <2>2 DEF Arrived
<1>3. t = BusOf(db, b).route[i]
  BY <1>2, StopsAndSeats
<1>4. /\ Rideable(db, b, i, i + 1) /\ Price(b, i, i + 1) = WaitingTime + Leg(b, i)
      /\ Price(b, i, i + 1) \in Int
  BY <1>1, RidesGoOn, PriceGoesOn
<1>5. q[1] = <<b, i + 1>> /\ q[2] = p[2] + Price(b, i, i + 1)
  BY <1>4
<1>6. q[2] - Price(b, i, i + 1) = p[2]
  BY <1>4, <1>5
<1> QED
  BY <1>2, <1>3, <1>4, <1>5, <1>6 DEF OnBus

\* He rides on.
LEMMA RiddenTrip ==
    ASSUME GraphInv, OfferInv, Done, NEW s \in StopNames(db),
           NEW p, p[2] \in Int, Arrived(s, p) \/ OnBus(s, p),
           NEW b, NEW j, HasSeat(b, j), HasSeat(b, j + 1), Stays(b, j), p[1] = <<b, j>>,
           NEW q, q = <<<<b, j + 1>>, p[2] + Leg(b, j)>>
    PROVE  OnBus(s, q)
<1>1. OnBus(s, p)
  BY StopsAndSeats DEF Arrived
<1>2. PICK c, i, k : /\ Rideable(db, c, i, k) /\ p[1] = <<c, k>>
                     /\ <<GetVertexForStop(db, BusOf(db, c).route[i]), p[2] - Price(c, i, k)>> \in GraphTrips(s)
  BY <1>1 DEF OnBus
<1>3. c = b /\ k = j
  BY <1>2, SeatParts
<1>4. db \in Catalogue /\ Resolved(db) /\ b \in BusNames(db) /\ i \in DOMAIN BusOf(db, b).route
  BY <1>2, <1>3 DEF GraphInv, RideTypeOK, OfferInv, Rideable
<1>5. Rideable(db, b, i, j) /\ j \in Nat /\ i < j
  BY <1>2, <1>3, <1>4, RidesGoOn
<1>6. Rideable(db, b, i, j + 1)
  BY <1>4, <1>5, RidesGoOn
<1>7. /\ Price(b, i, j + 1) = Price(b, i, j) + Leg(b, j)
      /\ Price(b, i, j) \in Int /\ Leg(b, j) \in Int
  BY <1>4, <1>5, <1>6, PriceGoesOn
<1>8. q[1] = <<b, j + 1>> /\ q[2] = p[2] + Leg(b, j)
  OBVIOUS
<1>9. q[2] - Price(b, i, j + 1) = p[2] - Price(b, i, j)
  BY <1>7, <1>8
<1> QED
  BY <1>2, <1>3, <1>6, <1>8, <1>9 DEF OnBus

\* Where he is on a bus, the graph has a trip.
LEMMA RiddenIsEdge ==
    ASSUME GraphInv, OfferInv, Done, NEW s \in StopNames(db),
           NEW p, p[2] \in Int, NEW b, NEW j, p[1] = <<b, j>>, OnBus(s, p)
    PROVE  <<GetVertexForStop(db, BusOf(db, b).route[j]), p[2]>> \in GraphTrips(s)
<1>1. PICK c, i, k : /\ Rideable(db, c, i, k) /\ p[1] = <<c, k>>
                     /\ <<GetVertexForStop(db, BusOf(db, c).route[i]), p[2] - Price(c, i, k)>> \in GraphTrips(s)
  BY DEF OnBus
<1>2. c = b /\ k = j
  BY <1>1, SeatParts
<1>3. db \in Catalogue /\ Resolved(db) /\ b \in BusNames(db) /\ i \in DOMAIN BusOf(db, b).route
  BY <1>1, <1>2 DEF GraphInv, RideTypeOK, OfferInv, Rideable
<1>4. Price(b, i, j) \in Int
  BY <1>1, <1>2, <1>3, PriceGoesOn
<1>5. PICK u, m : /\ u = <<GetVertexForStop(db, BusOf(db, b).route[i]), p[2] - Price(b, i, j)>>
                  /\ m = RideOf(b, i, j)
  OBVIOUS
<1>6. u \in GraphTrips(s) /\ m \in RidesOfGraph
  BY <1>1, <1>2, <1>5, GraphOfOffers
<1>7. /\ m[1] = u[1] /\ m[2] = GetVertexForStop(db, BusOf(db, b).route[j]) /\ m[3] = Price(b, i, j)
      /\ u[2] = p[2] - Price(b, i, j)
  BY <1>5 DEF RideOf, Price
<1>8. <<m[2], u[2] + m[3]>> \in GraphTrips(s)
  <2>1. ClosedUnder(GraphTrips(s), GetVertexForStop(db, s), RidesOfGraph)
    BY GraphIsNetwork, TripsClosed DEF GraphTrips
  <2> QED
    BY <1>6, <1>7, <2>1 DEF ClosedUnder
<1>9. u[2] + m[3] = p[2]
  BY <1>4, <1>7
<1> QED
  BY <1>7, <1>8, <1>9

\* Every trip of a passenger is one that the graph knows of.
LEMMA WalksAreRides ==
    ASSUME GraphInv, OfferInv, Done, NEW s \in StopNames(db)
    PROVE  \A p \in PassengerTrips(s) : Arrived(s, p) \/ OnBus(s, p)
<1>1. PICK S : S = {p \in Places \X Int : Arrived(s, p) \/ OnBus(s, p)}
  OBVIOUS
<1>2. db \in Catalogue /\ Resolved(db)
  BY DEF GraphInv, RideTypeOK, OfferInv
<1>3. IsNetwork(Places, At(s), Moves)
  BY <1>2, PassengersAreNetwork
<1>4. <<At(s), 0>> \in S
  <2>1. <<GetVertexForStop(db, s), 0>> \in GraphTrips(s)
    BY GraphIsNetwork, TripsClosed DEF GraphTrips, ClosedUnder
  <2>2. PICK p : p = <<At(s), 0>>
    OBVIOUS
  <2>3. p[1] = At(s) /\ p[2] = 0
    BY <2>2
  <2>4. Arrived(s, p)
    BY <2>1, <2>3 DEF Arrived
  <2>5. p \in Places \X Int
    BY <1>3, <2>2 DEF IsNetwork
  <2> QED
    BY <1>1, <2>2, <2>4, <2>5
<1>5. ASSUME NEW p \in S, NEW m \in Moves, m[1] = p[1] PROVE <<m[2], p[2] + m[3]>> \in S
  <2>1. PICK q : q = <<m[2], p[2] + m[3]>>
    OBVIOUS
  <2>2. p[2] \in Int /\ (Arrived(s, p) \/ OnBus(s, p))
    BY <1>1
  <2>3. q \in Places \X Int
    BY <1>3, <2>1, <2>2 DEF IsNetwork
  <2>4. CASE \E b, i : HasSeat(b, i) /\ HasSeat(b, i + 1) /\ m = BoardMove(b, i)
    <3>1. PICK b, i : HasSeat(b, i) /\ HasSeat(b, i + 1) /\ m = BoardMove(b, i)
      BY <2>4
    <3>2. m[1] = At(BusOf(db, b).route[i]) /\ m[2] = <<b, i + 1>> /\ m[3] = WaitingTime + Leg(b, i)
      BY <3>1 DEF BoardMove
    <3>3. q = <<<<b, i + 1>>, p[2] + (WaitingTime + Leg(b, i))>>
      BY <2>1, <3>2
    <3>4. OnBus(s, q)
      BY <1>5, <2>2, <3>1, <3>2, <3>3, BoardedTrip
    <3> QED
      BY <1>1, <2>1, <2>3, <3>4
  <2>5. CASE \E b, i : HasSeat(b, i) /\ HasSeat(b, i + 1) /\ Stays(b, i) /\ m = RideMove(b, i)
    <3>1. PICK b, i : HasSeat(b, i) /\ HasSeat(b, i + 1) /\ Stays(b, i) /\ m = RideMove(b, i)
      BY <2>5
    <3>2. m[1] = <<b, i>> /\ m[2] = <<b, i + 1>> /\ m[3] = Leg(b, i)
      BY <3>1 DEF RideMove
    <3>3. q = <<<<b, i + 1>>, p[2] + Leg(b, i)>>
      BY <2>1, <3>2
    <3>4. OnBus(s, q)
      BY <1>5, <2>2, <3>1, <3>2, <3>3, RiddenTrip
    <3> QED
      BY <1>1, <2>1, <2>3, <3>4
  <2>6. CASE \E b, i : HasSeat(b, i) /\ m = LeaveMove(b, i)
    <3>1. PICK b, i : HasSeat(b, i) /\ m = LeaveMove(b, i)
      BY <2>6
    <3>2. m[1] = <<b, i>> /\ m[2] = At(BusOf(db, b).route[i]) /\ m[3] = 0
      BY <3>1 DEF LeaveMove
    <3>3. OnBus(s, p)
      <4>1. ASSUME Arrived(s, p) PROVE FALSE
        <5>1. PICK t : p[1] = At(t)
          BY <4>1 DEF Arrived
        <5>2. At(t) # <<b, i>>
          BY StopsAndSeats, Zenon
        <5> QED
          BY <1>5, <3>2, <5>1, <5>2, Zenon
      <4> QED
        BY <2>2, <4>1
    <3>4. <<GetVertexForStop(db, BusOf(db, b).route[i]), p[2]>> \in GraphTrips(s)
      BY <1>5, <2>2, <3>2, <3>3, RiddenIsEdge
    <3>5. q[1] = At(BusOf(db, b).route[i]) /\ q[2] = p[2]
      BY <2>1, <2>2, <3>2
    <3>6. BusOf(db, b).route[i] \in StopNames(db)
      BY <1>2, <3>1, StopsOfRoute DEF HasSeat
    <3>7. Arrived(s, q)
      BY <3>4, <3>5, <3>6 DEF Arrived
    <3> QED
      BY <1>1, <2>1, <2>3, <3>7
  <2> QED
    BY <2>4, <2>5, <2>6, MovesAre
<1>6. ClosedUnder(S, At(s), Moves)
  BY <1>4, <1>5 DEF ClosedUnder
<1>7. PassengerTrips(s) \subseteq S
  BY <1>1, <1>6, TripsLeast DEF PassengerTrips
<1> QED
  BY <1>1, <1>7

\* One who has come to a stop can get to any position of a bus from there,
\* for the price of the ride.
LEMMA SeatIsReached ==
    ASSUME db \in Catalogue, Resolved(db), NEW s \in StopNames(db),
           NEW b, NEW i, NEW j, Rideable(db, b, i, j),
           NEW c \in Int, <<At(BusOf(db, b).route[i]), c>> \in PassengerTrips(s)
    PROVE  <<<<b, j>>, c + Price(b, i, j)>> \in PassengerTrips(s)
<1>1. b \in BusNames(db) /\ i \in DOMAIN BusOf(db, b).route /\ HasSeat(b, i)
  BY DEF Rideable, HasSeat
<1>2. i \in Nat /\ j \in Nat /\ i < j
  BY <1>1, RidesGoOn
<1>3. \A p \in PassengerTrips(s) : \A m \in Moves :
        m[1] = p[1] => <<m[2], p[2] + m[3]>> \in PassengerTrips(s)
  BY PassengersAreNetwork, TripsClosed DEF PassengerTrips, ClosedUnder
<1> DEFINE Reached(k) == <<<<b, k>>, c + Price(b, i, k)>> \in PassengerTrips(s)
           T == {n \in Nat : Rideable(db, b, i, i + (n + 1)) => Reached(i + (n + 1))}
<1>4. ASSUME Rideable(db, b, i, i + 1) PROVE Reached(i + 1)
  <2>1. HasSeat(b, i + 1)
    BY <1>1, <1>4, RidesGoOn
  <2>2. Price(b, i, i + 1) = WaitingTime + Leg(b, i)
    BY <1>1, <2>1, PriceGoesOn
  <2>3. PICK p, m : p = <<At(BusOf(db, b).route[i]), c>> /\ m = BoardMove(b, i)
    OBVIOUS
  <2>4. m \in Moves
    BY <1>1, <2>1, <2>3, MovesAre
  <2>5. p[1] = m[1] /\ p[2] = c /\ m[2] = <<b, i + 1>> /\ m[3] = Price(b, i, i + 1)
    BY <2>2, <2>3 DEF BoardMove
  <2>6. <<m[2], p[2] + m[3]>> \in PassengerTrips(s)
    BY <1>3, <2>3, <2>4, <2>5
  <2> QED
    BY <2>5, <2>6
<1>5. ASSUME NEW k \in Nat, i < k, Rideable(db, b, i, k) => Reached(k), Rideable(db, b, i, k + 1)
      PROVE  Reached(k + 1)
  <2>1. Rideable(db, b, i, k) /\ Stays(b, k) /\ HasSeat(b, k) /\ HasSeat(b, k + 1)
    BY <1>1, <1>5, RidesGoOn
  <2>2. /\ Price(b, i, k + 1) = Price(b, i, k) + Leg(b, k)
        /\ Price(b, i, k) \in Int /\ Leg(b, k) \in Int
    BY <1>1, <1>5, <2>1, PriceGoesOn
  <2>3. PICK p, m : p = <<<<b, k>>, c + Price(b, i, k)>> /\ m = RideMove(b, k)
    OBVIOUS
  <2>4. m \in Moves
    BY <2>1, <2>3, MovesAre
  <2>5. p[1] = m[1] /\ p[2] = c + Price(b, i, k) /\ m[2] = <<b, k + 1>> /\ m[3] = Leg(b, k)
    BY <2>3 DEF RideMove
  <2>6. <<m[2], p[2] + m[3]>> \in PassengerTrips(s)
    BY <1>3, <1>5, <2>1, <2>3, <2>4, <2>5
  <2>7. p[2] + m[3] = c + Price(b, i, k + 1)
    BY <2>2, <2>5
  <2> QED
    BY <2>5, <2>6, <2>7
<1>6. T = Nat
  <2> HIDE DEF Reached
  <2>1. 0 \in T
    <3>1. i + (0 + 1) = i + 1
      BY <1>2
    <3> QED
      BY <1>4, <3>1
  <2>2. \A n \in T : n + 1 \in T
    <3> SUFFICES ASSUME NEW n \in T PROVE n + 1 \in T
      OBVIOUS
    <3>1. n \in Nat /\ (Rideable(db, b, i, i + (n + 1)) => Reached(i + (n + 1)))
      OBVIOUS
    <3>2. PICK k \in Nat : k = i + (n + 1)
      BY <1>2, <3>1
    <3>3. i < k /\ i + ((n + 1) + 1) = k + 1
      BY <1>2, <3>1, <3>2
    <3>4. Rideable(db, b, i, k + 1) => Reached(k + 1)
      BY <1>5, <3>1, <3>2, <3>3
    <3> QED
      BY <3>1, <3>3, <3>4
  <2>3. T \in SUBSET Nat
    OBVIOUS
  <2> HIDE DEF T
  <2> QED
    BY <2>1, <2>2, <2>3, Induction
<1>7. PICK n \in Nat : j = i + (n + 1)
  <2>1. j - i - 1 \in Nat /\ i + ((j - i - 1) + 1) = j
    BY <1>2
  <2> QED
    BY <2>1
<1>8. n \in T
  BY <1>6
<1> QED
  BY <1>7, <1>8

\* Every trip in the graph is one that a passenger can make.
LEMMA RidesAreWalks ==
    ASSUME GraphInv, OfferInv, Done, NEW s \in StopNames(db)
    PROVE  \A t \in StopNames(db) : \A c :
             <<GetVertexForStop(db, t), c>> \in GraphTrips(s) => <<At(t), c>> \in PassengerTrips(s)
<1>1. PICK S : S = {p \in Vertices \X Int :
                      \A t \in StopNames(db) :
                        p[1] = GetVertexForStop(db, t) => <<At(t), p[2]>> \in PassengerTrips(s)}
  OBVIOUS
<1>2. db \in Catalogue /\ Resolved(db)
  BY DEF GraphInv, RideTypeOK, OfferInv
<1>3. /\ IsNetwork(Vertices, GetVertexForStop(db, s), RidesOfGraph)
      /\ IsNetwork(Places, At(s), Moves)
  BY <1>2, GraphIsNetwork, PassengersAreNetwork
<1>4. ClosedUnder(PassengerTrips(s), At(s), Moves)
  BY <1>3, TripsClosed DEF PassengerTrips
<1>5. \A t, u \in StopNames(db) : GetVertexForStop(db, t) = GetVertexForStop(db, u) => t = u
  <2> SUFFICES ASSUME NEW t \in StopNames(db), NEW u \in StopNames(db),
                      GetVertexForStop(db, t) = GetVertexForStop(db, u)
               PROVE  t = u
    OBVIOUS
  <2>1. GetStopForVertex(db, GetVertexForStop(db, t)) = t /\ GetStopForVertex(db, GetVertexForStop(db, u)) = u
    BY <1>2, StopOfVertex
  <2> QED
    BY <2>1
<1>6. <<GetVertexForStop(db, s), 0>> \in S
  <2>1. PICK p : p = <<GetVertexForStop(db, s), 0>>
    OBVIOUS
  <2>2. p[1] = GetVertexForStop(db, s) /\ p[2] = 0
    BY <2>1
  <2>3. p \in Vertices \X Int
    BY <1>3, <2>1 DEF IsNetwork
  <2>4. ASSUME NEW t \in StopNames(db), p[1] = GetVertexForStop(db, t)
        PROVE  <<At(t), p[2]>> \in PassengerTrips(s)
    <3>1. t = s
      BY <1>5, <2>2, <2>4
    <3> QED
      BY <1>4, <2>2, <3>1 DEF ClosedUnder
  <2> QED
    BY <1>1, <2>1, <2>3, <2>4
<1>7. ASSUME NEW p \in S, NEW m \in RidesOfGraph, m[1] = p[1] PROVE <<m[2], p[2] + m[3]>> \in S
  <2>1. PICK q : q = <<m[2], p[2] + m[3]>>
    OBVIOUS
  <2>2. /\ p[2] \in Int
        /\ \A t \in StopNames(db) : p[1] = GetVertexForStop(db, t) => <<At(t), p[2]>> \in PassengerTrips(s)
    BY <1>1
  <2>3. q \in Vertices \X Int
    BY <1>3, <2>1, <2>2 DEF IsNetwork
  <2>4. PICK b, i, j : Rideable(db, b, i, j) /\ m = RideOf(b, i, j)
    BY GraphOfOffers
  <2>5. /\ m[1] = GetVertexForStop(db, BusOf(db, b).route[i])
        /\ m[2] = GetVertexForStop(db, BusOf(db, b).route[j])
        /\ m[3] = Price(b, i, j)
    BY <2>4 DEF RideOf, Price
  <2>6. b \in BusNames(db) /\ i \in DOMAIN BusOf(db, b).route
    BY <2>4 DEF Rideable
  <2>7. HasSeat(b, j) /\ j \in DOMAIN BusOf(db, b).route
    BY <1>2, <2>4, <2>6, RidesGoOn DEF HasSeat
  <2>8. BusOf(db, b).route[i] \in StopNames(db) /\ BusOf(db, b).route[j] \in StopNames(db)
    BY <1>2, <2>6, <2>7, StopsOfRoute
  <2>9. <<At(BusOf(db, b).route[i]), p[2]>> \in PassengerTrips(s)
    BY <1>7, <2>2, <2>5, <2>8
  <2>10. PICK u : u = <<<<b, j>>, p[2] + Price(b, i, j)>>
    OBVIOUS
  <2>11. u \in PassengerTrips(s)
    BY <1>2, <2>2, <2>4, <2>9, <2>10, SeatIsReached
  <2>12. PICK l : l = LeaveMove(b, j)
    OBVIOUS
  <2>13. l \in Moves /\ l[1] = u[1] /\ l[2] = At(BusOf(db, b).route[j]) /\ l[3] = 0
    BY <2>7, <2>10, <2>12, MovesAre DEF LeaveMove
  <2>14. <<l[2], u[2] + l[3]>> \in PassengerTrips(s)
    BY <1>4, <2>11, <2>13 DEF ClosedUnder
  <2>15. u[2] + l[3] = q[2]
    <3>1. Price(b, i, j) \in Int
      BY <1>2, <2>4, <2>6, PriceGoesOn
    <3>2. u[2] = p[2] + Price(b, i, j) /\ q[2] = p[2] + Price(b, i, j)
      BY <2>1, <2>5, <2>10
    <3> QED
      BY <2>2, <2>13, <3>1, <3>2
  <2>16. <<At(BusOf(db, b).route[j]), q[2]>> \in PassengerTrips(s)
    BY <2>13, <2>14, <2>15
  <2>17. ASSUME NEW t \in StopNames(db), q[1] = GetVertexForStop(db, t)
         PROVE  <<At(t), q[2]>> \in PassengerTrips(s)
    <3>1. q[1] = GetVertexForStop(db, BusOf(db, b).route[j])
      BY <2>1, <2>5
    <3>2. t = BusOf(db, b).route[j]
      BY <1>5, <2>8, <2>17, <3>1
    <3> QED
      BY <2>16, <3>2
  <2> QED
    BY <1>1, <2>1, <2>3, <2>17
<1>8. ClosedUnder(S, GetVertexForStop(db, s), RidesOfGraph)
  BY <1>6, <1>7 DEF ClosedUnder
<1>9. GraphTrips(s) \subseteq S
  BY <1>1, <1>8, TripsLeast DEF GraphTrips
<1>10. ASSUME NEW t \in StopNames(db), NEW c, <<GetVertexForStop(db, t), c>> \in GraphTrips(s)
       PROVE  <<At(t), c>> \in PassengerTrips(s)
  <2>1. PICK p : p = <<GetVertexForStop(db, t), c>>
    OBVIOUS
  <2>2. p \in S /\ p[1] = GetVertexForStop(db, t) /\ p[2] = c
    BY <1>9, <1>10, <2>1
  <2> QED
    BY <1>1, <2>2
<1> QED
  BY <1>10

\* Trips to stops are the same in the graph and for passengers.
LEMMA SameTrips ==
    ASSUME GraphInv, OfferInv, Done, NEW s \in StopNames(db), NEW t \in StopNames(db), NEW c
    PROVE  <<At(t), c>> \in PassengerTrips(s) <=> <<GetVertexForStop(db, t), c>> \in GraphTrips(s)
<1>1. ASSUME <<At(t), c>> \in PassengerTrips(s)
      PROVE  <<GetVertexForStop(db, t), c>> \in GraphTrips(s)
  <2>1. PICK p : p = <<At(t), c>>
    OBVIOUS
  <2>2. p[1] = At(t) /\ p[2] = c
    BY <2>1
  <2>3. ASSUME OnBus(s, p) PROVE FALSE
    <3>1. PICK b, i : p[1] = <<b, i>>
      BY <2>3 DEF OnBus
    <3>2. At(t) # <<b, i>>
      BY StopsAndSeats, Zenon
    <3> QED
      BY <2>2, <3>1, <3>2, Zenon
  <2>4. Arrived(s, p)
    BY <1>1, <2>1, <2>3, WalksAreRides
  <2>5. PICK u \in StopNames(db) : p[1] = At(u) /\ <<GetVertexForStop(db, u), p[2]>> \in GraphTrips(s)
    BY <2>4 DEF Arrived
  <2>6. u = t
    BY <2>2, <2>5, StopsAndSeats
  <2> QED
    BY <2>2, <2>5, <2>6
<1>2. ASSUME <<GetVertexForStop(db, t), c>> \in GraphTrips(s)
      PROVE  <<At(t), c>> \in PassengerTrips(s)
  BY <1>2, RidesAreWalks
<1> QED
  BY <1>1, <1>2

\* Where no edge is negative, no trip is.
LEMMA TripsCostNothingOrMore ==
    ASSUME GraphInv, OfferInv, Done, NEW s \in StopNames(db),
           \A k \in DOMAIN edges : edges[k].weight >= 0
    PROVE  NoneIsNegative(GraphTrips(s)) /\ NoneIsNegative(PassengerTrips(s))
<1>1. PICK S : S = {p \in Vertices \X Int : p[2] >= 0}
  OBVIOUS
<1>2. db \in Catalogue /\ Resolved(db)
  BY DEF GraphInv, RideTypeOK, OfferInv
<1>3. IsNetwork(Vertices, GetVertexForStop(db, s), RidesOfGraph) /\ IsNetwork(Places, At(s), Moves)
  BY <1>2, GraphIsNetwork, PassengersAreNetwork
<1>4. ASSUME NEW m \in RidesOfGraph PROVE m[3] >= 0
  <2>1. PICK k \in DOMAIN edges : m = <<edges[k].from, edges[k].to, edges[k].weight>>
    BY DEF RidesOfGraph
  <2>2. m[3] = edges[k].weight
    BY <2>1
  <2> QED
    BY <2>2
<1>5. <<GetVertexForStop(db, s), 0>> \in S
  BY <1>1, <1>3 DEF IsNetwork
<1>6. ASSUME NEW p \in S, NEW m \in RidesOfGraph, m[1] = p[1] PROVE <<m[2], p[2] + m[3]>> \in S
  <2>1. p[2] \in Int /\ p[2] >= 0
    BY <1>1
  <2>2. m[2] \in Vertices /\ m[3] \in Int /\ m[3] >= 0
    BY <1>3, <1>4 DEF IsNetwork
  <2>3. p[2] + m[3] \in Int /\ p[2] + m[3] >= 0
    BY <2>1, <2>2
  <2> QED
    BY <1>1, <2>2, <2>3
<1>7. ClosedUnder(S, GetVertexForStop(db, s), RidesOfGraph)
  BY <1>5, <1>6 DEF ClosedUnder
<1>8. GraphTrips(s) \subseteq S
  BY <1>1, <1>7, TripsLeast DEF GraphTrips
<1>9. NoneIsNegative(GraphTrips(s))
  BY <1>1, <1>8 DEF NoneIsNegative
<1>10. ASSUME NEW v, NEW c, <<v, c>> \in GraphTrips(s) PROVE c >= 0
  <2>1. PICK p : p = <<v, c>>
    OBVIOUS
  <2>2. p[2] = c /\ p \in S
    BY <1>8, <1>10, <2>1
  <2> QED
    BY <1>1, <2>2
<1>11. ASSUME NEW p \in PassengerTrips(s) PROVE p[2] >= 0
  <2>1. p[2] \in Int
    BY <1>3, TripsClosed DEF PassengerTrips
  <2>2. CASE Arrived(s, p)
    BY <1>10, <2>2 DEF Arrived
  <2>3. CASE OnBus(s, p)
    <3>1. PICK b, j : p[1] = <<b, j>>
      BY <2>3 DEF OnBus
    <3>2. <<GetVertexForStop(db, BusOf(db, b).route[j]), p[2]>> \in GraphTrips(s)
      BY <2>1, <2>3, <3>1, RiddenIsEdge
    <3> QED
      BY <1>10, <3>2
  <2> QED
    BY <2>2, <2>3, WalksAreRides
<1> QED
  BY <1>9, <1>11 DEF NoneIsNegative

\* The cheapest trips to stops are, too.
LEMMA SameCheapest ==
    ASSUME GraphInv, OfferInv, Done, NEW s \in StopNames(db)
    PROVE  {<<GetStopForVertex(db, p[1]), p[2]>> : p \in Cheapest(GraphTrips(s))}
           = {<<p[1][1], p[2]>> : p \in {q \in Cheapest(PassengerTrips(s)) : Len(q[1]) = 1}}
<1>1. PICK G, P, L, R :
        /\ G = GraphTrips(s) /\ P = PassengerTrips(s)
        /\ L = {<<GetStopForVertex(db, p[1]), p[2]>> : p \in Cheapest(GraphTrips(s))}
        /\ R = {<<p[1][1], p[2]>> : p \in {q \in Cheapest(PassengerTrips(s)) : Len(q[1]) = 1}}
  OBVIOUS
<1>2. db \in Catalogue /\ Resolved(db)
  BY DEF GraphInv, RideTypeOK, OfferInv
<1>3. G \in SUBSET (Vertices \X Int) /\ P \in SUBSET (Places \X Int)
  BY <1>1, <1>2, GraphIsNetwork, PassengersAreNetwork, TripsClosed DEF GraphTrips, PassengerTrips
<1>4. \A t \in StopNames(db) : \A c : <<At(t), c>> \in P <=> <<GetVertexForStop(db, t), c>> \in G
  BY <1>1, SameTrips
<1>5. ASSUME NEW t \in StopNames(db), NEW c
      PROVE  <<At(t), c>> \in Cheapest(P) <=> <<GetVertexForStop(db, t), c>> \in Cheapest(G)
  <2>1. PICK p, q : p = <<GetVertexForStop(db, t), c>> /\ q = <<At(t), c>>
    OBVIOUS
  <2>2. p[1] = GetVertexForStop(db, t) /\ q[1] = At(t) /\ p[2] = c /\ q[2] = c
    BY <2>1
  <2>3. ASSUME NEW r \in P, r[1] = At(t) PROVE <<GetVertexForStop(db, t), r[2]>> \in G
    <3>1. r = <<At(t), r[2]>>
      BY <1>3, <2>3
    <3> QED
      BY <1>4, <3>1
  <2>4. ASSUME NEW r \in G, r[1] = GetVertexForStop(db, t) PROVE <<At(t), r[2]>> \in P
    <3>1. r = <<GetVertexForStop(db, t), r[2]>>
      BY <1>3, <2>4
    <3> QED
      BY <1>4, <3>1
  <2>5. ASSUME q \in Cheapest(P) PROVE p \in Cheapest(G)
    <3>1. q \in P /\ \A r \in P : r[1] = At(t) => c <= r[2]
      BY <2>2, <2>5 DEF Cheapest
    <3>2. p \in G
      BY <1>4, <2>1, <3>1
    <3>3. ASSUME NEW r \in G, r[1] = GetVertexForStop(db, t) PROVE c <= r[2]
      <4>1. PICK u : u = <<At(t), r[2]>>
        OBVIOUS
      <4>2. u \in P /\ u[1] = At(t) /\ u[2] = r[2]
        BY <2>4, <3>3, <4>1
      <4>3. c <= u[2]
        BY <3>1, <4>2
      <4> QED
        BY <4>2, <4>3
    <3> QED
      BY <2>2, <3>2, <3>3 DEF Cheapest
  <2>6. ASSUME p \in Cheapest(G) PROVE q \in Cheapest(P)
    <3>1. p \in G /\ \A r \in G : r[1] = GetVertexForStop(db, t) => c <= r[2]
      BY <2>2, <2>6 DEF Cheapest
    <3>2. q \in P
      BY <1>4, <2>1, <3>1
    <3>3. ASSUME NEW r \in P, r[1] = At(t) PROVE c <= r[2]
      <4>1. PICK u : u = <<GetVertexForStop(db, t), r[2]>>
        OBVIOUS
      <4>2. u \in G /\ u[1] = GetVertexForStop(db, t) /\ u[2] = r[2]
        BY <2>3, <3>3, <4>1
      <4>3. c <= u[2]
        BY <3>1, <4>2
      <4> QED
        BY <4>2, <4>3
    <3> QED
      BY <2>2, <3>2, <3>3 DEF Cheapest
  <2> QED
    BY <2>1, <2>5, <2>6
<1>6. ASSUME NEW x \in L PROVE x \in R
  <2>1. PICK p \in Cheapest(G) : x = <<GetStopForVertex(db, p[1]), p[2]>>
    BY <1>1
  <2>2. p \in Vertices \X Int
    BY <1>3 DEF Cheapest
  <2>3. PICK t \in StopNames(db) : p[1] = GetVertexForStop(db, t)
    BY <2>2 DEF Vertices
  <2>4. p = <<GetVertexForStop(db, t), p[2]>>
    BY <2>2, <2>3
  <2>5. x = <<t, p[2]>>
    BY <1>2, <2>1, <2>3, StopOfVertex
  <2>6. PICK q : q = <<At(t), p[2]>>
    OBVIOUS
  <2>7. q \in Cheapest(P)
    BY <1>5, <2>4, <2>6
  <2>8. q[1] = At(t) /\ q[2] = p[2] /\ q[1][1] = t /\ Len(q[1]) = 1
    BY <2>6, StopsAndSeats
  <2>9. x = <<q[1][1], q[2]>>
    BY <2>5, <2>8
  <2> QED
    BY <1>1, <2>7, <2>8, <2>9
<1>7. ASSUME NEW x \in R PROVE x \in L
  <2>1. PICK q \in Cheapest(P) : Len(q[1]) = 1 /\ x = <<q[1][1], q[2]>>
    BY <1>1
  <2>2. q \in Places \X Int
    BY <1>3 DEF Cheapest
  <2>3. q[1] \notin Seats
    <3>1. ASSUME q[1] \in Seats PROVE FALSE
      <4>1. PICK b, i : q[1] = <<b, i>>
        BY <3>1, SeatsAre
      <4>2. Len(<<b, i>>) = 2
        BY SeatParts
      <4> QED
        BY <2>1, <4>1, <4>2
    <3> QED
      BY <3>1
  <2>4. PICK t \in StopNames(db) : q[1] = At(t)
    BY <2>2, <2>3 DEF Places
  <2>5. q = <<At(t), q[2]>>
    BY <2>2, <2>4
  <2>6. PICK p : p = <<GetVertexForStop(db, t), q[2]>>
    OBVIOUS
  <2>7. p \in Cheapest(G)
    BY <1>5, <2>5, <2>6
  <2>8. p[1] = GetVertexForStop(db, t) /\ p[2] = q[2]
    BY <2>6
  <2>9. GetStopForVertex(db, p[1]) = t
    BY <1>2, <2>8, StopOfVertex
  <2>10. x = <<GetStopForVertex(db, p[1]), p[2]>>
    <3>1. q[1][1] = t
      BY <2>4, StopsAndSeats
    <3> QED
      BY <2>1, <2>8, <2>9, <3>1
  <2> QED
    BY <1>1, <2>7, <2>10
<1>8. L = R
  BY <1>6, <1>7
<1> QED
  BY <1>1, <1>8

\* The finished graph serves passengers.
LEMMA FinishedGraphServes ==
    ASSUME GraphInv, OfferInv
    PROVE  GraphServesPassengers
<1> SUFFICES ASSUME Done, \A k \in DOMAIN edges : edges[k].weight >= 0, NEW s \in StopNames(db)
             PROVE  {<<GetStopForVertex(db, p[1]), p[2]>> :
                       p \in CheapestFrom(GetVertexForStop(db, s), RidesOfGraph, EvaluateVertexCount(db))}
                    = {<<p[1][1], p[2]>> :
                         p \in {q \in CheapestFrom(At(s), Moves, MostMoves) : Len(q[1]) = 1}}
  BY DEF GraphServesPassengers
<1>1. db \in Catalogue /\ Resolved(db)
  BY DEF GraphInv, RideTypeOK, OfferInv
<1>2. NoneIsNegative(GraphTrips(s)) /\ NoneIsNegative(PassengerTrips(s))
  BY TripsCostNothingOrMore
<1>3. CheapestFrom(GetVertexForStop(db, s), RidesOfGraph, EvaluateVertexCount(db)) = Cheapest(GraphTrips(s))
  <2>1. /\ IsNetwork(Vertices, GetVertexForStop(db, s), RidesOfGraph)
        /\ Cardinality(Vertices) <= EvaluateVertexCount(db) /\ EvaluateVertexCount(db) \in Nat
    BY <1>1, GraphIsNetwork, NumberOfStops
  <2> QED
    BY <1>2, <2>1, EnoughMoves DEF GraphTrips
<1>4. CheapestFrom(At(s), Moves, MostMoves) = Cheapest(PassengerTrips(s))
  <2>1. IsNetwork(Places, At(s), Moves) /\ Cardinality(Places) <= MostMoves /\ MostMoves \in Nat
    BY <1>1, PassengersAreNetwork
  <2> QED
    BY <1>2, <2>1, EnoughMoves DEF PassengerTrips
<1> QED
  BY <1>3, <1>4, SameCheapest

-----------------------------------------------------------------------------
(* Theorems *)

\* At every moment each edge of the graph is a ride of the bus noted at its
\* position, from one stop of the route to a later one and not past the turn,
\* at the price of the legs in between: for every catalogue.
THEOREM GraphStaysAligned == Spec => []EdgesAligned
<1>1. Spec => []GraphInv
  BY GraphInvInit, GraphInvNext, PTL DEF Spec
<1>2. GraphInv => EdgesAligned
  BY DEF GraphInv
<1> QED
  BY <1>1, <1>2, PTL

\* The graph offers every ride of every bus once, at the price of its
\* distances, and nothing else: for every catalogue.
THEOREM GraphAlwaysIsOffers == Spec => []GraphIsOffers
<1>1. Init => GraphInv /\ OfferInv
  BY GraphInvInit, OfferInvInit
<1>2. GraphInv /\ OfferInv /\ [Next]_vars => (GraphInv /\ OfferInv)'
  BY GraphInvNext, OfferInvNext
<1>3. GraphInv /\ OfferInv => GraphIsOffers
  <2> SUFFICES ASSUME GraphInv, OfferInv PROVE GraphIsOffers
    OBVIOUS
  <2>1. /\ db \in Catalogue /\ AtPlace(db, buses, from_at, to_at)
        /\ Printed = OfferedSoFar(db, buses, from_at, to_at)
    BY DEF GraphInv, RideTypeOK, OfferInv
  <2>2. IsPrefix(Printed, Offers(db)) /\ (buses = <<>> => Printed = Offers(db))
    BY <2>1, OfferedPrefix
  <2> QED
    BY <2>2 DEF GraphIsOffers, Done
<1> QED
  BY <1>1, <1>2, <1>3, PTL DEF Spec

\* Travelling along the edges of the finished graph costs what it costs a
\* passenger who boards, rides stop by stop and changes: for every catalogue
\* whose graph the router takes.
THEOREM GraphAlwaysServesPassengers == Spec => []GraphServesPassengers
<1>1. Init => GraphInv /\ OfferInv
  BY GraphInvInit, OfferInvInit
<1>2. GraphInv /\ OfferInv /\ [Next]_vars => (GraphInv /\ OfferInv)'
  BY GraphInvNext, OfferInvNext
<1>3. GraphInv /\ OfferInv => GraphServesPassengers
  BY FinishedGraphServes
<1> QED
  BY <1>1, <1>2, <1>3, PTL DEF Spec
=============================================================================
