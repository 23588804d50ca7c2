----------------------------- MODULE Passengers -----------------------------
(***************************************************************************)
(* A passenger's view of a catalogue, to compare the graph of RouteGraph   *)
(* with: he boards a bus, rides on stop by stop, and leaves it.            *)
(***************************************************************************)
EXTENDS RouteGraph

\* Of the trips <<place, cost>>, those that no other to their place undercuts.
Cheapest(trips) == {p \in trips : \A q \in trips : q[1] = p[1] => p[2] <= q[2]}

\* Those trips, and those that go on by one of the moves <<from, to, cost>>.
Onward(trips, moves) ==
    trips \cup UNION {{<<m[2], p[2] + m[3]>> : m \in {n \in moves : n[1] = p[1]}} : p \in trips}

\* Reference: the places one can get to from start, each with its least cost,
\* by at most n moves.
CheapestFrom(start, moves, n) ==
    LET best[k \in 0 .. n] ==
          IF k = 0 THEN {<<start, 0>>}
          ELSE Cheapest(Onward(best[k - 1], moves))
    IN  best[n]

\* A passenger stands at stop s, <<s>>, or sits in bus b having arrived at
\* position i, <<b, i>>.
At(s) == <<s>>
Seats == UNION {{<<b, i>> : i \in DOMAIN BusOf(db, b).route} : b \in BusNames(db)}
Leg(b, i) == GetDistance(db, BusOf(db, b).route[i], BusOf(db, b).route[i + 1])

\* He boards, rides on and leaves.  Everybody gets out where a bus turns that
\* is not a roundtrip.
Moves ==
    LET stop(t) == At(BusOf(db, t[1]).route[t[2]])
        next(t) == <<t[1], t[2] + 1>>
        going == {t \in Seats : next(t) \in Seats}
        stays(t) == BusOf(db, t[1]).is_roundtrip \/ t[2] # Middle(BusOf(db, t[1]))
    IN  {<<stop(t), next(t), WaitingTime + Leg(t[1], t[2])>> : t \in going}
        \cup {<<t, next(t), Leg(t[1], t[2])>> : t \in {u \in going : stays(u)}}
        \cup {<<t, stop(t), 0>> : t \in Seats}

\* No cheapest trip passes a stop or a seat twice.
MostMoves == EvaluateVertexCount(db) + Cardinality(Seats)

RidesOfGraph == {<<edges[k].from, edges[k].to, edges[k].weight>> : k \in DOMAIN edges}

\* Travelling along the edges costs what it costs a passenger who boards,
\* rides stop by stop and changes: the graph loses no connection and adds
\* none, if it is one that the router takes, without a negative edge.
GraphServesPassengers ==
    Done /\ (\A k \in DOMAIN edges : edges[k].weight >= 0) =>
        LET rides == RidesOfGraph
            walks == Moves
            most == MostMoves
        IN  \A s \in StopNames(db) :
              {<<GetStopForVertex(db, p[1]), p[2]>> :
                 p \in CheapestFrom(GetVertexForStop(db, s), rides, EvaluateVertexCount(db))}
              = {<<p[1][1], p[2]>> :
                   p \in {q \in CheapestFrom(At(s), walks, most) : Len(q[1]) = 1}}
=============================================================================
