---------------------------- MODULE MCRouteGraph ----------------------------
(***************************************************************************)
(* Catalogues for RouteGraph: those BaseLoader makes of documents with two *)
(* buses.                                                                  *)
(***************************************************************************)
EXTENDS Passengers, BaseRequests

Dict(given) ==
    [s \in StopName |-> IF s \in {g[1] : g \in given}
                        THEN (CHOOSE g \in given : g[1] = s)[2] ELSE NoEntry]

\* Declared out of name order; one pair has both directions, one none; one
\* distance is negative, but no ride is, for the time one waits.
SomeStops ==
    <<[type |-> "Stop", name |-> 2, at |-> "here", road_distances |-> Dict({<<1, 4>>, <<2, -1>>})],
      [type |-> "Stop", name |-> 3, at |-> "here", road_distances |-> Dict({<<2, 3>>})],
      [type |-> "Stop", name |-> 1, at |-> "here", road_distances |-> Dict({<<2, 7>>})]>>

\* Routes through up to three of the stops, repeated or not.
SomeLists ==
    {<<>>, <<1>>, <<1, 2>>, <<1, 1>>, <<2, 1, 3>>, <<1, 2, 1>>, <<3, 1>>, <<3, 2, 2, 1>>,
     <<1, 2, 3, 1>>, <<2, 2, 2>>, <<1, 3, 2, 3>>}

SomeBuses(names) ==
    [type : {"Bus"}, name : names, stops : SomeLists, is_roundtrip : BOOLEAN]

Documents ==
    {SomeStops \o <<b, c>> : b \in SomeBuses({2}), c \in SomeBuses({1})}

Loaded == {Declared(rs) : rs \in Documents}
=============================================================================
