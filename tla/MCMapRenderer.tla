--------------------------- MODULE MCMapRenderer ---------------------------
(***************************************************************************)
(* Catalogues to draw, those BaseLoader makes of documents: two stops of   *)
(* two buses and one without, anywhere around the equator and Greenwich;   *)
(* and two buses with any routes over three stops that stay where they are.*)
(***************************************************************************)
EXTENDS MapRenderer, BaseRequests

Places == [latitude : {-2, 0, 1}, longitude : {-1, 0, 2}]

Unknown == [s \in StopName |-> NoEntry]
StopAt(s, place) == [type |-> "Stop", name |-> s, at |-> place, road_distances |-> Unknown]
BusOn(b, stops, round) == [type |-> "Bus", name |-> b, stops |-> stops, is_roundtrip |-> round]

Stops(places) == [s \in 1 .. 3 |-> StopAt(s, places[s])]

OnePlan == <<BusOn(2, <<2, 1>>, FALSE), BusOn(1, <<>>, TRUE)>>
OneLandscape ==
    <<[latitude |-> 1, longitude |-> 0], [latitude |-> 0, longitude |-> 2],
      [latitude |-> -2, longitude |-> -1]>>

SomeLists == {<<>>, <<1>>, <<1, 2>>, <<2, 1, 2>>, <<3, 3, 1>>, <<1, 3, 1>>}
Plans == {<<BusOn(2, a, r), BusOn(1, b, q)>> :
            <<a, b, r, q>> \in SomeLists \X SomeLists \X BOOLEAN \X BOOLEAN}

Landscapes == {Declared(Stops(places) \o OnePlan) : places \in [1 .. 3 -> Places]}
Networks == {Declared(Stops(OneLandscape) \o plan) : plan \in Plans}

Drawable == Landscapes \cup Networks
=============================================================================
