---------------------------- MODULE MCBaseLoader ----------------------------
(* Documents for BaseLoader: every array of at most MaxRequests of these. *)
EXTENDS BaseLoader

CONSTANT MaxRequests  \* bound on the length of base_requests

Dict(keys, distance(_)) ==
    [s \in StopName |-> IF s \in keys THEN distance(s) ELSE NoEntry]

\* Stops 1 and 2, and 1 once more elsewhere and with another distance; 2
\* names stops 3 and 4, which no request declares.
SomeStops ==
    {[type |-> "Stop", name |-> 1, at |-> "here", road_distances |-> Dict({2}, LAMBDA s : 5)],
     [type |-> "Stop", name |-> 1, at |-> "there", road_distances |-> Dict({1, 2}, LAMBDA s : 7)],
     [type |-> "Stop", name |-> 2, at |-> "here",
      road_distances |-> Dict({1, 3, 4}, LAMBDA s : s + 5)]}

\* Two buses called 1 and others of every shape, some calling at stop 3.
SomeBuses ==
    {[type |-> "Bus", name |-> 1, stops |-> <<1, 2>>, is_roundtrip |-> FALSE],
     [type |-> "Bus", name |-> 1, stops |-> <<2, 1, 2>>, is_roundtrip |-> TRUE],
     [type |-> "Bus", name |-> 2, stops |-> <<3, 1>>, is_roundtrip |-> FALSE],
     [type |-> "Bus", name |-> 2, stops |-> <<2, 3>>, is_roundtrip |-> TRUE],
     [type |-> "Bus", name |-> 3, stops |-> <<>>, is_roundtrip |-> FALSE]}

Documents ==
    UNION {[1 .. n -> SomeStops \cup SomeBuses \cup OtherRequest] : n \in 0 .. MaxRequests}
=============================================================================
