\* The constructor has returned when no bus is left.
SPECIFICATION Spec
CHECK_DEADLOCK FALSE
CONSTANTS
    StopName = {1, 2, 3}
    BusName = {1, 2}
    Position = {"here"}
    NoEntry = NoEntry
    RequestLists <- Documents
    Catalogues <- Loaded
    BusWaitTime = 2
    NormalVelocity = 3
INVARIANTS
    GraphIsOffers
    EdgesAligned
    GraphServesPassengers
