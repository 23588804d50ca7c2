\* Up to four rides between three stops, then no more are added.
SPECIFICATION Spec
CHECK_DEADLOCK FALSE
CONSTANTS
    VertexCount = 3
    Rides <- MCRides
    MaxEdges = 4
    NoRoute = NoRoute
INVARIANTS
    UntimedRoutesLead
