\* Parallel edges, loops and negative weights.  A negative weight ends the
\* program (domain_error), so it may stop.
SPECIFICATION Spec
CHECK_DEADLOCK FALSE
CONSTANTS
    VertexCount = 3
    EdgeLists <- MultiGraphs
    Weights <- SignedWeights
    MaxEdges = 2
    NoRoute = NoRoute
    MaxHops = 4
INVARIANTS
    NoNegativeRouter
    AnswersAreShortest
PROPERTIES
    PivotStable
    WalkEnds
