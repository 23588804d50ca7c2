\* Routes of up to three edges, put together from two rounds; zero weights.
SPECIFICATION Spec
CONSTANTS
    VertexCount = 4
    EdgeLists <- RingGraphs
    Weights = {0, 2}
    MaxEdges = 0
    NoRoute = NoRoute
    MaxHops = 5
INVARIANTS
    AnswersAreShortest
    AnswersAddUp
