\* Every simple graph of three vertices.
SPECIFICATION Spec
CONSTANTS
    VertexCount = 3
    EdgeLists <- SimpleGraphs
    Weights = {0, 1, 3}
    MaxEdges = 0
    NoRoute = NoRoute
    MaxHops = 4
INVARIANTS
    RouterInv
    OptimalityCertificate
    HopExists
    ChainConnected
