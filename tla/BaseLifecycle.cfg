SPECIFICATION Spec
CONSTANTS
    StopName = {1, 2, 3, 4}
    BusName = {1, 2}
    Position = {1, 2, 3, 4}
    NoEntry = NoEntry
    NoRoute = NoRoute
    Drawing = Drawing
    NoDrawing = NoDrawing
    WordSize = 64
    Garbage = Garbage
    RequestLists = {}
    Bases <- SomeBases
    StatDocuments <- SomeStatDocuments
INVARIANTS
    CutFileIsConsistent
    FailureLeavesFile
    RoundTrip
    NeverMisroutes
    OnlyTornEntryMisleads
    CompleteBaseAnswers
