\* Loading is finished in phase "done".
SPECIFICATION Spec
CHECK_DEADLOCK FALSE
CONSTANTS
    StopName = {1, 2, 3, 4}
    BusName = {1, 2, 3}
    Position = {"here", "there"}
    NoEntry = NoEntry
    RequestLists <- Documents
    MaxRequests = 4
INVARIANTS
    LoaderInv
    IndexMirrorsRoutes
    RoutesWellFormed
PROPERTIES
    LoadsWhatIsDeclared
