SPECIFICATION Spec
CONSTANTS
    Stoi <- MCStoi
    Stod <- MCStod
    Pieces <- MCPieces
    MaxPieces = 6
    Documents <- MCDocuments
    Blanks <- MCBlanks
    Nothing = Nothing
INVARIANTS
    JsonIsLoaded
    OnlyCommasAreLoose
    CutTextIsRefused
    PrintLoadsBack
CHECK_DEADLOCK FALSE
