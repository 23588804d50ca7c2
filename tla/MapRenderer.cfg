\* Rendering is finished in layer "done".
SPECIFICATION Spec
CHECK_DEADLOCK FALSE
CONSTANTS
    StopName = {1, 2, 3}
    BusName = {1, 2}
    Position <- Places
    NoEntry = NoEntry
    RequestLists = {}
    Catalogues <- Drawable
    PaletteSize = 2
    Width = 12
    Height = 9
    Padding = 1
    Largest = 100
INVARIANTS
    ColoursAgree
    TerminalsLabelled
    OnCanvas
    FillsFrame
    StopsOfLines
