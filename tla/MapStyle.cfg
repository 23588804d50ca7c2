SPECIFICATION Spec
CONSTANTS
    Documents <- MCDocuments
    Absent = Absent
    Buses = 4
    ByteSize = 16
    WordSize = 64
    Part = "r"
INVARIANTS
    SettingsSurvive
    MapAsStated
CHECK_DEADLOCK FALSE
