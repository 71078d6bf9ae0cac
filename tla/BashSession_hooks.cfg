SPECIFICATION BSpec
CONSTANTS
    MaxCommand = 3
    MaxField = 3
    LineSize = {3, 4}
    Fd = {1, 10, 11}
    Stdout = 1
    Context = 10
INVARIANTS
    BTypeOK
    HeardIffWritten
    StartNamesTheLine
PROPERTIES
    ImplementsMarkers
    LinesAreClosed
CHECK_DEADLOCK FALSE
