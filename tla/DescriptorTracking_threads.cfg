SPECIFICATION DSpec
CONSTANTS
    Pid = {root, p1, p2}
    Root = root
    NoPid = NoPid
    MaxCommand = 1
    MaxClock = 1
    ClockMayStepBack = FALSE
    Exe = {}
    NoExe = NoExe
    Fd = {f3, f4}
    AT_FDCWD = AT_FDCWD
    Path = {"/", "/sub"}
    Slash = "/"
    StartDir = "/"
    Rel = {"sub", "."}
    Unresolved = Unresolved
    Join <- MCJoin
    Endpoint = {endpoint}
    NoEndpoint = NoEndpoint
    MayThread = TRUE
    Inherited <- MCInherited
    MaxSteps = 4
SYMMETRY MCSymmetry
VIEW MCView
INVARIANTS
    DTypeOK
    TablesAgree
PROPERTIES
    EventsNameTheFile
CHECK_DEADLOCK FALSE
