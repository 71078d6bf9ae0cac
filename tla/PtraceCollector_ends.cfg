SPECIFICATION CSpec
CONSTANTS
    Pid = {root, p1}
    Root = root
    NoPid = NoPid
    MaxCommand = 2
    MaxClock = 1
    ClockMayStepBack = FALSE
    Exe = {}
    NoExe = NoExe
    Fd = {}
    AT_FDCWD = AT_FDCWD
    Path = {"/"}
    Slash = "/"
    StartDir = "/"
    Rel = {"a"}
    Unresolved = "/"
    Join <- MCJoin
    Endpoint = {}
    NoEndpoint = NoEndpoint
    MayKill = TRUE
    MayThread = FALSE
    Clone3 = FALSE
    MayInterrupt = TRUE
    HistoryMayBeEmpty = TRUE
INVARIANTS
    NoTraceeLeft
PROPERTIES
    CollectReturns
    CallsAreSpecified
CHECK_DEADLOCK FALSE
