SPECIFICATION CSpec
CONSTANTS
    Pid = {root, p1}
    Root = root
    NoPid = NoPid
    MaxCommand = 1
    MaxClock = 1
    ClockMayStepBack = FALSE
    Exe = {}
    NoExe = NoExe
    Fd = {}
    AT_FDCWD = AT_FDCWD
    Path = {"/"}
    Slash = "/"
    StartDir = "/"
    Rel = {"a"}
    Unresolved = "/"
    Join <- MCJoin
    Endpoint = {}
    NoEndpoint = NoEndpoint
    MayKill = FALSE
    MayThread = FALSE
    Clone3 = FALSE
    MayInterrupt = FALSE
    HistoryMayBeEmpty = FALSE
INVARIANTS
    ExactAttribution
CHECK_DEADLOCK FALSE
