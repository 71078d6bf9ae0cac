SPECIFICATION CSpec
CONSTANTS
    Pid = {root, p1, p2}
    Root = root
    NoPid = NoPid
    MaxCommand = 1
    MaxClock = 1
    ClockMayStepBack = FALSE
    Exe = {}
    NoExe = NoExe
    Fd = {}
    AT_FDCWD = AT_FDCWD
    Path = {"/"}
    Slash = "/"
    StartDir = "/"
    Rel = {"a"}
    Unresolved = "/"
    Join <- MCJoin
    Endpoint = {}
    NoEndpoint = NoEndpoint
    MayKill = FALSE
    MayThread = TRUE
    Clone3 = FALSE
    MayInterrupt = FALSE
    HistoryMayBeEmpty = FALSE
SYMMETRY MCSymmetry
VIEW MCView
INVARIANTS
    CTypeOK
    PhaseAgrees
    RightCommandOrNone
    NoThrow
    ThreadsShareAnEntry
PROPERTIES
    ExactUnlessOvertaken
CHECK_DEADLOCK FALSE
