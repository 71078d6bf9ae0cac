SPECIFICATION Spec
CONSTANTS
    Pid = {root, p1}
    Root = root
    NoPid = NoPid
    MaxCommand = 2
    MaxClock = 2
    ClockMayStepBack = FALSE
    Exe = {}
    NoExe = NoExe
    Fd = {f3}
    AT_FDCWD = AT_FDCWD
    Path = {"/"}
    Slash = "/"
    StartDir = "/"
    Rel = {"sub"}
    Unresolved = "/"
    Join <- MCJoin
    Endpoint = {endpoint}
    NoEndpoint = NoEndpoint
VIEW MCView
INVARIANTS
    TypeOK
    RootCommandSync
    CommandsBracketed
    CommandStartIsEarliest
PROPERTIES
    BackgroundStaysAttributed
    PromptIsUnattributed
    ImplementsEventStream
CHECK_DEADLOCK FALSE
