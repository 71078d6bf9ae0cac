SPECIFICATION WSpec
CONSTANTS
    Pid = {root, p1}
    Root = root
    MaxCommand = 2
    MaxClock = 2
    ClockMayStepBack = FALSE
    Thing <- MCThing
    Activity <- MCActivity
    Text = {ls}
    Exe = {bash}
    NoExe = NoExe
    Null = Null
    MaxRows = 3
VIEW MCView
INVARIANTS
    WTypeOK
    EmitNeverThrows
    ReportsAddUp
    LastErrnoAgrees
    TimelineOpensWithStart
    ProcessesAreCounted
    IncompleteMeansRunning
    OnlyFinishedRunsAreShown
PROPERTIES
    EndedCommandsAreFinal
    DiffLeadsThere
CHECK_DEADLOCK FALSE
