SPECIFICATION RSpec
CONSTANTS
    Recorder = {r1, r2}
    NoRecorder = NoRecorder
    MaxSecond = 1
    MaxSuffix = 1
    MayCrash = TRUE
    MayFail = TRUE
INVARIANTS
    RTypeOK
    CapsuleIsOwn
    NoTemporaryLeft
PROPERTIES
    RecorderEnds
    NeverOverwrites
    CrashKeepsTheRecording
CHECK_DEADLOCK FALSE
