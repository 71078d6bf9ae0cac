SPECIFICATION RSpec
CONSTANTS
    Recorder = {r1, r2}
    NoRecorder = NoRecorder
    MaxSecond = 1
    MaxSuffix = 2
    MayCrash = FALSE
    MayFail = FALSE
SYMMETRY MCSymmetry
INVARIANTS
    RecordingIsPublished
CHECK_DEADLOCK FALSE
