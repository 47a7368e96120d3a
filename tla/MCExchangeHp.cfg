CONSTANTS
    NInit = 2
    LongInit = {1}
    LongData = {}
    SessionSurvivesReset = TRUE
    MaxResets = 2
    WriteTries = 4
    ReplyReads = 4
    HpResume = TRUE
    Recover = FALSE
    AmbiguousWrite = FALSE
    MaxCmds = 3
    MaxFaults = 3
    MaxLate = 1
SPECIFICATION Spec
INVARIANTS SendLockstep
