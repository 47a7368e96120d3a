CONSTANTS
    NInit = 2
    LongInit = {1}
    LongData = {1}
    SessionSurvivesReset = FALSE
    MaxResets = 2
    WriteTries = 4
    ReplyReads = 4
    HpResume = FALSE
    Recover = TRUE
    AmbiguousWrite = FALSE
    MaxCmds = 2
    MaxFaults = 0
    MaxLate = 1
SPECIFICATION Spec
PROPERTIES SurvivesReplies
