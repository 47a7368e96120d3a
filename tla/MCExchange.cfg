CONSTANTS
    NInit = 2
    LongInit = {1}
    LongData = {1}
    SessionSurvivesReset = FALSE
    MaxResets = 2
    WriteTries = 2
    ReplyReads = 4
    HpResume = FALSE
    Recover = TRUE
    AmbiguousWrite = TRUE
    MaxCmds = 2
    MaxFaults = 1
    MaxLate = 1
SPECIFICATION FairSpec
INVARIANTS TypeOK ChannelInv SessionAgreed SendLockstep NoCommandLost ReceiveAligned
PROPERTIES ImplementsChannel SendReturns
