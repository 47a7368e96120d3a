CONSTANTS
    Recorded <- MCRecorded
    StepAt <- MCStepAt
    Values <- MCValues
    Target = 3
    D = 1
    Slices <- MCSlices
    Prepare <- MCPrepare
    Window <- MCWindow
    Finish <- MCFinish
    None = None
SPECIFICATION Spec
INVARIANTS TypeOK SentAsChosen
