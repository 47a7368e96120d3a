CONSTANTS
    Modes = {TRUE}
    Once = FALSE
    SkipLatch = FALSE
    MaxWindows = 2
    MaxOpens = 1
    MaxScans = 1
    MaxFaults = 2
    MaxCrashes = 0
SPECIFICATION FairSpec
PROPERTIES SessionRebuilt
