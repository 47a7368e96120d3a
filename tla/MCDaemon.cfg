CONSTANTS
    Modes = {TRUE, FALSE}
    Once = FALSE
    SkipLatch = FALSE
    MaxWindows = 3
    MaxOpens = 2
    MaxScans = 2
    MaxFaults = 2
    MaxCrashes = 1
SPECIFICATION FairSpec
INVARIANTS TypeOK NoImageAcrossOpenings IdleSensorStaysIdle LedMeansImaging
PROPERTIES RequestGetsWindow RequestEnds
