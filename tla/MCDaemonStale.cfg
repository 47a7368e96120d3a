CONSTANTS
    Modes = {TRUE}
    Once = FALSE
    SkipLatch = FALSE
    MaxWindows = 2
    MaxOpens = 1
    MaxScans = 2
    MaxFaults = 0
    MaxCrashes = 0
SPECIFICATION Spec
INVARIANTS NoStaleImage
