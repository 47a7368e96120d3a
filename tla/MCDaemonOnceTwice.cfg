CONSTANTS
    Modes = {TRUE}
    Once = TRUE
    SkipLatch = FALSE
    MaxWindows = 2
    MaxOpens = 1
    MaxScans = 2
    MaxFaults = 2
    MaxCrashes = 0
SPECIFICATION Spec
INVARIANTS OnceFeedsOne
