SPECIFICATION Spec
CONSTANTS
    Shells = {shell}
    MaxProcs = 3
    MaxCrashes = 2
    Slow = TRUE
INVARIANT SingleWriter
