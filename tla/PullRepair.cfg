SPECIFICATION Spec
CONSTANTS
    FromTown = TRUE
    Modes = {"auto"}
    MergePolicy = "manual"
    MaxCycles = 5
    Quiet = FALSE
    Cancels = FALSE
    Conditions = FALSE
    MaxHeads = 3
    MaxEvents = 1
    MaxFaults = 0
    MaxCrashes = 1
    MaxRetries = 1
INVARIANTS TypeOK CommitsAreValid RepairsAreCounted
PROPERTIES HeadNeverRegresses
CHECK_DEADLOCK FALSE
