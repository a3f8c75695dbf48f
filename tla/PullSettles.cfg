SPECIFICATION FairSpec
CONSTANTS
    FromTown = TRUE
    Modes = {"auto", "suggest"}
    MergePolicy = "all"
    MaxCycles = 5
    Quiet = FALSE
    Cancels = FALSE
    Conditions = TRUE
    MaxHeads = 2
    MaxEvents = 0
    MaxFaults = 1
    MaxCrashes = 1
    MaxRetries = 0
PROPERTIES PullSettles
CHECK_DEADLOCK FALSE
