SPECIFICATION Spec
CONSTANTS
    FromTown = TRUE
    Modes = {"auto"}
    MergePolicy = "manual"
    MaxCycles = 5
    Quiet = FALSE
    Cancels = FALSE
    Conditions = FALSE
    MaxHeads = 2
    MaxEvents = 1
    MaxFaults = 0
    MaxCrashes = 0
    MaxRetries = 0
INVARIANTS RetiredAfterTwoTries
CHECK_DEADLOCK FALSE
