SPECIFICATION Spec
CONSTANTS
    FromTown = TRUE
    Modes = {"auto", "suggest"}
    MergePolicy = "all"
    MaxCycles = 5
    Quiet = TRUE
    Cancels = TRUE
    Conditions = TRUE
    MaxHeads = 2
    MaxEvents = 1
    MaxFaults = 1
    MaxCrashes = 0
    MaxRetries = 0
INVARIANTS MergedHeadCertified ClosesOnlyItsOwn
PROPERTIES IntakeDecides
CHECK_DEADLOCK FALSE
