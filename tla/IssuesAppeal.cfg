SPECIFICATION Spec
CONSTANTS
    Numbers = {1, 2}
    MaxIntake = 1
    Requests = {r1}
    Filed = {"outside", "simplifier"}
    Modes = {"auto", "suggest"}
    MaxPulls = 1
    MaxEvents = 2
    MaxFaults = 1
    NoTask = NoTask
    Nobody = Nobody
INVARIANTS ReopenIsAppeal
CHECK_DEADLOCK FALSE
