SPECIFICATION Spec
CONSTANTS
    Bots = {b1, b2}
    Attempts = 1
    None = None
    MaxFaults = 1
    MaxEvents = 1
SYMMETRY Symmetry
INVARIANTS ClaimsHold RecordsAreTrue
CHECK_DEADLOCK FALSE
