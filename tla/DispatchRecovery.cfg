SPECIFICATION Spec
CONSTANTS
    Towns = {t1}
    Agents = {issue, hall}
    Repo = repo
    Review = review
    Issue = issue
    Hall = hall
    Tasks = {k1}
    None = None
    Taskless = Taskless
    Inventory = Inventory
    MaxLimit = 2
    MaxCrashes = 1
    MaxCommands = 2
    Faults = {}
    Panics = {}
INVARIANTS TypeOK LostWorkHeld BusyStatusIsTrue CleanupAlone
PROPERTIES NoBlindResend SlotsRespectLimit
CONSTRAINT HallRests
ACTION_CONSTRAINT Within
CHECK_DEADLOCK FALSE
