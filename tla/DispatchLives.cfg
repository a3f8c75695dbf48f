SPECIFICATION FairSpec
CONSTANTS
    Towns = {t1}
    Agents = {review,issue}
    Repo = repo
    Review = review
    Issue = issue
    Hall = hall
    Tasks = {}
    None = None
    Taskless = Taskless
    Inventory = Inventory
    MaxLimit = 1
    MaxCrashes = 1
    MaxCommands = 1
    Faults = {"final", "gate"}
    Panics = {"picked", "applying"}
INVARIANTS RepoRunHasHolder
ACTION_CONSTRAINT OneUpset
PROPERTIES RunSettles CanceledRunEnds
CONSTRAINT OneAgent
CHECK_DEADLOCK FALSE
