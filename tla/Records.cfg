SPECIFICATION RecordsSpec
CONSTANTS
    Houses = {review, bug}
    Remote = {review}
    Registered = {codex, gone}
    Dropped = {gone}
    Profiles = {cloud}
    MaxPublished = 1
    MaxRuntimes = 2
    MaxChoices = 2
    MaxDispatches = 2
    MaxRestarts = 1
    GitHub = {g1}
    Slack = {s1}
    Actions = {"claim"}
    Callers = {c1, c2}
    PageSize = 1
    MaxRequests = 2
    MaxEdits = 1
    MaxFunnelFaults = 1
    MaxClock = 2
    MaxEvents = 2
    MaxFaults = 1
INVARIANTS SettingsHold FunnelsHold NothingForgotten
CHECK_DEADLOCK FALSE
