SPECIFICATION TownSpec
CONSTANTS
    Notices = {n1, n2}
    MaxNeeds = 3
    MaxLosses = 3
    Houses = {issue, review}
    MaxAttempts = 1
    MaxMinutes = 2
    MaxLimit = 2
    MaxPeriod = 1
    MaxStarts = 6
    MinutesPerDay = 3
    DaysPerWeek = 2
    Offsets <- QuietOffsets
    Shifts <- NearShifts
    FirstInstant = 6
    LastInstant = 12
    BotFiles = {f1}
    OwnFiles = {o1}
    Worktrees = {w1}
    Gateways = FALSE
    MaxContent = 2
    MaxCleanups = 2
    MaxStoreFaults = 2
    Issues = {i1}
    Pulls = {p1}
    ListPage = 1
    Overlap = 1
    Day = 3
    Skews <- NearShifts
    MaxTime = 3
    MaxChanges = 3
    MaxInvFaults = 1
    Runs = {r1, r2}
    Refreshers = {q1, q2}
    Files = {command, library}
    Command = command
    Unusable = {1}
    Siblings = {credentials}
    MaxVersions = 1
    MaxLaunches = 3
    MaxHarnessFaults = 1
CONSTRAINT OwnAlone
INVARIANTS HarnessHolds AttentionHolds QuietHolds OvershootBounded CleanupHolds UnseenIsAhead
PROPERTIES StepsHold
CHECK_DEADLOCK FALSE
