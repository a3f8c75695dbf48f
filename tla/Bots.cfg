SPECIFICATION BotsSpec
CONSTANTS
    MaxRepairs = 2
    MaxCommits = 3
    MaxBranchMoves = 2
    MaxCheckReports = 2
    MaxReads = 6
    MaxHealthFaults = 2
    MaxProposals = 3
    MaxHeads = 3
    MaxScans = 5
    MaxScanFaults = 3
    MaxSends = 3
    MaxNetFaults = 2
    MaxSessions = 3
    DispatchLimit = 2
    MaxWork = 1
    MaxTouches = 1
    MaxManagedFaults = 2
    Revisions = {1, 2}
    ReviewTries = 2
    MaxReviewMoves = 2
    MaxTalk = 1
    MaxReviewFaults = 2
    MaxPolls = 3
    ReleaseAttempts = 2
    MaxTrunk = 3
    MaxTags = 4
    MaxReleaseRuns = 4
    MaxUpsets = 2
    Programs = {"bug", "feature"}
    MaxRequests = 2
    Attempts = 2
    Refreshes = 2
    FinderVerdicts = {"duplicate"}
    MaxMoves = 2
    MaxEdits = 1
    MaxFaults = 2
    MaxRuns = 2
    Questions = {Q1, Q2}
    People = {P1, P2}
    KeptTurns = 1
    MaxMoods = 3
    MaxRestarts = 1
    Q1 = Q1
    Q2 = Q2
    P1 = P1
    P2 = P2
INVARIANTS DoneOnce RunHolds ManagedHolds AttemptsAreSpent FiledOnce ReviewHolds
PROPERTIES StepsHold
CONSTRAINT FewUpsets
CHECK_DEADLOCK FALSE
