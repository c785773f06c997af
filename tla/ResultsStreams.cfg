SPECIFICATION FairSpec
CONSTANTS
    MaxCommits = 2
    MaxFaults = 1
    MaxLoads = 2
    MaxRequests = 2
    BatchSize = 2
    MaxAttempts = 2
    MaxReplay = 1
    MaxPending = 1
    MaxReconnects = 2
CHECK_DEADLOCK FALSE
INVARIANTS
    QuietPagesAreCurrent
    CompleteResultsCoverTheClosing
PROPERTIES
    PageCatchesUp
