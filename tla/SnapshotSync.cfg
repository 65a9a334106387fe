SPECIFICATION FairSpec
CONSTANTS
    PRs = {1, 2}
    Procs = {server, cli}
    None = None
    MaxHead <- Pushes
    Unversioned <- Hidden
    Limits = {0, 1}
    PageSize = 1
    MAX_RECONCILIATION_ROUNDS = 2
    MaxPublished = 2
INVARIANTS TypeOK BareOnlyIfMoving MissedOnlyByShift
PROPERTIES ImplementsCache SyncEnds
CHECK_DEADLOCK FALSE
