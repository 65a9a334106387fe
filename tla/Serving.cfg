SPECIFICATION FairSpec
CONSTANTS
    Workspaces = {w1, w2, w3, w4}
    None = None
    MaxVersion <- Versions
    MaxSnapshot <- Snapshots
    w1 = w1
    w2 = w2
    w3 = w3
    w4 = w4
    MaxRestarts = 1
    p1 = p1
    p2 = p2
    agent = agent
    c1 = c1
    c2 = c2
    Pages = {p1, p2}
    OpensOf <- Opened
    KEPT = 1
    MaxJobs = 2
    Readers = {agent}
    ReadsOf <- Read
    Operations <- Ops
    ListsOf <- Lists
    Lengths <- ListLengths
    PageSize = 1
    Patch <- TwoByte
    PatchLimit = 3
    Callers = {c1, c2}
    Targets = {related, again}
    RepoOf <- Related
    Slots = 1
    Populations <- Clients
INVARIANTS TypeOK ReadyMeansSynced ReadsAreWhole ProviderBounded AnswersAsExpected
PROPERTIES PollEnds CallersAnswered
CHECK_DEADLOCK FALSE
