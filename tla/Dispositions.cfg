SPECIFICATION Spec
CONSTANTS
    PRs = {p1, p2}
    Revs = {r0, r1}
    CompleteRevs = {r1}
    None = None
    Keys = {k1, k2}
    Workers = {w1}
    Ops = {"dispose", "decide"}
    Kinds = {"reject", "duplicate"}
    Decisions = {"approve", "hardware"}
    Listings <- OpenListings
    MaxVersion = 4
    MaxRetries = 0
    MaxCopies = 0
    MaxSent = 2
    MaxFetch = 2
    MaxGroup = 2
SYMMETRY Symmetric
INVARIANTS TypeOK JudgedAsSeen RetryIsRecognised DecidedOnCompleteEvidence UnjudgedStaysPending
CHECK_DEADLOCK FALSE
