SPECIFICATION FairSpec
CONSTANTS
    PRs = {p1, p2}
    Revs = {r1}
    CompleteRevs = {r1}
    None = None
    Keys = {k1}
    Workers = {w1, w2}
    Ops = {"decide"}
    Kinds = {}
    Decisions = {"hardware"}
    Listings <- AllListings
    MaxVersion = 3
    MaxRetries = 1
    MaxCopies = 0
    MaxSent = 1
    MaxFetch = 2
    MaxGroup = 8
INVARIANTS PlanStillValid
PROPERTIES NumbersAreNotReissued RunEnds
CHECK_DEADLOCK FALSE
