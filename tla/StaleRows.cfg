SPECIFICATION Spec
CONSTANTS
    PRs = {p1, p2}
    Revs = {r0, r1}
    CompleteRevs = {r0, r1}
    None = None
    Keys = {k1, k2}
    Workers = {w1}
    Ops = {"dispose"}
    Kinds = {"duplicate"}
    Decisions = {}
    Listings <- OpenListings
    MaxVersion = 4
    MaxRetries = 0
    MaxCopies = 0
    MaxSent = 2
    MaxFetch = 2
    MaxGroup = 4
INVARIANTS StaleRowsDoNotBlock
CHECK_DEADLOCK FALSE
