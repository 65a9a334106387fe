SPECIFICATION Spec
CONSTANTS
    PRs = {p1, p2}
    Revs = {r1}
    CompleteRevs = {r1}
    None = None
    Keys = {k1}
    Workers = {w1}
    Ops = {}
    Kinds = {}
    Decisions = {}
    Listings <- OpenListings
    MaxVersion = 2
    MaxRetries = 0
    MaxCopies = 0
    MaxSent = 0
    MaxFetch = 2
    MaxGroup = 4
PROPERTIES OpenPRKeepsItsGroup
CHECK_DEADLOCK FALSE
