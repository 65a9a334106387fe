SPECIFICATION Spec
CONSTANTS
    PRs = {p1}
    Revs = {r1}
    CompleteRevs = {r1}
    None = None
    Keys = {k1}
    Workers = {w1, w2}
    Ops = {}
    Kinds = {}
    Decisions = {}
    Listings <- AllListings
    MaxVersion = 2
    MaxRetries = 0
    MaxCopies = 0
    MaxSent = 0
    MaxFetch = 2
    MaxGroup = 2
PROPERTIES OlderFetchNeverOverwrites
CHECK_DEADLOCK FALSE
