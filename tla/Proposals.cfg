SPECIFICATION Spec
CONSTANTS
    PRs = {p1}
    Revs = {r0, r1}
    CompleteRevs = {}
    None = None
    Keys = {k1, k2, k3}
    Workers = {w1}
    Ops = {"draft", "edit", "accept", "reject", "backup", "restore"}
    Kinds = {"reject"}
    Decisions = {}
    Listings <- OpenListings
    MaxVersion = 4
    MaxRetries = 0
    MaxCopies = 1
    MaxSent = 3
    MaxFetch = 2
    MaxGroup = 2
SYMMETRY Symmetric
INVARIANTS AppliedAtMostOnce AcceptedAsDrafted
PROPERTIES VersionNamesContent ImplementsLedger
CHECK_DEADLOCK FALSE
