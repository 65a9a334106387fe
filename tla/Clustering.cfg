SPECIFICATION Spec
CONSTANTS
    PRs = {1, 2, 3, 4}
    None = None
    FileSets <- Sets
    Keepings <- Kept
    Orders <- Both
    Issued = 2
    CONFIRM <- ThreeQuarters
INVARIANTS ClustersAreComponents AssignedAsDefined PlacedAsAllowed
