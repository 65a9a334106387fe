SPECIFICATION DialogSpec
CONSTANTS
    a = a
    b = b
    c = c
    r1 = r1
    r2 = r2
    None = None
    Revs = {r1, r2}
    Paths = {a, b, c}
    Texts = {"first", "second"}
    Keys = {k1, k2}
    Manifest <- Chained
    Offers <- NoOffers
    Workloads = {}
    MaxVersion = 3
    MaxPosted = 2
    MaxOpened = 1
SYMMETRY Symmetric
INVARIANTS NothingSavedMeansNothing
CHECK_DEADLOCK FALSE
