SPECIFICATION DialogSpec
CONSTANTS
    a = a
    b = b
    c = c
    r1 = r1
    r2 = r2
    None = None
    Revs = {r1, r2}
    Paths = {a, b, c}
    Texts = {"first", "second"}
    Keys = {k1, k2, k3}
    Manifest <- Chained
    Offers <- FewOffers
    Workloads <- EveryMix
    MaxVersion = 3
    MaxOpened = 2
    MaxPosted = 2
SYMMETRY Symmetric
INVARIANTS TypeOK RecordsExplained RetryIsRecognised BoundAsShown
           CountersAgree AdoptedOnce OneFindingPerDialog
PROPERTIES StaleRecordsStay
CHECK_DEADLOCK FALSE
