SPECIFICATION Spec
CONSTANTS
    Procs = {w1, w2}
    Absent = Absent
    Unreadable = Unreadable
    MaxClock = 4
    MaxDamages = 2
SYMMETRY Symmetric
INVARIANTS TypeOK AcknowledgedSurvives VersionsNameDocs LossCostsOneWrite
           KnownGoodBackup
CHECK_DEADLOCK FALSE
