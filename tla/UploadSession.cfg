SPECIFICATION FairSpec
CONSTANTS
    Servers = {s1, s2}
    Parts = {1, 2}
    MaxFaults = 2
    s1 = s1
    s2 = s2
CHECK_DEADLOCK FALSE
INVARIANTS
    TypeOK
    JobOnlyFromVerified
    SealedMediaKept
    CleanedMeansEmpty
    AckedIsCompleted
PROPERTIES
    KeepsPromise
    ClosedIsReclaimed
    OverdueIsResolved
