SPECIFICATION Spec
CONSTANTS
    Scores <- OneAll
    Clocks = {0, 1, 2}
    LateClock = 2
    EarlyClock = 0
    ClockDrop = 1
    StableFor = 2
    MaxPendingGap = 1
    MaxMisses = 1
    MaxStep = 1
    LastTime = 6
CHECK_DEADLOCK FALSE
INVARIANTS
    TypeOK
    ChangesAreSupported
    ChangesChain
    StableIsAccepted
PROPERTY NeverBack
