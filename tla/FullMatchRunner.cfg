SPECIFICATION FairSpec
CONSTANTS
    Last = 3
    MaxCrashes = 2
CHECK_DEADLOCK FALSE
INVARIANTS
    TypeOK
    ChunksContinue
    VideoIsWhole
    FinalIsCompleted
PROPERTIES
    NothingRedone
    RunSettles
