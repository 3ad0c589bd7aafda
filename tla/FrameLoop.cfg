SPECIFICATION MCSpec
CONSTANTS
    Ids = {1, 2, 3, 4, 5, 6, 7, 8, 11, 12, 13, 14, 15, 16, 17, 18}
    Positions = {0, 1, 2, 3, 4, 5, 6}
    Times = {0, 2, 3, 4, 6}
    KickSpeed = 1
    Proximity = 1
    MinContactFrames = 1
    MinContinuity = 2
    Cooldown = 2
    MaxConfidence = 70
    MaxJump = 3
    Reach <- MatchReach
    MaxMissed = 1
    ConfirmMinHits = 2
    Scenes <- MatchScenes
    Duration = 7
    ChunkSize = 5
    Overlap = 3
    Fps <- MatchFps
    UnitsPerSecond = 3
    NamespaceSize = 10
    MaxFrameErrors = 2
    DedupWindow = 1
    TrailMaxAge = 3
    TrailMaxPoints = 2
    TrailMaxJump = 3
    Found <- SomeFound
    MaxEvents = 4
    MergeWindow = 2
    FuseWindow = 1
    SemanticWindow = 2
    SpotWindow = 2
    Plans <- SomePlans
    Second = 12
    Features <- SomeFeatures
INVARIANTS TypeOK KicksSound PutOutOnce TracksAreContinuous TrailsAreUnbroken DuplicatesMerge FusionIsSound WindowsTile
CHECK_DEADLOCK FALSE
