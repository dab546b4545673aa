CONSTANTS
    KeySchedule <- MCKeySchedule
    Event <- MCEvent
    AcceptedRoot <- MCAcceptedRoot
    None = None
    Root <- MCRoot
    Prop <- MCProp
    ArtifactId <- MCArtifactId
    MaxFeed = 4
    MaxLast = 2
SPECIFICATION WalksSpec
INVARIANTS
    WalkIsSound
    WalkIsExact
    ReturnsExactlyGoodFeeds
    ConflictIsNamed
PROPERTY WalkReturns
CHECK_DEADLOCK FALSE
