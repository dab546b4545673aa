CONSTANTS
    None = None
    Root <- MCRoot
    Prop <- MCProp
    ArtifactId <- MCArtifactId
    KeySchedule <- MCKeySchedule
    SeedFeed <- MCFeed
    Process = {"p"}
    Line <- MCLateLines
    SeedLineage <- MCSeparate
    Event <- MCTwoRoots
    OpaqueStore = FALSE
    MaxLineage = 4
    MaxCrashes = 1
SPECIFICATION FairSpec
PROPERTIES
    FeedIsApplied
CHECK_DEADLOCK FALSE
