CONSTANTS
    None = None
    Root <- MCRoot
    Prop <- MCProp
    ArtifactId <- MCArtifactId
    KeySchedule <- MCKeySchedule
    SeedFeed <- MCNoFeed
    Process = {"p"}
    Line <- MCLateLines
    SeedLineage <- MCSeparate
    Event <- MCSameRoot
    OpaqueStore = FALSE
    MaxLineage = 4
    MaxCrashes = 0
SPECIFICATION Spec
INVARIANTS
    VerifiedStoreWasScanned
CHECK_DEADLOCK FALSE
