CONSTANTS
    None = None
    Root <- MCRoot
    Prop <- MCProp
    ArtifactId <- MCArtifactId
    KeySchedule <- MCKeySchedule
    SeedFeed <- MCNoFeed
    Process = {p, q}
    Line <- MCLateLines
    SeedLineage <- MCSeparate
    Event <- MCTwoRoots
    OpaqueStore = TRUE
    MaxLineage = 5
    MaxCrashes = 2
SPECIFICATION Spec
SYMMETRY MCSymmetry
INVARIANTS
    TypeOK
    WritebackInOrder
    OpenErratumServesNothingStale
    AppliedStaysClean
PROPERTIES
    EvidenceIsFinal
    FollowsLifecycle
CHECK_DEADLOCK FALSE
