CONSTANTS
    None = None
    Root <- MCRoot
    Prop <- MCProp
    ArtifactId <- MCArtifactId
    KeySchedule <- MCKeySchedule
    Entry <- MCEntry
    SourceOf <- MCSourceOf
    SeedLedger <- MCSeedLedger
    SeedIndex <- MCSeedIndex
    LooseText <- MCLooseText
    Derivation <- MCNoDerivation
    ReimportId <- MCReimportId
    ExportText <- MCExportText
    Event <- MCEvent
    OpaqueStore = "required"
    MaxInterrupts = 1
SPECIFICATION Spec
INVARIANTS
    ReceiptsFollowTheFeed
    AppliedStaysClean
    StaleExportRetired
PROPERTIES
    FollowsLifecycle
    ObservedIsFinal
CHECK_DEADLOCK FALSE
