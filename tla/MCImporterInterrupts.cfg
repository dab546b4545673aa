CONSTANTS
    None = None
    Root <- MCRoot
    Prop <- MCProp
    ArtifactId <- MCArtifactId
    KeySchedule <- MCKeySchedule
    Entry <- MCEntry
    SourceOf <- MCSourceOf
    SeedLedger <- MCSeedLedger
    SeedIndex <- MCSummaryIndexed
    LooseText <- MCLooseText
    Derivation <- MCDerivation
    ReimportId <- MCNoReimport
    ExportText <- MCNoExport
    Event <- MCChain
    OpaqueStore = "optional"
    MaxInterrupts = 2
SPECIFICATION FairSpec
INVARIANTS
    TypeOK
    RepairInv
    RebuildsOnlyGatedState
    OpenErratumServesNothingStale
    NothingStrandedBehindAGate
    CompletedRepairPassesTriad
PROPERTIES
    VerifiedIsEarned
    FeedIsApplied
CHECK_DEADLOCK FALSE
