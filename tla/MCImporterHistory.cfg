CONSTANTS
    None = None
    Root <- MCRoot
    Prop <- MCProp
    ArtifactId <- MCArtifactId
    KeySchedule <- MCKeySchedule
    Entry <- MCEntry
    SourceOf <- MCSourceOf
    SeedLedger <- MCSeedLedger
    SeedIndex <- MCSeedIndex
    LooseText <- MCLooseText
    Derivation <- MCNoDerivation
    ReimportId <- MCNoReimport
    ExportText <- MCNoExport
    Event <- MCHistory
    OpaqueStore = "absent"
    MaxInterrupts = 0
SPECIFICATION Spec
INVARIANT CorrectedIsNotHistory
CHECK_DEADLOCK FALSE
