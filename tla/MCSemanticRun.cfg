CONSTANTS
    ProbeSet <- MCProbeSet
    Observation <- MCObservation
    Recorded <- MCRecorded
    Config = "now"
    ErasureProbeId <- MCErasureProbeId
SPECIFICATION Spec
INVARIANTS
    TypeOK
    VerifiedIsCompleteEvidence
    FailureIsNotMasked
    ParsedIsSelfContained
CHECK_DEADLOCK FALSE
