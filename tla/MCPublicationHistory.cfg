CONSTANTS
    Url <- MCUrl
    Target <- MCTarget
    Surface <- MCSurface
    Seed <- MCSeed
    MaxRevisions = 3
    MaxSlips = 1
SPECIFICATION Spec
INVARIANTS
    TypeOK
    PublishedIsAccountedFor
    SupersededIsNeverCurrent
    EveryCallLeadsToACurrentOne
