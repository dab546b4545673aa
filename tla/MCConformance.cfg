CONSTANTS
    None = None
    Binding <- MCBinding
    Helper <- MCHelper
    ImportsHelper <- MCImports
    Conduct <- MCConduct
    Corpus <- MCCorpus
    Fixtures <- MCFixtures
    FirstTree <- MCFirstTree
    PublishedTarget <- MCTarget
    MaxEdits = 2
SPECIFICATION Spec
INVARIANTS
    TypeOK
    BlindBindingsAreRefused
    ReportFollowsFromItsEvidence
PROPERTIES
    RunsEnd
CHECK_DEADLOCK FALSE
