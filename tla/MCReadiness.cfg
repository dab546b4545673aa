CONSTANTS
    None = None
    Gate <- MCGate
    Part <- MCPart
    Surface <- MCSurface
    Revision <- MCRevision
    Hashed <- MCHashed
    FirstTree <- MCFirstTree
    Body <- MCBody
    Insider <- MCInsider
    MaxEdits = 1
    MaxCommits = 2
    MaxEntries = 6
SPECIFICATION Spec
INVARIANTS
    PassRestsOnThisContent
    ReadyIsMeasured
CHECK_DEADLOCK FALSE
