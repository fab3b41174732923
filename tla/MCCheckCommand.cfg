SPECIFICATION FairCommandSpec
CONSTANTS
    w1 = w1
    Workers = {w1}
    Commander = w1
    Rules <- MCRules
    None = None
    Attempts = 2
    MaxHead = 2
INVARIANTS
    CommandTypeOK
    NoFalseSuccess
    ApprovalBound
PROPERTIES
    MergesVettedHead
    CommandEnds
