SPECIFICATION FairSpec
CONSTANTS
    Workers = {w1, w2}
    Rules <- MCRules
    None = None
    Attempts = 1
    MaxHead = 2
INVARIANTS
    WithdrawnWhenIneligible
    ServedWhenEligible
    ApprovalBound
PROPERTIES
    ApprovalsDrain
    RepairedByEvents
