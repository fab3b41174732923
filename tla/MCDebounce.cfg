SPECIFICATION FairSpec
CONSTANTS
    Tasks = {t1, t2, t3}
    PRs = {p1, p2}
    NoTask = NoTask
INVARIANTS
    TypeOK
    EntryOwner
    NoLostCall
PROPERTIES
    RemovesOwnEntry
    CoveredWhenQuiet
    MapDrains
    ImplementsUpdateRequests
