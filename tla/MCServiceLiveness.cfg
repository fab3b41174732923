SPECIFICATION FairSpec
CONSTANTS
    Slots = {s1, s2}
    k1 = k1
    k2 = k2
    id1 = id1
    id2 = id2
    i1 = i1
    Identifiers <- OneIdentifier
    NodeIds <- TwoNodeIds
    IdsOf <- TwoIdsOf
    Installation <- MCInstallation
    Kinds <- EventKinds
    Vacant = Vacant
    Pending = Pending
    Error = Error
    NoTask = NoTask
    None = None
PROPERTIES
    EventsServed
    HandlersEnd
