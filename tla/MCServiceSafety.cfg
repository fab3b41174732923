SPECIFICATION Spec
CONSTANTS
    Slots = {s1, s2}
    k1 = k1
    k2 = k2
    id1 = id1
    id2 = id2
    i1 = i1
    Identifiers <- MCIdentifiers
    NodeIds <- MCIdentifiers
    IdsOf <- MCIdsOf
    Installation <- MCInstallation
    Kinds <- MCKinds
    Vacant = Vacant
    Pending = Pending
    Error = Error
    NoTask = NoTask
    None = None
SYMMETRY Symmetry
INVARIANTS
    NoEventLost
    DebouncedIsKnown
