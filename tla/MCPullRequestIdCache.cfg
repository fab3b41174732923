SPECIFICATION Spec
CONSTANTS
    Tasks = {t1, t2, t3}
    k1 = k1
    k2 = k2
    legacy1 = legacy1
    id1 = id1
    id2 = id2
    Identifiers <- MCIdentifiers
    NodeIds <- MCNodeIds
    IdsOf <- MCIdsOf
    Vacant = Vacant
    Pending = Pending
    Error = Error
INVARIANTS
    TypeOK
    PendingHasLeader
    AnswerIsKept
PROPERTIES
    AskedOnce
    ErrorHealedByWebhook
    ImplementsIdDirectory
