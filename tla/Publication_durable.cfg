SPECIFICATION FairSpec
CONSTANTS
    a1 = a1
    a2 = a2
    d1 = d1
    d2 = d2
    l1 = l1
    l2 = l2
    None = None
    Articles = {a1, a2}
    Durable = {d1, d2}
    Legacy = {}
    ConfirmedPair <- MutualPair
    Enforcing = {d1, d2}
    Historical = {}
    BatchMax = 2
    MaxFaults = 2
INVARIANTS
    TypeOK
    OrphanStaysUnresolved
    NoConfirmedPairPosted
PROPERTIES
    PointerIsKept
    EveryArticleSettles
CHECK_DEADLOCK FALSE
