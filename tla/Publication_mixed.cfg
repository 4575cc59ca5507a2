SPECIFICATION Spec
CONSTANTS
    a1 = a1
    a2 = a2
    d1 = d1
    d2 = d2
    l1 = l1
    l2 = l2
    None = None
    Articles = {a1, a2}
    Durable = {d1}
    Legacy = {l1}
    ConfirmedPair <- MutualPair
    Enforcing = {l1}
    Historical = {a2}
    BatchMax = 2
    MaxFaults = 3
INVARIANTS
    AtMostOneCreate
    PublishedMeansPosted
PROPERTIES
    KeepsLeases
CHECK_DEADLOCK FALSE
