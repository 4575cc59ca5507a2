SPECIFICATION Spec
CONSTANTS
    a1 = a1
    a2 = a2
    d1 = d1
    d2 = d2
    l1 = l1
    l2 = l2
    None = None
    Articles = {a1, a2}
    Durable = {}
    Legacy = {l1, l2}
    ConfirmedPair <- MutualPair
    Enforcing = {l1, l2}
    Historical = {}
    BatchMax = 1
    MaxFaults = 2
SYMMETRY LegacySymmetry
INVARIANTS
    NoConfirmedPairPosted
CHECK_DEADLOCK FALSE
