SPECIFICATION Spec
CONSTANTS
    a1 = a1
    a2 = a2
    a3 = a3
    d1 = d1
    d2 = d2
    l1 = l1
    None = None
    Articles = {a1, a2}
    Durable = {d1}
    Legacy = {}
    Repeats <- MutualRepeat
    Enforce = TRUE
    Poison = {}
    BatchMin = 1
    BatchMax = 2
    MaxFaults = 0
INVARIANTS
    DuplicateStaysUnselected
