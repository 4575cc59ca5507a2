SPECIFICATION Spec
CONSTANTS
    a1 = a1
    a2 = a2
    a3 = a3
    d1 = d1
    d2 = d2
    l1 = l1
    None = None
    Articles = {a1, a2}
    Durable = {d1, d2}
    Legacy = {l1}
    Repeats <- MutualRepeat
    Enforce = TRUE
    Poison = {}
    BatchMin = 1
    BatchMax = 1
    MaxFaults = 1
SYMMETRY WorkerSymmetry
INVARIANTS
    ProcessedIsStored
    NoStoryLost
PROPERTIES
    ProvenanceIsKept
    DuplicateIsTerminal
