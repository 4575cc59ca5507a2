SPECIFICATION FairSpec
CONSTANTS
    a1 = a1
    a2 = a2
    a3 = a3
    d1 = d1
    d2 = d2
    l1 = l1
    None = None
    Articles = {a1, a2, a3}
    Durable = {d1}
    Legacy = {}
    Repeats <- MutualRepeat
    Enforce = TRUE
    Poison = {a3}
    BatchMin = 1
    BatchMax = 2
    MaxFaults = 1
PROPERTIES
    KeepsLeases
    SelectedIsProcessed
