SPECIFICATION FairSpec
CONSTANTS
    a1 = a1
    a2 = a2
    w1 = w1
    w2 = w2
    i1 = i1
    None = None
    Articles = {a1, a2}
    Versions <- EditedOnce
    Workers = {w1, w2}
    Ingesters = {i1}
    Poison = {a2}
    WorkLimit = 1
    MaxAttempts = 3
    MaxFaults = 1
INVARIANTS
    EmbeddedIsTrue
PROPERTIES
    KeepsLeases
    StableIsEmbedded
