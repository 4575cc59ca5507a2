SPECIFICATION Spec
CONSTANTS
    Articles = {a1, a2}
    NoArticle = NoArticle
    Order <- MCOrder
    MaxRetries = 2
    WebSearch = TRUE
    Catalog <- MCCatalog
    Configs <- MCConfigs
    StrictLimit = 1
    RescueLimit = 2
    MaxMedia = 4
    MaxFaults = 2
INVARIANTS
    TypeOK
    StrictIsFresh
    GenerationIsLast
    CreditedMedia
    OneKeyedMedia
PROPERTIES
    DraftIsNeverLost
CHECK_DEADLOCK FALSE
