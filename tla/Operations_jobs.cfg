SPECIFICATION Spec
CONSTANTS
    Articles = {1, 2}
    Workers = {w1, w2}
    Nobody = Nobody
    Mixes = {{"fetch", "process"}, {"pipeline", "process", "publish", "api"}}
    DailyTarget = 1
    PublishMax = 2
    Stubborn = {1}
    LastDay = 1
    MaxUpsets = 1
    DayLength = 2
    ActiveStart = 1
    ActiveEnd = 0
    ShareOf = 4
    ShareIn = 5
SYMMETRY Symmetry
INVARIANTS
    TypeOK
    HourSlotsAreToday
    EnrichedOnce
PROPERTIES
    QuotaKept
    PlannedOnce
    PipelineDelivers
