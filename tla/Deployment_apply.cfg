SPECIFICATION Spec
CONSTANTS
    Count = 3
    Needs <- AppNeeds
    Preflights <- AppPreflights
    Fresh = {"app-006"}
    Length <- AppLength
    Shown <- AppShown
    Fragile <- AppFragile
    Appliers = {a1, a2}
    Readers = {r1}
    Nobody = Nobody
    MaxBreaks = 2
    MaxEdits = 1
SYMMETRY Symmetry
INVARIANTS
    RecordedIsExecuted
    ScriptRunsAlone
    ReportsHold
