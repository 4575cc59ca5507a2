SPECIFICATION FairSpec
CONSTANTS
    Days = 2
    Cursors = {c1}
    Labels = {l1}
    NoLabel = NoLabel
    MaxPages = 2
    ChannelOrder <- MCOrder
    WhatsApp = {"r1"}
    ScriptTargets = {"script"}
    OAuthTargets = {"oauth"}
    Ids = {1, 2}
    Window = 1
    MaxNonces = 1
    MaxForced = 1
    MaxInspected = 1
    MaxCrashes = 1
    MaxFaults = 1
INVARIANTS
    TypeOK
    EveryDayCountedOnce
    ZeroHasEvidence
    OneSnapshot
    RecordedIsStored
    ResentOnlyForCause
    ExecutedOnce
PROPERTIES
    EveryChannelServed
CHECK_DEADLOCK FALSE
