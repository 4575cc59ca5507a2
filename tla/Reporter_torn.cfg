SPECIFICATION Spec
CONSTANTS
    Days = 2
    Cursors = {c1, c2}
    Labels = {l1}
    NoLabel = NoLabel
    MaxPages = 3
    ChannelOrder <- MCOrder
    WhatsApp = {"r1"}
    ScriptTargets = {}
    OAuthTargets = {"oauth"}
    Ids = {1, 2}
    Window = 1
    MaxNonces = 1
    MaxForced = 1
    MaxInspected = 0
    MaxCrashes = 1
    MaxFaults = 1
INVARIANTS
    RetryReusesSnapshot
CHECK_DEADLOCK FALSE
