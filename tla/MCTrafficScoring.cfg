CONSTANTS
    Keys <- MCKeys
    Events <- MCEvents
    Slot = 300
    Window = 1
    MinEvents = 3
    BlockThreshold = 60
    Retention = 2
    Keep = 1
    MaxEvents = 2
    MaxTroubles = 1

SPECIFICATION FairSpec
CHECK_DEADLOCK FALSE

INVARIANTS ChartsAgree OneVerdict VerdictIsAnnounced
PROPERTIES NormalIsNotKept
