\* Two registrations may overlap; a third comes after a crash.
CONSTANTS
    MaxCalls = 3
    MaxAttempts = 2
    MaxFails = 1
    MaxDecisions = 2
    MaxCuts = 1
    MaxCount = 1
    DurationBits = 6
    Second = 1
    MaxDelay = 1
SPECIFICATION FairSpec
INVARIANTS NoUnapproved RejectedStays GoneOnlyIfRevoked
PROPERTIES RevokedStops
CHECK_DEADLOCK FALSE
