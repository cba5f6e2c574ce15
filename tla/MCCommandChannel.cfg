\* Two signers, two sessions, channels of one command, three clock readings; no symmetry, for liveness.
CONSTANTS
    manager = manager
    http = http
    Signers <- MCSigners
    MaxSessions = 2
    ChanCap = 1
    MaxClock = 3
    MaxSnapshot = 1
SPECIFICATION FairSpec
INVARIANTS ReachableWithoutOverlap
PROPERTIES ImplementsOrderedDelivery QueuedIsReceived
\* The clock readings and the sessions run out.
CHECK_DEADLOCK FALSE
