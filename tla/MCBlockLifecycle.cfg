\* One server, two rows, one failure or restart, blocks of the agent's own; liveness, so no symmetry.
CONSTANTS
    s1 = s1
    r1 = r1
    r2 = r2
    Servers <- OneServer
    Slots <- TwoSlots
    MaxDuration = 1
    MaxFails = 1
    OwnBlocks = TRUE
    Operations <- AllOperations
SPECIFICATION FairSpec
INVARIANTS TypeOK OneLiveRow WhitelistSlipsOnce
PROPERTY CandidateIsBlocked
