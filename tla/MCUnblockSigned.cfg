\* Unblocks of the dashboard.
CONSTANTS
    s1 = s1
    r1 = r1
    r2 = r2
    Servers <- OneServer
    Slots <- TwoSlots
    MaxDuration = 1
    MaxFails = 0
    OwnBlocks = FALSE
    Operations <- AllOperations
SPECIFICATION Spec
INVARIANT UnblockVerifies
