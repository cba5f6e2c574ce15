CONSTANTS
    Arrivals <- MCArrivals
    Lookback = 1
    BlockThreshold = 80
    MaxBlocksPerMinute = 1
    Base = 1
    Cap = 2
    Multiplier = 2
    Overflow = 4
    MaxHits = 16

SPECIFICATION FairSpec
CHECK_DEADLOCK FALSE

INVARIANTS OneRacer
PROPERTIES MemoryIsOwn HotIsStopped
