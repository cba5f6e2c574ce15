\* Two entries in memory, two batches on disk, batches of one entry taken, two failures.
CONSTANTS
    Events <- MCEvents
    Address <- MCAddress
    MaxItems = 2
    MaxBatches = 2
    MaxBatchSize = 1
    MaxFails = 2
SPECIFICATION FairSpec
INVARIANTS OnlyRacersVanish CountedOnce
PROPERTY EventsSettle
