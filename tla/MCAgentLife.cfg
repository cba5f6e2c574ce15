\* Three starts, two failures: a crash between two limits, and a failing attachment.
CONSTANTS
    a1 = a1
    Addresses <- OneAddress
    MaxStarts = 3
    MaxFails = 2
SPECIFICATION FairSpec
INVARIANTS StoppedIsFlushed NoNilReader NoFalseAlarm
PROPERTIES BlocksOutliveProcess StopEnds
