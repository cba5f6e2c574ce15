\* Both ends of every score range, up to five rows.
CONSTANTS
    Scores <- MCScores
    BlockThreshold = 60
    BaseMinutes = 60
    MaxRows = 5
SPECIFICATION Spec
INVARIANT TypeOK
PROPERTIES NeverMilder AtMostThreeChances
CHECK_DEADLOCK FALSE
