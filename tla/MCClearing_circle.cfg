SPECIFICATION ClearSpec
CONSTANTS
    Unreachable = 1000000
    Scale = 1000
    Points = 100
    Fine = 2
    Batches <- CircleBatches
PROPERTY ClearingEnds
CHECK_DEADLOCK FALSE
