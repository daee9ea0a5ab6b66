SPECIFICATION BoundedSpec
CONSTANTS
    i1 = i1
    i2 = i2
    Instruments = {i1, i2}
    First = i1
    Depth = 2
    N = 4
    MaxFragments = 2
    Publications <- SomePublications
INVARIANTS StaleUntilNextUpdate GarbageNeedsFailureAndFragments UpToDateUntilLoss
PROPERTY BooksFeed
CHECK_DEADLOCK FALSE
