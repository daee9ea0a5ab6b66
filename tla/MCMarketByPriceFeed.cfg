SPECIFICATION BoundedSpec
CONSTANTS
    i1 = i1
    i2 = i2
    Instruments = {i1, i2}
    First = i1
    N = 4
    Scripts <- SomeScripts
INVARIANTS TypeOK BookIsPublished NothingForgotten
PROPERTIES StartsOverByOwnLossOnly NeverBackwards Recovers
CHECK_DEADLOCK FALSE
