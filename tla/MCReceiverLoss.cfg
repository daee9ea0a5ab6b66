SPECIFICATION Spec
CONSTANTS
    Depth = 2
    N = 6
    MaxFragments = 3
    Streams <- AllStreams
    CallbackMayRaise = FALSE
INVARIANT EmptyAtFirstFragment
