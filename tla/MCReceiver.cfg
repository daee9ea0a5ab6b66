SPECIFICATION Spec
CONSTANTS
    Depth = 2
    N = 6
    MaxFragments = 3
    Streams <- AllStreams
    CallbackMayRaise = TRUE
INVARIANTS TypeOK WholeUntilLoss NeverFromTheMiddle UnfragmentedSurvivesLoss
PROPERTY FeedSpec
CHECK_DEADLOCK TRUE
