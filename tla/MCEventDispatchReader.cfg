SPECIFICATION Spec
CONSTANTS
    N = 2
    First = first
    Second = second
    OneSymbol = one
    OtherSymbol = other
    Sources = {first, second}
    Symbols = {one, other}
    Programs = {"event_log_reader"}
    CancelAt = 2
    Feeds <- SomeFeeds
INVARIANT NeverFailsToCast
CHECK_DEADLOCK FALSE
