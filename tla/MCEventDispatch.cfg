SPECIFICATION Spec
CONSTANTS
    N = 2
    First = first
    Second = second
    OneSymbol = one
    OtherSymbol = other
    Sources = {first, second}
    Symbols = {one, other}
    Programs = {"strategy", "event_log_reader", "event_log_multiplexer"}
    CancelAt = 2
    Feeds <- SomeFeeds
INVARIANTS TypeOK DeliveredAreTheRegistered BooksAreUpToDate CancelledOnce
PROPERTY Ends
CHECK_DEADLOCK FALSE
