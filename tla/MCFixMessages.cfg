SPECIFICATION MCSpec
CONSTANTS
    Classes = {"ExecutionReport", "NewOrderSingle", "BusinessMessageReject", "SecurityList", "MarketDataIncrementalRefresh"}
    MaxCells = 8
    Amounts = {1000, 66566}
    MaxHops = 2
INVARIANTS TypeOK ReadableInCallback OwnedStaysReadable
INVARIANTS FieldsTypeOK NothingMixedUp NothingElseIsLost RefusedForCause 
CHECK_DEADLOCK FALSE
