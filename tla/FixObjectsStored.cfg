SPECIFICATION Spec
CONSTANTS
    Classes = {"ExecutionReport", "NewOrderSingle", "BusinessMessageReject", "SecurityList", "MarketDataIncrementalRefresh"}
    MaxCells = 6
INVARIANT StoredIsReadable
CHECK_DEADLOCK FALSE
