SPECIFICATION Spec
CONSTANTS
    Required = {"heart_bt_int", "username"}
    Size = 2
    MaxReports = 2
    MaxTestRequests = 2
INVARIANTS TypeOK HandledInOrder NoGapOnTheWire StepsTakenOnce
PROPERTIES OrderIsSent TestRequestsAnswered
CHECK_DEADLOCK FALSE
