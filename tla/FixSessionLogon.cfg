SPECIFICATION Spec
CONSTANTS
    Required = {"heart_bt_int", "raw_data_length", "raw_data", "username"}
    Size = 2
    MaxReports = 2
    MaxTestRequests = 1
PROPERTY LogonIsSent
CHECK_DEADLOCK FALSE
