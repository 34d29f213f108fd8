\* MySQL, one session lost in a MultiExec.
CONSTANTS
    Drive = "mysql"
    MAX_MULTI_INSERT_COUNT = 2
    MaxLength = 2
    MaxCalls = 1
    MaxFaults = 1
SPECIFICATION Spec
INVARIANT AllOrNone
CHECK_DEADLOCK FALSE
