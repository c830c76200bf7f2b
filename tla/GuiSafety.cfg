SPECIFICATION Spec
CONSTANTS
    UserJobs <- AllJobs
    MaxStarts = 4
    MaxEdits = 2
    MaxThrows = 1
INVARIANTS JoinFindsExit FlagsMeanRunning StatusTrueAfterCapture
PROPERTIES SessionExclusive EditsApplyInOrder
CHECK_DEADLOCK FALSE
