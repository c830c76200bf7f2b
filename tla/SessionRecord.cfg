SPECIFICATION Spec
CONSTANTS
    Requests <- MixedRequests
    Defaults <- MCDefaults
    PowerOn <- MCDefaults
    SeqMod = 5
    MaxCalls = 2
    MaxReboots = 0
    MaxStrays = 0
INVARIANTS RecordingAsDocumented
CHECK_DEADLOCK FALSE
