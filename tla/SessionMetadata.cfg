SPECIFICATION Spec
CONSTANTS
    Requests <- RateRequests
    Defaults <- MCDefaults
    PowerOn <- MCDefaults
    SeqMod = 5
    MaxCalls = 4
    MaxReboots = 0
    MaxStrays = 0
INVARIANTS MetadataAsDocumented
CHECK_DEADLOCK FALSE
