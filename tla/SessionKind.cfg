SPECIFICATION Spec
CONSTANTS
    Requests <- MixedRequests
    Defaults <- MCDefaults
    PowerOn <- MCPowerOn
    SeqMod = 5
    MaxCalls = 6
    MaxReboots = 0
    MaxStrays = 0
INVARIANTS KindAsDocumented
CHECK_DEADLOCK FALSE
