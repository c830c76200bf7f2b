SPECIFICATION Spec
CONSTANTS
    Requests <- MixedRequests
    Defaults <- MCDefaults
    PowerOn <- MCPowerOn
    SeqMod = 5
    MaxCalls = 3
    MaxReboots = 0
    MaxStrays = 0
INVARIANTS DestructorReleases
CHECK_DEADLOCK FALSE
