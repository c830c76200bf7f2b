SPECIFICATION Spec
CONSTANTS
    Requests <- MixedRequests
    Defaults <- MCDefaults
    PowerOn <- MCPowerOn
    SeqMod = 5
    MaxCalls = 4
    MaxReboots = 1
    MaxStrays = 1
PROPERTIES EveryCallReturns EachStepIsNearer ImplementsAPI
CHECK_DEADLOCK FALSE
