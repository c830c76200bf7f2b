SPECIFICATION Spec
CONSTANTS
    Requests <- SessionRequests
    Defaults <- MCDefaults
    PowerOn <- MCPowerOn
    SeqMod = 5
    MaxCalls = 5
    MaxReboots = 1
    MaxStrays = 1
INVARIANTS TypeOK SocketsOwned ResponsesAccountedFor ResponseIsOwn QuietBetweenCalls CaptureIsOwn RecordingIsOwn SettingsAgree MetadataIsTrue
PROPERTIES NoFrameOnHalfOpen
CHECK_DEADLOCK FALSE
