SPECIFICATION Spec
CONSTANTS
    Words <- SomeWords
    Calls <- Updates
    Percents <- SomePercents
    MaxCalls = 1
    MaxEvents = 2
    MaxResets = 1
INVARIANT DisconnectIsNormal
CHECK_DEADLOCK FALSE
