SPECIFICATION HostSpec
CONSTANTS
    Objects = {o1, o2}
    MaxOpens = 4
    MaxFaults = 1
    MaxLoads = 2
    Tools = {"cli", "example"}
    Builds = {8, 16}
    Clocks = 2
    W16 = 4
    W32 = 8
    W64 = 16
    Numbers <- SomeNumbers
    MaxArgs = 2
SYMMETRY Symmetry
INVARIANTS NoConnectionLost StaleHandlesRefused ObjectsKeepTheirs SessionsReachable NumbersAsTyped EndsAsReported
CHECK_DEADLOCK FALSE
