SPECIFICATION Spec
CONSTANTS
    p1 = p1
    p2 = p2
    N = 2
    Ports <- MCPorts
    StrayPort = stray
    DeviceIP = forged
    SourceIP = forged
    MaxFaults = 1
    MaxStrays = 0
CHECK_DEADLOCK FALSE
INVARIANTS
    FileIntact
