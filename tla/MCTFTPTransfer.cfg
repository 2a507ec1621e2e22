SPECIFICATION FairSpec
CONSTANTS
    p1 = p1
    p2 = p2
    N = 3
    Ports <- MCPorts
    StrayPort = stray
    DeviceIP = forged
    SourceIP = forged
    MaxFaults = 3
    MaxStrays = 1
CHECK_DEADLOCK FALSE
INVARIANTS
    TypeOK
    AckedIsWritten
    NoBlockSkipped
    ClosedIsComplete
    AckGoesToSender
    IntactUnlessRepeated
PROPERTIES
    SessionEnds
    TransferEnds
