SPECIFICATION Spec
CONSTANTS
    c1 = c1
    c2 = c2
    s1 = s1
    eth = eth
    file = file
    Captors <- MCCaptors
    Senders <- MCSenders
    Devices <- MCDevices
    Files <- MCFiles
    LinkType <- MCLinkType
    MAX_NUMBER_OF_INSTANCE = 2
    RAW_SOCKET_ID = 99999
    MaxLoops = 2
    MaxDepth = 2
SYMMETRY MCSymmetry
CHECK_DEADLOCK FALSE
INVARIANTS
    TypeOK
    HandleIsOwn
    SlotsAccounted
    ParsedAsItsDevice
    HandlerKept
