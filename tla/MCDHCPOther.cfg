SPECIFICATION FairSpec
CONSTANTS
    near = near
    far = far
    device = device
    other = other
    Server <- MCServer
    IP <- MCIP
    Offered <- MCOfferedOther
    DeviceIP = device
    NullIP = null
    Everyone = everyone
    Tails <- MCTails
    MaxLosses = 0
    MaxRepeats = 0
CHECK_DEADLOCK FALSE
PROPERTIES
    EventuallyBound
