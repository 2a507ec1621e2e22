SPECIFICATION FairSpec
CONSTANTS
    near = near
    far = far
    device = device
    other = other
    Server <- MCServer
    IP <- MCIP
    Offered <- MCOffered
    DeviceIP = device
    NullIP = null
    Everyone = everyone
    Tails <- MCTails
    MaxLosses = 2
    MaxRepeats = 2
CHECK_DEADLOCK FALSE
INVARIANTS
    TypeOK
    RequestedIsOffered
    RequestingHasAsked
    BoundIsAcked
PROPERTIES
    EventuallyBound
