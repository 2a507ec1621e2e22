SPECIFICATION Spec
CONSTANTS
    near = near
    far = far
    device = device
    other = other
    Server <- MCServer
    IP <- MCIP
    Offered <- MCOffered
    DeviceIP = device
    NullIP = null
    Everyone = everyone
    Tails <- MCTailsNetBIOS
    MaxLosses = 0
    MaxRepeats = 0
CHECK_DEADLOCK FALSE
INVARIANTS
    RequestingHasAsked
