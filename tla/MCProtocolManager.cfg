SPECIFICATION FairSpec
CONSTANTS
    rtr = rtr
    peer = peer
    m1 = m1
    m2 = m2
    h1 = h1
    IP <- MCIP
    RouterIP = rtr
    RouterMACs <- MCRouterMACs
    HostMACs <- MCHostMACs
    BroadcastMAC = ff
    NoMac = none
    Everyone = everyone
    MaxPackets = 3
    MaxCapture = 2
    MaxHostFrames = 1
    MaxFaults = 1
INVARIANTS
    TypeOK
    NothingStranded
    SentAtMostOnce
    NewestPacketKept
    OrderPerDestination
    OnlyToRouter
PROPERTIES
    ImplementsOutbox
    CapturedReplyFlushes
    WaitingEnds
