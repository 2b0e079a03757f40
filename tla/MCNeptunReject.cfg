SPECIFICATION Spec
CONSTANTS
    A = a
    B = b
    Host = {a, b}
    Managers = {a, b}
    Peers = {a, b}
    UPeers = {a, b}
    IdModulus = 16
    AckWindow = 2
    PacketTimeout = 1
    NumRedundantPackets = 1
    MaxReadPacketSize <- ShortLimits
    StaleBytes = {0, 32}
    Capacity = 2
    SequenceModulus = 8
    CountModulus = 8
    Initiators = {a}
    Senders = {b}
    Unordered = FALSE
    RateLimited = FALSE
    PacketRoom = 18
    MaxReliable = 1
    MaxUnreliable = 0
    MaxPackets <- ThreePackets
    MaxTime = 1
CHECK_DEADLOCK FALSE
INVARIANTS
    DeliveredInOrder
