SPECIFICATION Spec
CONSTANTS
    A = a
    B = b
    Host = {a, b}
    Managers = {a, b}
    Peers = {a, b}
    UPeers = {a, b}
    IdModulus = 16
    AckWindow = 2
    PacketTimeout = 1
    NumRedundantPackets = 0
    MaxReadPacketSize <- ShortLimits
    StaleBytes = {0, 150}
    Capacity = 2
    SequenceModulus = 8
    CountModulus = 8
    Initiators = {a}
    Senders = {b}
    Unordered = TRUE
    RateLimited = TRUE
    PacketRoom = 18
    MaxReliable = 2
    MaxUnreliable = 2
    MaxPackets <- ThreePackets
    MaxTime = 1
CONSTRAINT NoReject
CHECK_DEADLOCK FALSE
INVARIANTS
    DeliveredInOrder
    UnreliableInOrder
