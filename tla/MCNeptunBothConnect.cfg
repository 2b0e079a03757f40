SPECIFICATION Spec
CONSTANTS
    A = a
    B = b
    Host = {a, b}
    Managers = {a, b}
    Peers = {a, b}
    UPeers = {a, b}
    IdModulus = 16
    AckWindow = 2
    PacketTimeout = 1
    NumRedundantPackets = 0
    MaxReadPacketSize <- Limits
    StaleBytes = {0}
    Capacity = 1
    SequenceModulus = 8
    CountModulus = 8
    Initiators = {a, b}
    Senders = {a, b}
    Unordered = FALSE
    RateLimited = FALSE
    PacketRoom = 18
    MaxReliable = 0
    MaxUnreliable = 0
    MaxPackets <- ThreePackets
    MaxTime = 1
CHECK_DEADLOCK FALSE
INVARIANTS
    HandshakeNotStuck
