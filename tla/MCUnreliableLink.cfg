SPECIFICATION Spec
CONSTANTS
    A = a
    B = b
    UPeers = {a, b}
    Capacity = 4
    CountModulus = 3
    MinRoom = 4
    MaxRoom = 11
    MaxSize = 2
    MaxMessages = 5
    MaxPackets = 4
CHECK_DEADLOCK FALSE
INVARIANTS
    TypeOK
    SpansIntact
    ReceivedInOrder
    WrittenIsDelivered
