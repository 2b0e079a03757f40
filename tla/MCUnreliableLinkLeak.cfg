SPECIFICATION Spec
CONSTANTS
    A = a
    B = b
    UPeers = {a, b}
    Capacity = 4
    CountModulus = 2
    MinRoom = 4
    MaxRoom = 9
    MaxSize = 2
    MaxMessages = 5
    MaxPackets = 4
CHECK_DEADLOCK FALSE
INVARIANTS
    DroppedFreesBuffer
