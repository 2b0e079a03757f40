SPECIFICATION FairSpec
CONSTANTS
    A = a
    B = b
    Peers = {a, b}
    Senders = {a}
    Capacity = 2
    SequenceModulus = 3
    PacketRoom = 17
    MaxSize = 2
    MaxMessages = 4
    MaxEmpty = 1
    MaxLost = 2
INVARIANTS
    TypeOK
    StatusAssertionsHold
    BufferTiled
    BytesIntact
    DeliveredInOrder
    ConsumedWasDelivered
PROPERTIES
    ImplementsChannel
