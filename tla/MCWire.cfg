SPECIFICATION Spec
CONSTANTS
    A = a
    B = b
    AddressOf <- MCAddressOf
    Packets <- MCPackets
    OtherFrames <- MCOtherFrames
    BufferSize = 64
    snaplen = 100
    MaxFrames = 2
INVARIANTS
    TypeOK
    ReadAsWritten
    ShownAsCaptured
    FormattedAsWritten
CHECK_DEADLOCK FALSE
