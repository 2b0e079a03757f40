SPECIFICATION FairSpec
CONSTANTS
    A = a
    B = b
    Host = {a, b}
    IdModulus = 8
    AckWindow = 2
    PacketTimeout = 1
    MaxPackets = 3
    MaxTime = 2
INVARIANTS
    TypeOK
    FateReportedOnce
    AckedWasAccepted
    AckFateIsFinal
    AcceptedInOrder
    AcksAccounted
    PendingAcksAscend
PROPERTIES
    KeepsContract
    EveryFateReported
