SPECIFICATION Spec
CONSTANTS
    Ips = {x, y}
    m_mtu = 2
    Sizes = {1, 3}
    MaxSockets = 3
    MaxSends = 3
INVARIANTS
    TypeOK
    DeliversAllInOrder
    AnswerReachesSender
    StatsBalance
    BytesBalance
SYMMETRY Symmetry
