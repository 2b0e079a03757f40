SPECIFICATION Spec
CONSTANTS
    Second = 13
    Rates = {0, 2, 3, 5}
    Jumps <- MCJumps
    MaxTime = 16
INVARIANTS
    TypeOK
    RatesRespected
    NotHeldBack
    KeepsPace
