SPECIFICATION LimitSpec
CONSTANTS
    None = None
    Thread = {t1}
    Conn = {c1, c2, c3}
    MaxIdle = 1
    MaxTime = 2
    MaxCalls = 6
    MaxDrops = 2
    Limit = 1
    Width = 16
SYMMETRY MCSymmetry
INVARIANTS
    LimitKept
    LimitInv
