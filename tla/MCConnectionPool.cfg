SPECIFICATION Spec
CONSTANTS
    None = None
    Thread = {t1, t2}
    Conn = {c1, c2, c3}
    MaxIdle = 2
    MaxTime = 2
    MaxCalls = 3
    MaxDrops = 1
SYMMETRY MCSymmetry
INVARIANTS
    IInv
    ExclusiveUse
PROPERTIES
    MRUFirst
    OnlyHolderDestroys
    SafeGrabRemovesDead
    LendsLikeALibrary
