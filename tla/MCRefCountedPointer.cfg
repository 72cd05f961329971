SPECIFICATION Spec
CONSTANTS
    t1 = t1
    t2 = t2
    v1 = v1
    v2 = v2
    v3 = v3
    None = None
    Thread = {t1, t2}
    Var = {v1, v2, v3}
    Owner <- Owners
    Shared = {v1, v2}
    Obj = {o1, o2, o3, o4}
    Cell = {k1, k2, k3, k4}
SYMMETRY Addresses
INVARIANTS
    IInv
    NothingDangles
PROPERTIES
    LastOneDestroys
