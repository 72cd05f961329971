SPECIFICATION Spec
CONSTANTS
    Before = {b1, b2}
    Anytime = {any}
    After = {a}
    Unsupported = {u}
    MaxConnects = 3
INVARIANTS
    IInv
    FirstConnectApplies
