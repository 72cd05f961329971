SPECIFICATION Spec
CONSTANTS
    Connections = {c1, c2}
    None = None
    MaxSessions = 3
SYMMETRY Symmetry
INVARIANTS
    IInv
    ErrorIsTheLatest
PROPERTIES
    CopyKeepsFlags
