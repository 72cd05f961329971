SPECIFICATION Spec
CONSTANTS
    MaxRows = 1
    MaxStatements = 3
    MaxQueries = 2
    MaxLater = 2
    Holders = {a, b}
    NoResult = NoResult
INVARIANTS IInv BusyOnlyIfHeld InOrder Told
PROPERTIES UnreadRowsKept DrainEnds
