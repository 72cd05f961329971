SPECIFICATION FairSpec
CONSTANTS
    None = None
    Thread = {t1, t2}
    Conn = {c1, c2}
    MaxIdle = 1
    MaxTime = 1
    MaxCalls = 2
    MaxDrops = 2
PROPERTIES
    CallsReturn
