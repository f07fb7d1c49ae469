SPECIFICATION Spec
CONSTANTS
    Callers = {t1, t2}
    Ops = {"Do", "batch"}
    MaxActive = 1
    MaxPools = 3
    NoConn = NoConn
INVARIANT
    ConnsAreReturned
CHECK_DEADLOCK FALSE
