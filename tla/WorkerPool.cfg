SPECIFICATION FairSpec
CONSTANTS
    Conns = {c1, c2, c3}
    Chans = {w1, w2, w3}
    MaxWorkersCount = 2
    Caps = {0, 1}
    Nil = Nil
    Empty = Empty
INVARIANTS
    OneSenderPerIdleWorker
PROPERTIES
    AcceptedIsAnswered
    StopEndsWorkers
CHECK_DEADLOCK FALSE
