SPECIFICATION FairSpec
CONSTANTS
    Threads = {t1, t2, t3}
    Conns = {c1, c2, c3}
    Nobody = Nobody
    Configs <- MCConfigs
INVARIANTS
    NoLostWakeup
PROPERTIES
    ImplementsLease
    WaitersAreWoken
