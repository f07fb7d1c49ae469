SPECIFICATION MCSpec
CONSTANTS
    Threads = {r1, r2, r3}
    Idempotent = {r1, r2}
    Wrappers = {1, 2}
    Cleaners = {1, 2}
    MaxConns = 2
    MaxAttempts = 2
    Nil = Nil
    u1 = u1
    r3 = r3
    Dials = {1, 2}
    MaxDials = 1
    Addrs = 2
    Callers = {u1, u2}
    Kits = {1, 2}
    MaxPenalty = 1
    MaxRedirects = 1
    MaxUint = 100
    Settings <- MCSettings
    Schemes = {"http"}
    HostNames = {"a", "b"}
    HostClients = {1, 2, 3, 4}
    Visitors = {"v", "w"}
    Sweepers = {1, 2}
    NoClient = 0
INVARIANTS
    AnswersAreOwn
    DialerKeepsItsBooks
    PenaltiesAreOwed
    EachMapHasItsCleaner
PROPERTIES
    ImplementsLease
    Quiesces
