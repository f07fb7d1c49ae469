SPECIFICATION CallSpec
CONSTANTS
    Commands = {"GET", "WATCH", "UNWATCH", "MULTI", "EXEC", "DISCARD", "SUBSCRIBE", "PSUBSCRIBE", "MONITOR"}
    MaxCmds = 4
    MaxPushes = 2
    KeyPre <- MCKeyPre
    Calls <- MCCalls
    MaxCalls = 3
    NoCall = NoCall
INVARIANTS
    CleanInPool
    DoGetsItsReply
    CallsTellTheTruth
PROPERTY
    CloseEnds
