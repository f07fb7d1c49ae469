SPECIFICATION StartSpec
CONSTANTS
    a = a
    b = b
    t = t
    None = None
    One = One
    Blank = Blank
    NoModel = NoModel
    NilPool = NilPool
    Users = {u1}
    Callers = {u1, u2}
    Cols = {a, b}
    Tables = {t}
    Clauses = {"RowsNum", "GroupByStr"}
    Structs <- MCStructs
    Conditions <- MCConditions
    Jobs <- MCJobs
    Flags <- MCFlags
    Durations <- MCDurations
    TlsConfigs <- MCTlsConfigs
    Locations <- MCLocations
    UnsafeCollations <- MCUnsafeCollations
INVARIANTS
    ArgsFitPlaceholders
    NothingCarriedOver
    BuiltAsConfigured
    WrittenReadsBack
    FoundAsSaved
CHECK_DEADLOCK FALSE
