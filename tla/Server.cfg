SPECIFICATION Spec
CONSTANTS
    Conns = {1, 2}
    Ctxs = {1, 2, 3, 4}
    Wrappers = {1, 2}
    Settings <- MCSettings
    Nil = Nil
INVARIANTS
    AnswersInOrder
    ContextsApart
    LimitsKept
CHECK_DEADLOCK FALSE
