CONSTANTS
    c1 = c1
    c2 = c2
    c3 = c3
    Callers = {c1, c2, c3}
    Works = {1, 2, 3, 4}
    Settings <- MCSettings
SPECIFICATION Spec
INVARIANTS
    AnswersMatch
PROPERTIES
    DeadlinesEnd
    OnlyQueuedWorkWaits
CHECK_DEADLOCK FALSE
