\* A pool of two connections and two callers, each of which may want two at once.
SPECIFICATION Spec
CONSTANTS
    Callers = {c1, c2}
    Conns = {k1, k2}
    None = None
    TxCallers = {c1}
    MaxAttempts = 2
    MaxSteps = 2
    MaxBreaks = 1
INVARIANTS
    PoolHygiene
    OnlyLostAnswersMislead
PROPERTIES
    DoesAtomicWork
    EveryCallerIsAnswered
\* Every caller asks once, so the system comes to rest.
CHECK_DEADLOCK FALSE
