SPECIFICATION Spec
CONSTANTS
    Procs = {p1, p2}
    None = None
    EveryMs = 2
    MinRenewMs = 1
    CallMs = 1
    Stoppable = {p1}
    LockKinds = {"redis", "local", "none"}
    MaxMisses = 2
INVARIANTS
    OneRunPerProcess
    OneTrustedHolder
PROPERTIES
    ImplementsLease
    KeepsRunning
