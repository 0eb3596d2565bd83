SPECIFICATION Spec
CONSTANTS
    None = None
    MaxAsks = 1
    MaxWork = 2
CHECK_DEADLOCK FALSE
INVARIANTS
    FailedBootReleases
