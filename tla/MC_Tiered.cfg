SPECIFICATION TieredSpec
CONSTANTS
    None = None
    Keys = {g1}
    Guild = g1
    WritingProcs = {p1}
    PeekingProcs = {p1}
    Procs = {p1, p2}
    TtlMs = 1
    LoadMs = 1
    GenerationKeepMs = 2
    MayFail = TRUE
    MaxWrites = 1
    MaxClock = 4
INVARIANTS BoundedStaleness ExactWithoutRaces
PROPERTIES NothingOutdatedIsStored
CHECK_DEADLOCK FALSE
