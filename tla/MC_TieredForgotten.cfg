SPECIFICATION TieredSpec
CONSTANTS
    None = None
    Keys = {g1}
    Guild = g1
    WritingProcs = {p1}
    PeekingProcs = {p1}
    Procs = {p1}
    TtlMs = 1
    LoadMs = 1
    GenerationKeepMs = 2
    MayFail = FALSE
    MaxWrites = 2
    MaxClock = 2
PROPERTIES ForgettingIsHarmless
CHECK_DEADLOCK FALSE
