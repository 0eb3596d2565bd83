SPECIFICATION Spec
CONSTANTS
    None = None
    Keys = {g1}
    Guild = g1
    Ops = {o1, o2, o3}
    Messages = {m1, m2}
    Channels = {c1}
    MaxAttempts = 2
    TtlMs = 1
    GenerationKeepMs = 1
    MaxNow = 1
INVARIANTS GreetsAsSaved ChangesKept
SYMMETRY Alike
CHECK_DEADLOCK FALSE
