SPECIFICATION FairSpec
CONSTANTS
    None = None
    Keys = {g1}
    Readers = {r1, r2}
    Writers = {w1, w2}
    TtlMs = 1
    GenerationKeepMs = 1
    MaxVersion = 2
    MaxClears = 1
    MaxNow = 2
INVARIANTS TypeOK CacheCoherent SingleFlight
PROPERTIES AnswersNeverGoBack EveryReadSettles
CHECK_DEADLOCK FALSE
