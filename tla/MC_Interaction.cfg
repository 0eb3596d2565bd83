SPECIFICATION Spec
CONSTANTS
    None = None
    Limit = 2
    WindowMs = 2
    AutoDeferAfter = 1
    DeadlineMs = 3
    CallMs = 1
    Lags = {0, 1}
    MayFail = TRUE
    MaxNow = 3
INVARIANTS
    OneFirstReply
    AnsweredInTime
    SaysOneThing
    CooldownHolds
    FailuresAreWhispered
PROPERTIES
    EveryInteractionCompletes
CHECK_DEADLOCK FALSE
