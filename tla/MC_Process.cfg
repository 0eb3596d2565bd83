SPECIFICATION Spec
CONSTANTS
    None = None
    MaxAsks = 3
    MaxWork = 2
CHECK_DEADLOCK FALSE
INVARIANTS
    TornDownInOrder
    ExitsHonestly
    ReadyMeansUp
PROPERTIES
    WorkFindsItsServices
    StopsWhenAsked
