\* /ping and the watch job, or two users, twice each.
SPECIFICATION HealthSpec
CONSTANTS
    Checkers = {ping, watch}
    Nothing = Nothing
    Elsewhere = Elsewhere
    MaxReports = 2
INVARIANT
    CacheAlarmsAreExplained
PROPERTY
    EveryReportEnds
