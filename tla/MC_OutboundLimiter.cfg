SPECIFICATION Spec
CONSTANTS
    None = None
    a1 = a1
    a2 = a2
    a3 = a3
    b0 = b0
    g1 = g1
    g2 = g2
    Actions <- MCActions
    Guilds <- MCGuilds
    GuildOf <- MCGuildOf
    CircuitOf <- MCCircuitOf
    CircuitKeys <- MCGuilds
    PriorityOf <- MCPriorityOf
    FailureThreshold = 1
    CircuitWindowMs = 1
    CooldownMs = 1
    BudgetWindowMs = 2
    BudgetMaxActions = 1
    GlobalWindowMs = 1
    GlobalMaxActions = 1
    ConcurrencyPerGuild = 1
    QueueMaxPerGuild = 2
    QueueTimeoutMs = 2
    LastRequest = 1
    MaxNow = 3
INVARIANTS LaneAccounting ProbeIsHeld
PROPERTIES PacedStarts UrgentFirst EveryActionSettles
CHECK_DEADLOCK FALSE
