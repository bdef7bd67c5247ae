SPECIFICATION MCSpec
CONSTANTS
    None = None
    Port = {p, q}
    End = 9
    Unit = 2
    MinAge = 1
    MaxMultiplier = 3
    MaxFetches = 2
    MaxFails = 1
    CacheEnd = 2
    Window = 2
    Limit = 1
    MaxRequests = 2
    CacheFetches = 3
    Windows = {10, 40}
    InitialInterval = 20
    Opened = 100
    Marks = {70, 75, 95, 110}
    MaxSteps = 4
    MaxUnder = 2
    MaxLength = 5
    Values = {0, 1, 2}
    MaxPoints = 4
    Span = 3
    Multipliers <- Factors
    Tops = {4, 5}
    Grain = 2
INVARIANTS GroupsAreRight  ChartCovers ChartTells
CHECK_DEADLOCK FALSE
