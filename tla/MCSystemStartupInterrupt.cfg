CONSTANTS
    driver = driver
    sensor = sensor
    localization = localization
    mapping = mapping
    None = None
    Scopes <- MCScopes
    Children <- MCChildren
    Rank <- MCRank
    Plans <- MCPlans
    Statuses <- MCStatuses
    PollInterval = 2
    MaxDelay = 3
SPECIFICATION Spec
INVARIANT InterruptedBeforeStart
CHECK_DEADLOCK FALSE
