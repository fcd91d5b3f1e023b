CONSTANTS
    driver = driver
    sensor = sensor
    localization = localization
    mapping = mapping
    None = None
    Scopes <- MCScopes
    Children <- MCChildren
    Rank <- MCRank
    Plans <- MCPlans
    Statuses <- MCStatuses
    PollInterval = 2
    MaxDelay = 3
SPECIFICATION FairSpec
INVARIANT TypeOK
INVARIANT DependenciesFirst
INVARIANT WaitsOnlyForUnmet
INVARIANT TopologyProgresses
INVARIANT NothingUnowned
PROPERTY LatchInTime
PROPERTY StartEnds
CHECK_DEADLOCK FALSE
