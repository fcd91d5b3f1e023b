CONSTANTS
    source = source
    relay = relay
    sink = sink
    None = None
    Nodes <- MCNodes
    Rank <- MCRank
    Configs <- MCConfigs
    Capacity = 1
    Count = 2
SPECIFICATION FairSpec
INVARIANT TypeOK
INVARIANT OrderPreserved
INVARIANT CompletedIsComplete
PROPERTY WorkersEnd
CHECK_DEADLOCK FALSE
