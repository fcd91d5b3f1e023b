CONSTANTS
    source = source
    relay = relay
    sink = sink
    None = None
    Nodes <- MCNodes
    Rank <- MCRank
    Configs <- MCIsolating
    Capacity = 1
    Count = 3
SPECIFICATION FairSpec
PROPERTY OtherBranchesGoOn
CHECK_DEADLOCK FALSE
