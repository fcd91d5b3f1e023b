CONSTANTS
    t1 = t1
    t2 = t2
    t3 = t3
    None = None
    Threads <- MCThreads
    Policies = {"block", "latest", "drop_oldest", "drop_newest"}
    Capacity = 2
    MaxPuts = 4
SPECIFICATION FairSpec
INVARIANT TypeOK
INVARIANT Bookkeeping
INVARIANT NoLostWakeup
PROPERTY CloseReleases
PROPERTY IsFifo
