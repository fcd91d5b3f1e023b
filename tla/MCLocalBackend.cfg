CONSTANTS
    w1 = w1
    w2 = w2
    m1 = m1
    m2 = m2
    m3 = m3
    Messages = {m1, m2, m3}
    QueueCapacity = 1
    CheckpointRecords = 2
    Durable = TRUE
    Troubles = {"message", "disk", "sync", "kill", "power", "node", "run"}
    Workers <- MCWorkers
    Output <- MCOutput
SPECIFICATION FairSpec
INVARIANT TypeOK
INVARIANT Readable
INVARIANT EndedIsRecorded
PROPERTY ExecutionEnds
CHECK_DEADLOCK FALSE
