CONSTANTS
    m1 = m1
    m2 = m2
    m3 = m3
    Messages = {m1, m2, m3}
    QueueCapacity = 1
    CheckpointRecords = 2
    Durable = TRUE
    Troubles = {"message", "disk", "sync", "kill"}
    Input <- MCInput
SPECIFICATION Spec
INVARIANT LiveReading
CHECK_DEADLOCK FALSE
