SPECIFICATION Spec
CONSTANTS
    recorder = recorder
    viewer = viewer
    None = None
    Subscribers <- MCSubscribers
    Conns <- MCConns
    Owner <- MCOwner
    MaxMessages = 3
    MaxClients = 2
    MaxHandshakes = 1
    WireRoom = 0
    MaxFaults = 1
    Setups <- MCSetups
    Stuck = {recorder}
    Closers = {viewer}
    Attempts <- MCAttempts
    Budget = 1
INVARIANT TypeOK
INVARIANT ClientsAccounted
INVARIANT InOrder
PROPERTY SlowViewerHarmless
PROPERTY CloseEndsAll
CHECK_DEADLOCK FALSE
