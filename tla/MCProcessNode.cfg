SPECIFICATION Spec
CONSTANTS
    Setups <- MCSetups
    Slots = {s1}
    Calls = 2
    MaxRestarts = 1
    MaxFaults = 2
    None = None
CHECK_DEADLOCK FALSE
INVARIANT TypeOK
INVARIANT SafeExchange
INVARIANT Lifetimes
PROPERTY CallsEnd
