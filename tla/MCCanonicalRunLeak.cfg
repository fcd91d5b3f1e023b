CONSTANTS
    arm = arm
    camera = camera
    None = None
    Units <- MCUnits
    Faults = {}
    MaxTorn = 0
    MaxEvents = 1
    MaxCalls = 1
SPECIFICATION Spec
INVARIANT NoLiveSystemLeft
CHECK_DEADLOCK FALSE
