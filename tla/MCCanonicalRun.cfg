CONSTANTS
    arm = arm
    camera = camera
    None = None
    Units <- MCUnits
    Faults = {"append", "fsync", "status", "record", "inspect", "stop"}
    MaxTorn = 1
    MaxEvents = 1
    MaxCalls = 2
SPECIFICATION Spec
INVARIANT TypeOK
INVARIANT EvidenceFirst
INVARIANT NoUntrackedExecution
INVARIANT VerdictSound
INVARIANT OneOutcome
CHECK_DEADLOCK FALSE
SYMMETRY Symmetry
