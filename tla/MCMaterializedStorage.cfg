CONSTANTS
    r1 = r1
    r2 = r2
    None = None
    Revisions <- MCRevisions
    Clients = {c1, c2, c3}
    Calls <- MCCalls
    Initial <- MCInitial
    MaxCalls = 1
    MaxCrashes = 1
SPECIFICATION Spec
INVARIANT TypeOK
INVARIANT NothingLeftBehind
PROPERTY IsRevisionStore
PROPERTY DeletesOnlyFree
PROPERTY NoSpuriousFailure
SYMMETRY Symmetry
CHECK_DEADLOCK FALSE
