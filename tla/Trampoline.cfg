CONSTANTS
    TRAMPOLINE_MAX_SIZE = 16
    MaxIPs = 5
    MaxLength = 4
    Backward = FALSE
SPECIFICATION Spec
INVARIANTS
    TypeOK
    JumpsLandRight
    LeavesBehindPatch
CHECK_DEADLOCK FALSE
