CONSTANTS
    TRAMPOLINE_MAX_SIZE = 32
    MaxIPs = 8
    MaxLength = 4
    Backward = TRUE
SPECIFICATION Spec
INVARIANTS
    JumpsLandRight
CHECK_DEADLOCK FALSE
