CONSTANTS
    MaxClicks = 2
    ClickCap = 3
SPECIFICATION FairSpec
INVARIANTS
    TypeOK
    NeverRefused
    UnlockedOnce
    NoRaceOnCache
PROPERTIES
    GrantNotRevoked
    RequestOnlyAfterDenial
    ImplementsActivation
    VerdictReached
    ActivationArrives
\* The process may exit or be terminated, and a closed overlay draws no frame.
CHECK_DEADLOCK FALSE
