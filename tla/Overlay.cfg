CONSTANTS
    MaxNeed = 2
    Margin = 0
    SameThread = TRUE
SPECIFICATION FairSpec
INVARIANTS
    TypeOK
    ResetFindsNothing
    DrawsFit
    NoDanglingTexture
    MessagesReachGame
PROPERTIES
    MenuAppears
    DeviceRecovers
    FontRestored
