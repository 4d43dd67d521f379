SPECIFICATION Spec
CONSTANTS
    DWORDSize = 1024
    Buttons = {0, 1, 2}
    Scenarios <- MCScenarios
    GameSlots = {7, 9}
    Listed = {"dog", "box"}
    Unlisted = "other"
    Skills <- MCSkills
    Subjects = {"space", "autored", "vend", "pilot", "a", "b", "c"}
    MaxNotifications = 0
INVARIANTS
    ReleasesSeen
    CaptureReleased
    OnePressOneToggle
PROPERTIES
    NotificationsRendered
    ScanExact
    PatchesFollow
    PilotFollows
    ListedValueReplaced
CHECK_DEADLOCK FALSE
