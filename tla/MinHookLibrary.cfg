CONSTANTS
    GameThreads = {}
    Callers = {c1, c2, c3}
    Targets = {t1, t2}
    PatchAbove = {t2}
    Slots = {s1, s2}
    None = None
    AllHooks = AllHooks
    N = 2
    Ops <- LibraryOps
    Unseen = {c2, c3}
    Left = {c3}
    ThreadFails <- MCThreadFails
    MaxSuspendCount = 2
    ProtectFails = {TRUE, FALSE}
SPECIFICATION FairSpec
INVARIANTS
    TypeOK
    MutualExclusion
    SuspensionAccounted
    TableConsistent
    PatchedIffEnabled
    SuccessIsComplete
PROPERTIES
    ThreadsResumed
    LockReleased
