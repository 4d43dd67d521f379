CONSTANTS
    GameThreads = {g1}
    Callers = {c1}
    Targets = {t1, t2}
    PatchAbove = {t2}
    Slots = {s1, s2}
    None = None
    AllHooks = AllHooks
    N = 3
    Ops <- SafeOps
    Unseen = {}
    Left = {g1}
    ThreadFails <- MCThreadFails
    MaxSuspendCount = 2
    ProtectFails = {TRUE}
SPECIFICATION FairSpec
PROPERTIES
    Transparent
