CONSTANTS
    GameThreads = {g1}
    Callers = {c1}
    Targets = {t1}
    PatchAbove = {t1}
    Slots = {s1}
    None = None
    AllHooks = AllHooks
    N = 2
    Ops <- SingleOps
    Unseen = {}
    Left = {}
    ThreadFails <- MCThreadFails
    MaxSuspendCount = 2
    ProtectFails = {}
SPECIFICATION Spec
INVARIANTS
    NotInOverwrittenArea
