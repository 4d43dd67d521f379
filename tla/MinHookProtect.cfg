CONSTANTS
    GameThreads = {g1}
    Callers = {c1}
    Targets = {t1}
    PatchAbove = {}
    Slots = {s1}
    None = None
    AllHooks = AllHooks
    N = 2
    Ops <- TogetherOps
    Unseen = {}
    Left = {}
    ThreadFails <- MCThreadFails
    MaxSuspendCount = 2
    ProtectFails = {FALSE}
SPECIFICATION Spec
INVARIANTS
    NotInOverwrittenArea
