------------------------------ MODULE MinHook -------------------------------
(***************************************************************************)
(* minhook/hook.c: the table of hooks behind a spin lock, and the patching *)
(* of functions that threads of the game may be executing.                 *)
(*                                                                         *)
(* An address is a point of a function: instruction i of the prologue of a *)
(* target (i = N is the first instruction behind the moved ones), the same *)
(* instruction in a trampoline (i = N is its jump back), the jump above a  *)
(* target, or a detour.  A detour calls the original once, through the     *)
(* pointer MH_CreateHook stored, and returns.  A function short enough to  *)
(* be moved whole is patched above it; N then stands for its return.       *)
(***************************************************************************)
EXTENDS Integers, FiniteSets, Sequences, FiniteSetsExt

CONSTANTS
    GameThreads,    \* threads that call the hooked functions
    Callers,        \* threads that call the MH_ functions
    Targets,        \* functions that can be hooked
    PatchAbove,     \* those whose jump is written above them
    Slots,          \* buffers for trampolines
    None,           \* no target, no slot
    AllHooks,       \* MH_ALL_HOOKS
    N,              \* instructions moved to a trampoline
    Ops,            \* the calls made, pairs of an operation and a target
    ThreadFails,    \* pairs of one of ThreadCalls and a thread it may fail for
    ProtectFails,   \* VirtualProtect may fail when it enables (TRUE), disables
    MaxSuspendCount \* Windows' MAXIMUM_SUSPEND_COUNT

Operations == {"Initialize", "Uninitialize", "Create", "Remove", "Enable",
               "Disable", "QueueEnable", "QueueDisable", "Apply"}

\* What Freeze and Unfreeze ask of Windows for a thread, which may fail with no
\* one told: "open" and "reopen" are their calls of OpenThread, "context" is
\* GetThreadContext or SetThreadContext.
ThreadCalls == {"snapshot", "open", "suspend", "context", "reopen"}

ASSUME HookAssumption ==
    /\ Targets # {} /\ PatchAbove \subseteq Targets
    /\ ThreadFails \subseteq ThreadCalls \X (GameThreads \cup Callers)
    /\ MaxSuspendCount \in Nat \ {0}
    /\ GameThreads \cap Callers = {}
    /\ None \notin Targets \cup Slots
    /\ AllHooks \notin Targets
    /\ N \in Nat \ {0}
    /\ Ops \subseteq Operations \X (Targets \cup {AllHooks})
    /\ ProtectFails \subseteq BOOLEAN

VARIABLES
    g_isLocked,     \* the spin lock
    g_hHeap,        \* the library is initialized
    g_hooks,        \* the hook entries
    buffers,        \* which target's trampoline each slot holds
    orig,           \* *ppOriginal of each target's MH_CreateHook
    patched,        \* the targets whose prologue holds the jump
    cpc,            \* where each caller is
    op,             \* the call each caller executes, NoCall outside
    ok,             \* its status is MH_OK
    todo,           \* threads it has yet to suspend
    held,           \* threads it has been through and has yet to resume
    suspended,      \* suspend count of each thread
    ip,             \* instruction pointer of each game thread
    fn,             \* the target each game thread is calling
    viaDetour       \* that call is the detour's

table == <<g_hHeap, g_hooks, buffers, orig, patched>>
local == <<cpc, op, ok, todo, held>>
game  == <<ip, fn, viaDetour>>
vars  == <<g_isLocked, table, local, suspended, game>>

Threads == GameThreads \cup Callers

At(kind, where, i) == [kind |-> kind, where |-> where, i |-> i]
NoCall  == <<"none", AllHooks>>
Out     == At("out", None, 0)
Crashed == At("crashed", None, 0)

Addresses ==
    {Out, Crashed}
      \cup [kind : {"target"}, where : Targets, i : 0..N]
      \cup [kind : {"trampoline"}, where : Slots, i : 0..N]
      \cup [kind : {"above", "detour", "returned"}, where : Targets, i : {0}]

HookEntries == [pTarget : Targets, pTrampoline : Slots,
                isEnabled : BOOLEAN, queueEnable : BOOLEAN]

Points == {"idle", "spin", "body", "freeze", "patch", "unfreeze", "free", "leave"}

TypeOK ==
    /\ g_isLocked \in BOOLEAN
    /\ g_hHeap \in BOOLEAN
    /\ g_hooks \in Seq(HookEntries)
    /\ buffers \in [Slots -> Targets \cup {None}]
    /\ orig \in [Targets -> Slots \cup {None}]
    /\ patched \subseteq Targets
    /\ cpc \in [Callers -> Points]
    /\ op \in [Callers -> (Operations \X (Targets \cup {AllHooks})) \cup {NoCall}]
    /\ ok \in [Callers -> BOOLEAN]
    /\ todo \in [Callers -> SUBSET Threads]
    /\ held \in [Callers -> SUBSET Threads]
    /\ suspended \in [Threads -> 0..MaxSuspendCount]
    /\ ip \in [GameThreads -> Addresses]
    /\ fn \in [GameThreads -> Targets]
    /\ viaDetour \in [GameThreads -> BOOLEAN]

Init ==
    /\ g_isLocked = FALSE
    /\ g_hHeap = FALSE
    /\ g_hooks = <<>>
    /\ buffers = [s \in Slots |-> None]
    /\ orig = [t \in Targets |-> None]
    /\ patched = {}
    /\ cpc = [c \in Callers |-> "idle"]
    /\ op = [c \in Callers |-> NoCall]
    /\ ok = [c \in Callers |-> TRUE]
    /\ todo = [c \in Callers |-> {}]
    /\ held = [c \in Callers |-> {}]
    /\ suspended = [x \in Threads |-> 0]
    /\ ip = [g \in GameThreads |-> Out]
    /\ fn = [g \in GameThreads |-> CHOOSE t \in Targets : TRUE]
    /\ viaDetour = [g \in GameThreads |-> FALSE]

Running(x) == suspended[x] = 0

CanFail(call, x) == <<call, x>> \in ThreadFails

-----------------------------------------------------------------------------
(* The hook table. *)

Entries == DOMAIN g_hooks

\* FindHookEntry: the entry of a target, if there is one.
Found(t) == \E i \in Entries : g_hooks[i].pTarget = t
FindHookEntry(t) == CHOOSE i \in Entries : g_hooks[i].pTarget = t

\* DeleteHookEntry: the last entry takes the place of the deleted one.
DeleteHookEntry(pos) ==
    [i \in 1..(Len(g_hooks) - 1) |->
        IF i = pos THEN g_hooks[Len(g_hooks)] ELSE g_hooks[i]]

Operation(c) == op[c][1]
Target(c)    == op[c][2]

\* The state a call gives a hook, and the entries it is about.
Wanted(c, hook) ==
    CASE Operation(c) = "Enable"  -> TRUE
      [] Operation(c) = "Apply"   -> hook.queueEnable
      [] OTHER                    -> FALSE

Scope(c) ==
    IF Operation(c) \in {"Apply", "Uninitialize"} \/ Target(c) = AllHooks
    THEN Entries
    ELSE {FindHookEntry(Target(c))}

Pending(c) == {i \in Scope(c) : g_hooks[i].isEnabled # Wanted(c, g_hooks[i])}

\* The action a call passes to Freeze: EnableHook passes ACTION_ENABLE for a
\* single target whether it enables or disables it.
FreezeAction(c, hook) ==
    IF Operation(c) \in {"Enable", "Disable"} /\ Target(c) # AllHooks
    THEN TRUE
    ELSE Wanted(c, hook)

\* FindNewIP and FindOldIP, NoIP when they return 0.
NoIP == Out

\* Mutant: the table of new positions is off by one instruction.
FindNewIPShifted(hook, a) ==
    IF a.kind = "target" /\ a.where = hook.pTarget
    THEN At("trampoline", hook.pTrampoline, IF a.i = N THEN N ELSE a.i + 1)
    ELSE NoIP

FindNewIP(hook, a) ==
    IF a.kind = "target" /\ a.where = hook.pTarget
    THEN At("trampoline", hook.pTrampoline, a.i)
    ELSE NoIP

FindOldIP(hook, a) ==
    CASE a.kind = "above" /\ a.where = hook.pTarget
            -> At("target", hook.pTarget, 0)
      [] a.kind = "trampoline" /\ a.where = hook.pTrampoline
            -> At("target", hook.pTarget, a.i)
      [] OTHER -> NoIP

\* ProcessThreadIPs: entries already in the state asked for are skipped.  No
\* two entries share a target or a trampoline, so at most one of them moves
\* the thread.
ProcessThreadIPs(c, a) ==
    LET moved(hook) == IF FreezeAction(c, hook) THEN FindNewIP(hook, a)
                                                ELSE FindOldIP(hook, a)
        moves == {i \in Scope(c) :
                    /\ g_hooks[i].isEnabled # FreezeAction(c, g_hooks[i])
                    /\ moved(g_hooks[i]) # NoIP}
    IN  IF moves = {} THEN a ELSE moved(g_hooks[Min(moves)])

-----------------------------------------------------------------------------
(* The callers. *)

Goto(c, label) == cpc' = [cpc EXCEPT ![c] = label]

Invoke(c) ==
    /\ Running(c)
    /\ cpc[c] = "idle"
    /\ Goto(c, "spin")
    /\ UNCHANGED <<g_isLocked, table, op, ok, todo, held, suspended, game>>

\* Mutant: the spin lock is taken without a compare-and-exchange.
EnterSpinLockBlind(c) ==
    /\ Running(c)
    /\ cpc[c] = "spin"
    /\ g_isLocked' = TRUE
    /\ \E o \in Ops : op' = [op EXCEPT ![c] = o]
    /\ ok' = [ok EXCEPT ![c] = TRUE]
    /\ Goto(c, "body")
    /\ UNCHANGED <<table, todo, held, suspended, game>>

\* Which call it is makes no difference before the lock is held.
EnterSpinLock(c) ==
    /\ Running(c)
    /\ cpc[c] = "spin"
    /\ ~g_isLocked
    /\ g_isLocked' = TRUE
    /\ \E o \in Ops : op' = [op EXCEPT ![c] = o]
    /\ ok' = [ok EXCEPT ![c] = TRUE]
    /\ Goto(c, "body")
    /\ UNCHANGED <<table, todo, held, suspended, game>>

InBody(c, operation) ==
    /\ Running(c)
    /\ cpc[c] = "body"
    /\ Operation(c) = operation
    /\ UNCHANGED <<g_isLocked, op, held, suspended, game>>

\* The call ends, with MH_OK or another status.
Finish(c, success) ==
    /\ Goto(c, "leave")
    /\ ok' = [ok EXCEPT ![c] = success]
    /\ UNCHANGED todo

\* HeapCreate may fail.
MH_Initialize(c) ==
    /\ InBody(c, "Initialize")
    /\ \/ /\ ~g_hHeap
          /\ g_hHeap' = TRUE
          /\ Finish(c, TRUE)
       \/ /\ UNCHANGED g_hHeap
          /\ Finish(c, FALSE)
    /\ UNCHANGED <<g_hooks, buffers, orig, patched>>

\* A hook is refused when the library is not initialized, the address is not
\* executable, the target has one, no buffer or entry can be allocated or the
\* prologue cannot be moved; the buffer is freed again then.
CreateRefused(c) ==
    /\ InBody(c, "Create")
    /\ Finish(c, FALSE)
    /\ UNCHANGED table

\* Mutant: the table is not searched for the target.
CreateAgain(c) ==
    /\ InBody(c, "Create")
    /\ g_hHeap
    /\ Target(c) # AllHooks
    /\ \E s \in Slots :
         /\ buffers[s] = None
         /\ buffers' = [buffers EXCEPT ![s] = Target(c)]
         /\ orig' = [orig EXCEPT ![Target(c)] = s]
         /\ g_hooks' = Append(g_hooks, [pTarget     |-> Target(c),
                                        pTrampoline |-> s,
                                        isEnabled   |-> FALSE,
                                        queueEnable |-> FALSE])
    /\ Finish(c, TRUE)
    /\ UNCHANGED <<g_hHeap, patched>>

\* Mutant: the entry is made also if there is no buffer for the trampoline.
CreateUnallocated(c) ==
    /\ InBody(c, "Create")
    /\ g_hHeap
    /\ Target(c) # AllHooks
    /\ ~Found(Target(c))
    /\ g_hooks' = Append(g_hooks, [pTarget     |-> Target(c),
                                   pTrampoline |-> None,
                                   isEnabled   |-> FALSE,
                                   queueEnable |-> FALSE])
    /\ Finish(c, TRUE)
    /\ UNCHANGED <<g_hHeap, buffers, orig, patched>>

MH_CreateHook(c) ==
    /\ InBody(c, "Create")
    /\ g_hHeap
    /\ Target(c) # AllHooks
    /\ ~Found(Target(c))
    /\ \E s \in Slots :
         /\ buffers[s] = None
         /\ buffers' = [buffers EXCEPT ![s] = Target(c)]
         /\ orig' = [orig EXCEPT ![Target(c)] = s]
         /\ g_hooks' = Append(g_hooks, [pTarget     |-> Target(c),
                                        pTrampoline |-> s,
                                        isEnabled   |-> FALSE,
                                        queueEnable |-> FALSE])
    /\ Finish(c, TRUE)
    /\ UNCHANGED <<g_hHeap, patched>>

\* QueueHook, for one target or all.
QueueHook(c) ==
    \E flag \in BOOLEAN :
        /\ InBody(c, IF flag THEN "QueueEnable" ELSE "QueueDisable")
        /\ IF g_hHeap /\ (Target(c) = AllHooks \/ Found(Target(c)))
           THEN /\ g_hooks' = [i \in Entries |->
                     IF i \in Scope(c)
                     THEN [g_hooks[i] EXCEPT !.queueEnable = flag]
                     ELSE g_hooks[i]]
                /\ Finish(c, TRUE)
           ELSE /\ UNCHANGED g_hooks
                /\ Finish(c, FALSE)
        /\ UNCHANGED <<g_hHeap, buffers, orig, patched>>

Patching == {"Enable", "Disable", "Apply", "Remove", "Uninitialize"}

\* A patching call can go to work on its scope.
Ready(c) ==
    /\ g_hHeap
    /\ \/ Operation(c) \in {"Apply", "Uninitialize"}
       \/ Target(c) = AllHooks /\ Operation(c) # "Remove"
       \/ Found(Target(c))

NotReady(c) ==
    /\ \E o \in Patching : InBody(c, o)
    /\ ~Ready(c)
    /\ Finish(c, FALSE)
    /\ UNCHANGED table

\* No hook changes.  Enabling or disabling one target then fails with
\* MH_ERROR_ENABLED or MH_ERROR_DISABLED.
NothingPending(c) ==
    /\ \E o \in Patching : InBody(c, o)
    /\ Ready(c)
    /\ Pending(c) = {}
    /\ ok' = [ok EXCEPT ![c] = Operation(c) \notin {"Enable", "Disable"}
                                 \/ Target(c) = AllHooks]
    /\ Goto(c, IF Operation(c) \in {"Remove", "Uninitialize"} THEN "free"
               ELSE "leave")
    /\ UNCHANGED <<table, todo>>

\* Mutant: the calling thread is in the list too.
EnumerateThreadsSelf(c) ==
    /\ \E o \in Patching : InBody(c, o)
    /\ Ready(c)
    /\ Pending(c) # {}
    /\ \E missed \in SUBSET {x \in Threads : CanFail("snapshot", x)} :
         todo' = [todo EXCEPT ![c] = Threads \ missed]
    /\ Goto(c, "freeze")
    /\ UNCHANGED <<table, ok>>

\* EnumerateThreads: all threads but this one, except those that were started
\* later, or for which there was no snapshot or no memory.
EnumerateThreads(c) ==
    /\ \E o \in Patching : InBody(c, o)
    /\ Ready(c)
    /\ Pending(c) # {}
    /\ \E missed \in SUBSET {x \in Threads : CanFail("snapshot", x)} :
         todo' = [todo EXCEPT ![c] = Threads \ (missed \cup {c})]
    /\ Goto(c, "freeze")
    /\ UNCHANGED <<table, ok>>

\* SuspendThread fails at the greatest count, too.
SuspendThread(x) ==
    \/ suspended' = [suspended EXCEPT ![x] = IF @ < MaxSuspendCount THEN @ + 1 ELSE @]
    \/ CanFail("suspend", x) /\ UNCHANGED suspended

\* ResumeThread does nothing to a thread that runs.
ResumeThread(x) ==
    suspended' = [suspended EXCEPT ![x] = IF @ > 0 THEN @ - 1 ELSE @]

\* The thread's context is read and written in one instant, also if it runs.
MoveThread(c, x) ==
    \/ ip' = IF x \in GameThreads
             THEN [ip EXCEPT ![x] = ProcessThreadIPs(c, @)]
             ELSE ip
    \/ CanFail("context", x) /\ UNCHANGED ip

\* Freeze: suspend one thread and move its instruction pointer.  One that cannot
\* be opened stays in the list.
Freeze(c) ==
    /\ Running(c)
    /\ cpc[c] = "freeze"
    /\ \E x \in todo[c] :
         /\ \/ SuspendThread(x) /\ MoveThread(c, x)
            \/ CanFail("open", x) /\ UNCHANGED <<suspended, ip>>
         /\ todo' = [todo EXCEPT ![c] = @ \ {x}]
         /\ held' = [held EXCEPT ![c] = @ \cup {x}]
    /\ UNCHANGED <<g_isLocked, table, cpc, op, ok, fn, viaDetour>>

Frozen(c) ==
    /\ Running(c)
    /\ cpc[c] = "freeze"
    /\ todo[c] = {}
    /\ Goto(c, "patch")
    /\ UNCHANGED <<g_isLocked, table, op, ok, todo, held, suspended, game>>

\* Mutant: the flag is set before the protection is known to have changed.
EnableHookLLFlagFirst(c) ==
    /\ Running(c)
    /\ cpc[c] = "patch"
    /\ Pending(c) # {}
    /\ LET i      == Min(Pending(c))
           enable == Wanted(c, g_hooks[i])
       IN  /\ g_hooks' = [g_hooks EXCEPT ![i].isEnabled = enable,
                                         ![i].queueEnable = enable]
           /\ \/ /\ patched' = IF enable THEN patched \cup {g_hooks[i].pTarget}
                                         ELSE patched \ {g_hooks[i].pTarget}
                 /\ UNCHANGED <<cpc, ok>>
              \/ /\ enable \in ProtectFails
                 /\ Goto(c, "unfreeze")
                 /\ ok' = [ok EXCEPT ![c] = FALSE]
                 /\ UNCHANGED patched
    /\ UNCHANGED <<g_isLocked, g_hHeap, buffers, orig, op, todo, held, suspended, game>>

\* Mutant: the status of a failed patch is lost.
EnableHookLLStatusLost(c) ==
    /\ Running(c)
    /\ cpc[c] = "patch"
    /\ Pending(c) # {}
    /\ LET i      == Min(Pending(c))
           enable == Wanted(c, g_hooks[i])
       IN  \/ /\ patched' = IF enable THEN patched \cup {g_hooks[i].pTarget}
                                      ELSE patched \ {g_hooks[i].pTarget}
              /\ g_hooks' = [g_hooks EXCEPT ![i].isEnabled = enable,
                                            ![i].queueEnable = enable]
              /\ UNCHANGED cpc
           \/ /\ enable \in ProtectFails
              /\ Goto(c, "unfreeze")
              /\ UNCHANGED <<patched, g_hooks>>
    /\ UNCHANGED <<g_isLocked, g_hHeap, buffers, orig, op, ok, todo, held, suspended, game>>

\* EnableHookLL for the next hook to change; a failure ends the loop.
EnableHookLL(c) ==
    /\ Running(c)
    /\ cpc[c] = "patch"
    /\ Pending(c) # {}
    /\ LET i      == Min(Pending(c))
           enable == Wanted(c, g_hooks[i])
       IN  \/ /\ patched' = IF enable THEN patched \cup {g_hooks[i].pTarget}
                                      ELSE patched \ {g_hooks[i].pTarget}
              /\ g_hooks' = [g_hooks EXCEPT ![i].isEnabled = enable,
                                            ![i].queueEnable = enable]
              /\ UNCHANGED <<cpc, ok>>
           \/ /\ enable \in ProtectFails
              /\ Goto(c, "unfreeze")
              /\ ok' = [ok EXCEPT ![c] = FALSE]
              /\ UNCHANGED <<patched, g_hooks>>
    /\ UNCHANGED <<g_isLocked, g_hHeap, buffers, orig, op, todo, held, suspended, game>>

Patched(c) ==
    /\ Running(c)
    /\ cpc[c] = "patch"
    /\ Pending(c) = {}
    /\ Goto(c, "unfreeze")
    /\ UNCHANGED <<g_isLocked, table, op, ok, todo, held, suspended, game>>

\* Unfreeze: resume one thread of the list, whether it was suspended or not.  One
\* that cannot be opened again is left as it is, and nobody looks for it later.
Unfreeze(c) ==
    /\ Running(c)
    /\ cpc[c] = "unfreeze"
    /\ \E x \in held[c] :
         /\ ResumeThread(x) \/ (CanFail("reopen", x) /\ UNCHANGED suspended)
         /\ held' = [held EXCEPT ![c] = @ \ {x}]
    /\ UNCHANGED <<g_isLocked, table, cpc, op, ok, todo, game>>

\* Mutant: an error leaves the threads suspended.
UnfrozenEarly(c) ==
    /\ Running(c)
    /\ cpc[c] = "unfreeze"
    /\ held[c] = {} \/ ~ok[c]
    /\ Goto(c, IF ok[c] /\ Operation(c) \in {"Remove", "Uninitialize"}
               THEN "free" ELSE "leave")
    /\ UNCHANGED <<g_isLocked, table, op, ok, todo, held, suspended, game>>

Unfrozen(c) ==
    /\ Running(c)
    /\ cpc[c] = "unfreeze"
    /\ held[c] = {}
    /\ Goto(c, IF ok[c] /\ Operation(c) \in {"Remove", "Uninitialize"}
               THEN "free" ELSE "leave")
    /\ UNCHANGED <<g_isLocked, table, op, ok, todo, held, suspended, game>>

\* The end of MH_RemoveHook: the trampoline's buffer and the entry go.
RemoveFree(c) ==
    /\ Running(c)
    /\ cpc[c] = "free"
    /\ Operation(c) = "Remove"
    /\ LET pos == FindHookEntry(Target(c))
       IN  /\ buffers' = [buffers EXCEPT ![g_hooks[pos].pTrampoline] = None]
           /\ g_hooks' = DeleteHookEntry(pos)
    /\ Goto(c, "leave")
    /\ UNCHANGED <<g_isLocked, g_hHeap, orig, patched, op, ok, todo, held, suspended, game>>

\* The end of MH_Uninitialize: all buffers and the table go.
UninitializeFree(c) ==
    /\ Running(c)
    /\ cpc[c] = "free"
    /\ Operation(c) = "Uninitialize"
    /\ buffers' = [s \in Slots |-> None]
    /\ g_hooks' = <<>>
    /\ g_hHeap' = FALSE
    /\ Goto(c, "leave")
    /\ UNCHANGED <<g_isLocked, orig, patched, op, ok, todo, held, suspended, game>>

LeaveSpinLock(c) ==
    /\ Running(c)
    /\ cpc[c] = "leave"
    /\ g_isLocked' = FALSE
    /\ op' = [op EXCEPT ![c] = NoCall]
    /\ ok' = [ok EXCEPT ![c] = TRUE]
    /\ Goto(c, "idle")
    /\ UNCHANGED <<table, todo, held, suspended, game>>

Work(c) ==
    \/ MH_Initialize(c) \/ CreateRefused(c) \/ MH_CreateHook(c) \/ QueueHook(c)
    \/ NotReady(c) \/ NothingPending(c) \/ EnumerateThreads(c)
    \/ Freeze(c) \/ Frozen(c) \/ EnableHookLL(c) \/ Patched(c)
    \/ Unfreeze(c) \/ Unfrozen(c) \/ RemoveFree(c) \/ UninitializeFree(c)
    \/ LeaveSpinLock(c)

-----------------------------------------------------------------------------
(* The threads of the game. *)

Jump(g, a) ==
    /\ Running(g)
    /\ ip' = [ip EXCEPT ![g] = a]
    /\ UNCHANGED <<g_isLocked, table, local, suspended>>

CallTarget(g, t) ==
    /\ ip[g] = Out
    /\ Jump(g, At("target", t, 0))
    /\ fn' = [fn EXCEPT ![g] = t]
    /\ viaDetour' = [viaDetour EXCEPT ![g] = FALSE]

\* The instruction boundaries a patch buries.  For a patch above the target
\* only two bytes of it change, and these are its first instruction's.
Buried(t) == IF t \in PatchAbove THEN {} ELSE 1..(N - 1)

\* An instruction of the target: the jump, buried bytes, the original.
ExecuteTarget(g) ==
    LET a == ip[g] t == a.where
    IN  /\ a.kind = "target"
        /\ CASE t \in patched /\ a.i = 0 ->
                  Jump(g, At(IF t \in PatchAbove THEN "above" ELSE "detour", t, 0))
             [] t \in patched /\ a.i \in Buried(t) -> Jump(g, Crashed)
             [] ~(t \in patched /\ a.i \in Buried(t) \cup {0}) /\ a.i < N ->
                  Jump(g, At("target", t, a.i + 1))
             [] OTHER -> Jump(g, IF viaDetour[g] THEN At("returned", fn[g], 0)
                                   ELSE Out)
        /\ UNCHANGED <<fn, viaDetour>>

\* The long jump above the target; when the padding is back, its bytes: NOPs
\* lead to the target, the others trap.
ExecuteAbove(g) ==
    LET a == ip[g]
    IN  /\ a.kind = "above"
        /\ IF a.where \in patched THEN Jump(g, At("detour", a.where, 0))
           ELSE \E b \in {Crashed, At("target", a.where, 0)} : Jump(g, b)
        /\ UNCHANGED <<fn, viaDetour>>

\* The detour calls the original.
ExecuteDetour(g) ==
    /\ ip[g].kind = "detour"
    /\ Jump(g, IF orig[fn[g]] = None THEN Crashed
               ELSE At("trampoline", orig[fn[g]], 0))
    /\ viaDetour' = [viaDetour EXCEPT ![g] = TRUE]
    /\ UNCHANGED fn

\* An instruction of a trampoline; a freed one no longer holds them.
ExecuteTrampoline(g) ==
    LET a == ip[g]
    IN  /\ a.kind = "trampoline"
        /\ CASE buffers[a.where] = None -> Jump(g, Crashed)
             [] buffers[a.where] # None /\ a.i < N ->
                  Jump(g, At("trampoline", a.where, a.i + 1))
             [] OTHER ->
                  Jump(g, At("target", buffers[a.where], N))
        /\ UNCHANGED <<fn, viaDetour>>

DetourReturns(g) ==
    /\ ip[g].kind = "returned"
    /\ Jump(g, Out)
    /\ UNCHANGED <<fn, viaDetour>>

GameStep(g) ==
    \/ \E t \in Targets : CallTarget(g, t)
    \/ ExecuteTarget(g) \/ ExecuteAbove(g) \/ ExecuteDetour(g)
    \/ ExecuteTrampoline(g) \/ DetourReturns(g)

-----------------------------------------------------------------------------

Next ==
    \/ \E c \in Callers : Invoke(c) \/ EnterSpinLock(c) \/ Work(c)
    \/ \E g \in GameThreads : GameStep(g)

Spec == Init /\ [][Next]_vars

\* A caller that holds the lock keeps running: nobody else suspends threads.
Fairness == \A c \in Callers : WF_vars(Work(c))

FairSpec == Spec /\ Fairness

-----------------------------------------------------------------------------
(* Properties. *)

\* Between EnterSpinLock and LeaveSpinLock there is one caller, so two calls
\* never suspend threads or write the table at the same time.
Inside(c) == cpc[c] \notin {"idle", "spin"}

MutualExclusion ==
    /\ \A c, d \in Callers : Inside(c) /\ Inside(d) => c = d
    /\ g_isLocked <=> \E c \in Callers : Inside(c)

\* No target has two entries, no trampoline two owners, and each entry owns
\* the buffer its trampoline is in.
TableConsistent ==
    /\ \A i, j \in Entries : i # j =>
         /\ g_hooks[i].pTarget # g_hooks[j].pTarget
         /\ g_hooks[i].pTrampoline # g_hooks[j].pTrampoline
    /\ \A i \in Entries : buffers[g_hooks[i].pTrampoline] = g_hooks[i].pTarget
    /\ \A s \in Slots : buffers[s] # None =>
         \E i \in Entries : g_hooks[i].pTrampoline = s

\* The prologues that hold a jump are those of the enabled entries, after a
\* failed call too: no function stays patched whose entry is gone.
PatchedIffEnabled ==
    patched = {g_hooks[i].pTarget : i \in {j \in Entries : g_hooks[j].isEnabled}}

\* Who is suspended, and by whom.  A thread that Unfreeze can open again is
\* suspended only by a caller that patches and will resume it, and once; one that
\* Freeze can open and suspend is suspended indeed until it is resumed.  Whatever
\* fails, nobody spins for a suspended thread: the caller inside the lock runs.
Resumable(x)   == ~CanFail("reopen", x)
Suspendable(x) == ~CanFail("open", x) /\ ~CanFail("suspend", x)

SuspensionAccounted ==
    /\ \A x \in Threads :
         LET holders == Cardinality({c \in Callers : x \in held[c]})
         IN  /\ Resumable(x) => suspended[x] <= holders
             /\ Suspendable(x) => holders <= suspended[x]
    /\ \A c \in Callers : held[c] # {} => cpc[c] \in {"freeze", "patch", "unfreeze"}
    /\ \A c \in Callers : Inside(c) => Running(c)

\* hook.c on ProcessThreadIPs: a thread suspended in the overwritten area is
\* moved.  No thread may run at a point that a patch buried or took away.
NotInOverwrittenArea ==
    \A g \in GameThreads :
        LET a == ip[g]
        IN  Running(g) =>
              /\ ~(a.kind = "target" /\ a.where \in patched /\ a.i \in Buried(a.where))
              /\ ~(a.kind = "above" /\ a.where \notin patched)

\* A call that reports success has changed every hook it is about, also
\* when the loop over the hooks met a failure.
SuccessIsComplete ==
    \A c \in Callers :
        cpc[c] = "leave" /\ ok[c] /\ Operation(c) \in {"Enable", "Disable", "Apply"} =>
            Pending(c) = {}

\* Threads suspended for a patch are resumed, whatever became of the patch, if
\* Unfreeze can open them.
ThreadsResumed ==
    \A x \in {y \in Threads : Resumable(y)} : suspended[x] > 0 ~> suspended[x] = 0

\* The spin lock is released again: no path through a call keeps it, or
\* suspends the thread that holds it.
LockReleased == g_isLocked ~> ~g_isLocked

\* Hooking is transparent: a call executes the instructions of the function
\* once each and in order, in the target or in the trampoline.
Progress ==
    [g \in GameThreads |->
        CASE ip[g].kind \in {"target", "trampoline"}  -> ip[g].i
          [] ip[g].kind \in {"above", "detour"}       -> 0
          [] ip[g].kind = "returned"                  -> N + 1
          [] ip[g].kind = "out"                       -> N + 2
          [] ip[g].kind = "crashed"                   -> N + 3]

Abs == INSTANCE HookedCall WITH
    next    <- Progress,
    stopped <- {g \in GameThreads : ~Running(g)}

\* Every step is a step of HookedCall or leaves it unchanged.
Transparent == Abs!Spec

=============================================================================
