--------------------------- MODULE MinHook_proofs ---------------------------
(***************************************************************************)
(* Proofs about MinHook for every set of callers, threads, targets and     *)
(* slots: the spin lock, and the threads a patch suspends.                 *)
(***************************************************************************)
EXTENDS MinHook, FiniteSetTheorems, SequenceTheorems, TLAPS

\* The spin lock is held by exactly the caller that is inside.
LockInv ==
    /\ g_isLocked \in BOOLEAN
    /\ cpc \in [Callers -> Points]
    /\ MutualExclusion

\* What a caller has yet to suspend and what it is to resume are apart, belong
\* to a caller that is patching, and never include itself; the caller inside the
\* lock runs.  A thread that Unfreeze can open is suspended once at most, by a
\* caller that will resume it; one that Freeze can suspend is, when it is to be
\* resumed.
SuspendedInv ==
    /\ suspended \in [Threads -> 0..MaxSuspendCount]
    /\ todo \in [Callers -> SUBSET Threads]
    /\ held \in [Callers -> SUBSET Threads]
    /\ \A c \in Callers : held[c] # {} => cpc[c] \in {"freeze", "patch", "unfreeze"}
    /\ \A c \in Callers : todo[c] # {} => cpc[c] = "freeze"
    /\ \A c \in Callers : todo[c] \cap held[c] = {}
    /\ \A c \in Callers : c \notin todo[c] \cup held[c]
    /\ \A c \in Callers : Inside(c) => suspended[c] = 0
    /\ \A x \in Threads : Resumable(x) /\ suspended[x] # 0 =>
         suspended[x] = 1 /\ \E c \in Callers : x \in held[c]
    /\ \A x \in Threads, c \in Callers : Suspendable(x) /\ x \in held[c] => suspended[x] # 0

\* The threads of the game change nothing a caller has.
LEMMA GameOutside ==
    ASSUME NEW g \in GameThreads, GameStep(g)
    PROVE  UNCHANGED <<g_isLocked, table, local, suspended>>
  BY DEF GameStep, CallTarget, ExecuteTarget, ExecuteAbove, ExecuteDetour,
         ExecuteTrampoline, DetourReturns, Jump

\* Within a call only its own caller's point changes, and it stays inside.
LEMMA WorkInside ==
    ASSUME NEW c \in Callers, Work(c), ~LeaveSpinLock(c)
    PROVE  /\ cpc[c] \in Points \ {"idle", "spin", "leave"}
           /\ \E p \in Points \ {"idle", "spin"} : cpc' = cpc \/ Goto(c, p)
           /\ UNCHANGED g_isLocked
<1> USE DEF Points, Goto
<1>1. CASE MH_Initialize(c) \/ CreateRefused(c) \/ MH_CreateHook(c) \/ QueueHook(c)
  BY <1>1 DEF MH_Initialize, CreateRefused, MH_CreateHook, QueueHook, InBody, Finish
<1>2. CASE NotReady(c) \/ NothingPending(c) \/ EnumerateThreads(c)
  BY <1>2 DEF NotReady, NothingPending, EnumerateThreads, InBody, Finish
<1>3. CASE Freeze(c) \/ Frozen(c) \/ EnableHookLL(c) \/ Patched(c)
  BY <1>3 DEF Freeze, Frozen, EnableHookLL, Patched
<1>4. CASE Unfreeze(c) \/ Unfrozen(c) \/ RemoveFree(c) \/ UninitializeFree(c)
  BY <1>4 DEF Unfreeze, Unfrozen, RemoveFree, UninitializeFree
<1> QED
  BY <1>1, <1>2, <1>3, <1>4 DEF Work

LEMMA InitLock == Init => LockInv
  BY DEF Init, LockInv, MutualExclusion, Inside, Points

LEMMA StepLock == LockInv /\ [Next]_vars => LockInv'
<1> SUFFICES ASSUME LockInv, [Next]_vars PROVE LockInv'
  OBVIOUS
<1> USE DEF LockInv, MutualExclusion, Inside
<1>1. ASSUME NEW c \in Callers, Invoke(c) PROVE LockInv'
  BY <1>1 DEF Invoke, Goto, Points
<1>2. ASSUME NEW c \in Callers, EnterSpinLock(c) PROVE LockInv'
  BY <1>2 DEF EnterSpinLock, Goto, Points
<1>3. ASSUME NEW c \in Callers, LeaveSpinLock(c) PROVE LockInv'
  BY <1>3 DEF LeaveSpinLock, Goto, Points
<1>4. ASSUME NEW c \in Callers, Work(c), ~LeaveSpinLock(c) PROVE LockInv'
  <2>1. Inside(c) /\ UNCHANGED g_isLocked
    BY <1>4, WorkInside
  <2>2. CASE cpc' = cpc
    BY <2>1, <2>2
  <2>3. ASSUME NEW p \in Points \ {"idle", "spin"}, Goto(c, p) PROVE LockInv'
    <3>1. cpc' \in [Callers -> Points]
      BY <2>3 DEF Goto
    <3>2. \A d \in Callers : Inside(d)' <=> Inside(d)
      BY <2>1, <2>3 DEF Goto
    <3> QED
      BY <2>1, <3>1, <3>2
  <2> QED
    BY <1>4, <2>2, <2>3, WorkInside
<1>5. ASSUME NEW g \in GameThreads, GameStep(g) PROVE LockInv'
  BY <1>5, GameOutside DEF local
<1>6. CASE UNCHANGED vars
  BY <1>6 DEF vars, local
<1> QED
  BY <1>1, <1>2, <1>3, <1>4, <1>5, <1>6 DEF Next

-----------------------------------------------------------------------------

LEMMA InitSuspended == Init => SuspendedInv
  BY HookAssumption DEF Init, SuspendedInv, Inside, Threads

LEMMA StepSuspended == LockInv /\ SuspendedInv /\ [Next]_vars => SuspendedInv'
<1> SUFFICES ASSUME LockInv, SuspendedInv, [Next]_vars PROVE SuspendedInv'
  OBVIOUS
<1> USE DEF SuspendedInv
<1>a. cpc \in [Callers -> Points]
  BY DEF LockInv
\* Nobody else is inside, so nobody else is to resume a thread.
<1>b. ASSUME NEW c \in Callers, Inside(c), NEW d \in Callers, d # c
      PROVE  ~Inside(d) /\ held[d] = {} /\ todo[d] = {}
  BY <1>b DEF LockInv, MutualExclusion, Inside
<1>1. ASSUME NEW c \in Callers, Invoke(c) \/ EnterSpinLock(c) PROVE SuspendedInv'
  <2>1. /\ Running(c) /\ cpc[c] \in {"idle", "spin"} /\ cpc'[c] \in {"spin", "body"}
        /\ \A d \in Callers : d # c => cpc'[d] = cpc[d]
        /\ UNCHANGED <<todo, held, suspended>>
    BY <1>1, <1>a DEF Invoke, EnterSpinLock, Goto
  <2> QED
    BY <2>1 DEF Inside, Running
<1>2. ASSUME NEW c \in Callers, EnumerateThreads(c) PROVE SuspendedInv'
  <2>1. cpc[c] = "body" /\ held[c] = {} /\ UNCHANGED <<held, suspended>>
    BY <1>2 DEF EnumerateThreads, InBody
  <2>2. /\ todo' \in [Callers -> SUBSET Threads]
        /\ \A d \in Callers : d # c => todo'[d] = todo[d] /\ cpc'[d] = cpc[d]
        /\ cpc'[c] = "freeze" /\ c \notin todo'[c]
    BY <1>2, <1>a DEF EnumerateThreads, Goto
  <2> QED
    BY <2>1, <2>2 DEF Inside
<1>3. ASSUME NEW c \in Callers, Freeze(c) PROVE SuspendedInv'
  <2>1. PICK x \in todo[c] :
          /\ \/ suspended' = [suspended EXCEPT ![x] = IF @ < MaxSuspendCount THEN @ + 1 ELSE @]
             \/ ~Suspendable(x) /\ suspended' = suspended
          /\ todo' = [todo EXCEPT ![c] = @ \ {x}]
          /\ held' = [held EXCEPT ![c] = @ \cup {x}]
    BY <1>3 DEF Freeze, SuspendThread, Suspendable
  <2>2. Inside(c) /\ cpc[c] = "freeze" /\ UNCHANGED cpc
    BY <1>3 DEF Freeze, Inside
  <2>3. x \in Threads /\ (Resumable(x) => suspended[x] = 0)
    <3>1. \A d \in Callers : x \notin held[d]
      BY <2>1, <2>2, <1>b
    <3> QED
      BY <3>1
  <2>4. /\ suspended' \in [Threads -> 0..MaxSuspendCount]
        /\ \A y \in Threads : y # x => suspended'[y] = suspended[y]
        /\ Suspendable(x) => suspended'[x] # 0
        /\ Resumable(x) => suspended'[x] \in {0, 1}
    <3>1. CASE suspended' = suspended /\ ~Suspendable(x)
      BY <2>3, <3>1
    <3>2. CASE suspended' = [suspended EXCEPT ![x] = IF @ < MaxSuspendCount THEN @ + 1 ELSE @]
      <4>1. suspended[x] \in 0..MaxSuspendCount /\ MaxSuspendCount \in Nat \ {0}
        BY <2>3, HookAssumption
      <4>2. suspended'[x] = IF suspended[x] < MaxSuspendCount THEN suspended[x] + 1 ELSE suspended[x]
        BY <2>3, <3>2
      <4>3. suspended'[x] \in 0..MaxSuspendCount /\ suspended'[x] # 0
        BY <4>1, <4>2
      <4>4. Resumable(x) => suspended'[x] = 1
        BY <2>3, <4>1, <4>2
      <4> QED
        BY <2>3, <3>2, <4>3, <4>4
    <3> QED
      BY <2>1, <3>1, <3>2
  <2>5. /\ held' \in [Callers -> SUBSET Threads] /\ todo' \in [Callers -> SUBSET Threads]
        /\ held'[c] = held[c] \cup {x} /\ todo'[c] \cap held'[c] = {}
        /\ c \notin todo'[c] \cup held'[c]
        /\ \A d \in Callers : d # c => held'[d] = held[d] /\ todo'[d] = todo[d]
    BY <2>1, <2>3
  <2>6. \A d \in Callers : Inside(d)' => suspended'[d] = 0
    BY <2>1, <2>2, <2>4, <1>b DEF Inside, Threads
  <2>7. \A y \in Threads : Resumable(y) /\ suspended'[y] # 0 =>
          suspended'[y] = 1 /\ \E d \in Callers : y \in held'[d]
    <3> TAKE y \in Threads
    <3>1. CASE y = x
      BY <2>4, <2>5, <3>1
    <3>2. CASE y # x
      BY <2>4, <2>5, <3>2
    <3> QED
      BY <3>1, <3>2
  <2>8. \A y \in Threads, d \in Callers : Suspendable(y) /\ y \in held'[d] => suspended'[y] # 0
    BY <2>4, <2>5
  <2> QED
    BY <2>2, <2>4, <2>5, <2>6, <2>7, <2>8 DEF Resumable, Suspendable, CanFail
<1>4. ASSUME NEW c \in Callers, Unfreeze(c) PROVE SuspendedInv'
  <2>1. PICK x \in held[c] :
          /\ \/ suspended' = [suspended EXCEPT ![x] = IF @ > 0 THEN @ - 1 ELSE @]
             \/ ~Resumable(x) /\ suspended' = suspended
          /\ held' = [held EXCEPT ![c] = @ \ {x}]
    BY <1>4 DEF Unfreeze, ResumeThread, Resumable
  <2>2. Inside(c) /\ cpc[c] = "unfreeze" /\ UNCHANGED <<cpc, todo>>
    BY <1>4 DEF Unfreeze, Inside
  <2>3. x \in Threads /\ (Resumable(x) => suspended[x] \in {0, 1})
    BY <2>1
  <2>4. /\ suspended' \in [Threads -> 0..MaxSuspendCount]
        /\ \A y \in Threads : y # x => suspended'[y] = suspended[y]
        /\ suspended[x] = 0 => suspended'[x] = 0
        /\ Resumable(x) => suspended'[x] = 0
    <3>1. CASE suspended' = suspended /\ ~Resumable(x)
      BY <3>1
    <3>2. CASE suspended' = [suspended EXCEPT ![x] = IF @ > 0 THEN @ - 1 ELSE @]
      <4>1. suspended[x] \in 0..MaxSuspendCount /\ MaxSuspendCount \in Nat \ {0}
        BY <2>3, HookAssumption
      <4>2. suspended'[x] = IF suspended[x] > 0 THEN suspended[x] - 1 ELSE suspended[x]
        BY <2>3, <3>2
      <4>3. suspended'[x] \in 0..MaxSuspendCount
        BY <4>1, <4>2
      <4> QED
        BY <2>3, <3>2, <4>1, <4>2, <4>3
    <3> QED
      BY <2>1, <3>1, <3>2
  <2>5. /\ held' \in [Callers -> SUBSET Threads]
        /\ held'[c] = held[c] \ {x}
        /\ \A d \in Callers : d # c => held'[d] = held[d]
    BY <2>1
  <2>6. \A d \in Callers : Inside(d)' => suspended'[d] = 0
    BY <2>2, <2>4 DEF Inside, Threads
  <2>7. \A y \in Threads : Resumable(y) /\ suspended'[y] # 0 =>
          suspended'[y] = 1 /\ \E d \in Callers : y \in held'[d]
    <3> TAKE y \in Threads
    <3>1. CASE y = x
      BY <2>4, <3>1
    <3>2. CASE y # x
      BY <2>4, <2>5, <3>2
    <3> QED
      BY <3>1, <3>2
  <2>8. \A y \in Threads, d \in Callers : Suspendable(y) /\ y \in held'[d] => suspended'[y] # 0
    <3>1. \A d \in Callers : x \notin held'[d]
      BY <2>2, <2>5, <1>b
    <3> QED
      BY <2>4, <2>5, <3>1
  <2>9. \A d \in Callers : /\ held'[d] \subseteq held[d] /\ todo'[d] = todo[d]
                          /\ cpc'[d] = cpc[d]
    BY <2>2, <2>5
  <2>10. /\ \A d \in Callers : held'[d] # {} => cpc'[d] \in {"freeze", "patch", "unfreeze"}
         /\ \A d \in Callers : todo'[d] \cap held'[d] = {} /\ d \notin todo'[d] \cup held'[d]
    BY <2>9
  <2> QED
    BY <2>2, <2>4, <2>5, <2>6, <2>7, <2>8, <2>10 DEF Resumable, Suspendable, CanFail
<1>5. ASSUME NEW c \in Callers, Frozen(c) \/ Unfrozen(c) PROVE SuspendedInv'
  BY <1>5, <1>a DEF Frozen, Unfrozen, Goto, Inside, Resumable, Suspendable, CanFail
<1>6. ASSUME NEW c \in Callers, EnableHookLL(c) \/ Patched(c) PROVE SuspendedInv'
  <2>1. /\ cpc[c] = "patch" /\ cpc' \in {cpc, [cpc EXCEPT ![c] = "unfreeze"]}
        /\ UNCHANGED <<todo, held, suspended>>
    BY <1>6 DEF EnableHookLL, Patched, Goto
  <2> QED
    BY <2>1, <1>a DEF Inside, Resumable, Suspendable, CanFail
<1>7. ASSUME NEW c \in Callers,
             \/ MH_Initialize(c) \/ CreateRefused(c) \/ MH_CreateHook(c)
             \/ QueueHook(c) \/ NotReady(c) \/ NothingPending(c)
             \/ RemoveFree(c) \/ UninitializeFree(c) \/ LeaveSpinLock(c)
      PROVE  SuspendedInv'
  <2>1. /\ cpc[c] \notin {"freeze", "patch", "unfreeze"}
        /\ \E p : cpc' = [cpc EXCEPT ![c] = p]
        /\ UNCHANGED <<todo, held, suspended>>
    BY <1>7 DEF MH_Initialize, CreateRefused, MH_CreateHook, QueueHook, NotReady,
                NothingPending, RemoveFree, UninitializeFree, LeaveSpinLock,
                InBody, Finish, Goto
  <2>2. held[c] = {} /\ todo[c] = {}
    BY <2>1
  <2>3. \A d \in Callers : Inside(d)' => Inside(d)
    <3>1. Inside(c)
      BY <1>7 DEF MH_Initialize, CreateRefused, MH_CreateHook, QueueHook, NotReady,
                  NothingPending, RemoveFree, UninitializeFree, LeaveSpinLock,
                  InBody, Inside
    <3> QED
      BY <2>1, <3>1, <1>a DEF Inside
  <2> QED
    BY <2>1, <2>2, <2>3, <1>a DEF Resumable, Suspendable, CanFail
<1>8. ASSUME NEW g \in GameThreads, GameStep(g) PROVE SuspendedInv'
  BY <1>8, GameOutside DEF local, Inside, Resumable, Suspendable, CanFail
<1>9. CASE UNCHANGED vars
  BY <1>9 DEF vars, local, Inside, Resumable, Suspendable, CanFail
<1> QED
  BY <1>1, <1>2, <1>3, <1>4, <1>5, <1>6, <1>7, <1>8, <1>9 DEF Next, Work

-----------------------------------------------------------------------------

\* The lock and the suspended threads, for any number of callers.
THEOREM LockAndThreads == Spec => [](LockInv /\ SuspendedInv)
<1>1. Init => LockInv /\ SuspendedInv
  BY InitLock, InitSuspended
<1>2. LockInv /\ SuspendedInv /\ [Next]_vars => LockInv' /\ SuspendedInv'
  BY StepLock, StepSuspended
<1> QED
  BY <1>1, <1>2, PTL DEF Spec

\* Between EnterSpinLock and LeaveSpinLock there is one caller at most, so the
\* table is written and threads are suspended by one call at a time.
THEOREM OneCallerInside == Spec => []MutualExclusion
<1>1. LockInv => MutualExclusion
  BY DEF LockInv
<1> QED
  BY <1>1, LockAndThreads, PTL

\* A thread that Unfreeze can open again is suspended only by the caller that
\* patches, which has it in its list and goes through that list before it leaves;
\* one that Freeze can open and suspend is suspended while it is in the list.
\* What a failing call of Windows leaves suspended never includes the caller that
\* holds the lock.
THEOREM SuspendedOnce == Spec => []SuspensionAccounted
<1>1. LockInv /\ SuspendedInv => SuspensionAccounted
  <2> SUFFICES ASSUME LockInv, SuspendedInv PROVE SuspensionAccounted
    OBVIOUS
  <2>1. ASSUME NEW x \in Threads
        PROVE  LET holders == Cardinality({c \in Callers : x \in held[c]})
               IN  /\ Resumable(x) => suspended[x] <= holders
                   /\ Suspendable(x) => holders <= suspended[x]
    <3>0. suspended[x] \in Nat
      BY HookAssumption DEF SuspendedInv
    <3>1. CASE \E c \in Callers : x \in held[c]
      <4>1. PICK c \in Callers : x \in held[c]
        BY <3>1
      <4>2. \A d \in Callers : x \in held[d] => d = c
        BY <4>1 DEF SuspendedInv, LockInv, MutualExclusion, Inside
      <4>3. Cardinality({d \in Callers : x \in held[d]}) = 1
        <5>1. {d \in Callers : x \in held[d]} = {c}
          BY <4>1, <4>2
        <5> QED
          BY <5>1, FS_Singleton
      <4>4. /\ Resumable(x) => suspended[x] \in {0, 1}
            /\ Suspendable(x) => suspended[x] # 0
        BY <4>1 DEF SuspendedInv
      <4> QED
        BY <3>0, <4>3, <4>4
    <3>2. CASE \A c \in Callers : x \notin held[c]
      <4>1. Cardinality({d \in Callers : x \in held[d]}) = 0
        <5>1. {d \in Callers : x \in held[d]} = {}
          BY <3>2
        <5> QED
          BY <5>1, FS_EmptySet
      <4>2. Resumable(x) => suspended[x] = 0
        BY <3>2 DEF SuspendedInv
      <4> QED
        BY <3>0, <4>1, <4>2
    <3> QED
      BY <3>1, <3>2
  <2> QED
    BY <2>1 DEF SuspensionAccounted, SuspendedInv, Running
<1> QED
  BY <1>1, LockAndThreads, PTL

=============================================================================
