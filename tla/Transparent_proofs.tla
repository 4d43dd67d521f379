------------------------- MODULE Transparent_proofs -------------------------
(***************************************************************************)
(* Hooking is transparent: MinHook implements HookedCall for every set of  *)
(* threads, callers and targets and every number of moved instructions, as *)
(* long as the library is used safely: Freeze finds, suspends and moves    *)
(* every thread of the game, no hook is removed, no target patched above   *)
(* is disabled on its own, and VirtualProtect does not refuse a call that  *)
(* puts threads into a prologue.  Unfreeze may leave threads suspended.    *)
(***************************************************************************)
EXTENDS MinHookTable_proofs

\* The calls that are safe under running threads, with what may fail.  hooks.cpp
\* enables and disables all hooks together.
SwitchedSafely ==
    /\ \A g \in GameThreads, call \in {"snapshot", "open", "suspend", "context"} :
         ~CanFail(call, g)
    /\ \A o \in Ops :
         /\ o[1] \notin {"Remove", "Uninitialize"}
         /\ o[1] = "Disable" => o[2] \notin PatchAbove
         /\ o[1] = "Apply" => ProtectFails = {}
         /\ o[1] = "Disable" /\ o[2] = AllHooks => FALSE \notin ProtectFails

\* The calls made are those of Ops.
CallsMade == \A c \in Callers : Inside(c) => op[c] \in Ops

\* The pointer to an original leads to the target's own trampoline, and is
\* there as soon as the target has an entry.
OrigInv ==
    /\ \A t \in Targets : orig[t] # None => buffers[orig[t]] = t
    /\ \A i \in Entries : orig[g_hooks[i].pTarget] # None

\* A thread at a is in a call of t.
Place(a, t) ==
    /\ a.kind # "crashed"
    /\ a.kind \in {"target", "above", "detour", "returned"} => a.where = t
    /\ a.kind = "above" => t \in PatchAbove
    /\ a.kind = "detour" => orig[t] # None
    /\ a.kind = "trampoline" => buffers[a.where] = t

\* With the targets of ts patched, a is no buried byte, and no padding.
Fine(a, ts) ==
    /\ a.kind = "target" /\ a.where \in ts => a.i \notin Buried(a.where)
    /\ a.kind = "above" => a.where \in ts

\* The targets that are patched when c is done.
Kept(c, i) == IF i \in Scope(c) THEN Wanted(c, g_hooks[i]) ELSE g_hooks[i].isEnabled

Final(c) == {g_hooks[i].pTarget : i \in {j \in Entries : Kept(c, j)}}

\* Freeze puts no thread into a prologue, so the call may fail half-way.
MayFail(c) ==
    \/ Operation(c) = "Enable"
    \/ Operation(c) = "Disable" /\ Target(c) # AllHooks

PlaceInv ==
    /\ OrigInv
    /\ \A g \in GameThreads : Place(ip[g], fn[g])

\* A thread that no call is about, running or left suspended by an earlier one,
\* suits what is patched now; a thread that a call suspended suits what will be,
\* and what is now if the call may fail; while a prologue is written, no thread
\* runs.
SuitInv ==
    /\ \A g \in GameThreads :
         (\A c \in Callers : g \notin held[c]) => Fine(ip[g], patched)
    /\ \A c \in Callers :
         /\ cpc[c] = "freeze" => GameThreads \subseteq todo[c] \cup held[c]
         /\ cpc[c] = "patch" => GameThreads \subseteq held[c]
         /\ \A g \in held[c] \cap GameThreads :
              /\ cpc[c] \in {"freeze", "patch"} =>
                   Fine(ip[g], Final(c)) /\ (MayFail(c) => Fine(ip[g], patched))
              /\ cpc[c] = "unfreeze" => Fine(ip[g], patched)

Known == LockInv /\ SuspendedInv /\ TableInv /\ CallInv /\ GameTypes /\ CallsMade

\* How far into its function a thread at a is.
Point(a) ==
    CASE a.kind \in {"target", "trampoline"}  -> a.i
      [] a.kind \in {"above", "detour"}       -> 0
      [] a.kind = "returned"                  -> N + 1
      [] a.kind = "out"                       -> N + 2
      [] a.kind = "crashed"                   -> N + 3

-----------------------------------------------------------------------------

LEMMA StepCalls == LockInv /\ TableInv /\ CallsMade /\ [Next]_vars => CallsMade'
<1> SUFFICES ASSUME LockInv, TableInv, CallsMade, [Next]_vars PROVE CallsMade'
  OBVIOUS
<1> USE DEF CallsMade
<1>a. cpc \in [Callers -> Points] /\ op \in [Callers -> Calls \cup {NoCall}] /\ TableTypes
  BY DEF LockInv, TableInv, TableTypes
<1>1. ASSUME NEW c \in Callers, Invoke(c) PROVE CallsMade'
  BY <1>1, <1>a DEF Invoke, Goto, Inside
<1>2. ASSUME NEW c \in Callers, EnterSpinLock(c) PROVE CallsMade'
  <2>1. PICK o \in Ops : op' = [op EXCEPT ![c] = o]
    BY <1>2 DEF EnterSpinLock
  <2>2. \A d \in Callers : d # c => cpc'[d] = cpc[d]
    BY <1>2, <1>a DEF EnterSpinLock, Goto
  <2>3. \A d \in Callers : ~Inside(d)
    BY <1>2 DEF EnterSpinLock, LockInv, MutualExclusion
  <2> QED
    BY <1>a, <2>1, <2>2, <2>3 DEF Inside
<1>3. ASSUME NEW c \in Callers, LeaveSpinLock(c) PROVE CallsMade'
  <2>1. \A d \in Callers : d # c => cpc'[d] = cpc[d] /\ op'[d] = op[d]
    BY <1>3, <1>a DEF LeaveSpinLock, Goto
  <2>2. cpc'[c] = "idle"
    BY <1>3, <1>a DEF LeaveSpinLock, Goto
  <2> QED
    BY <2>1, <2>2 DEF Inside
<1>4. ASSUME NEW c \in Callers, Work(c), ~LeaveSpinLock(c) PROVE CallsMade'
  <2>1. UNCHANGED op
    BY <1>4, <1>a, WorkTypes
  <2>2. Inside(c) /\ \A d \in Callers : Inside(d)' => Inside(d)
    BY <1>4, <1>a, WorkInside DEF Goto, Inside
  <2> QED
    BY <2>1, <2>2
<1>5. ASSUME NEW g \in GameThreads, GameStep(g) PROVE CallsMade'
  BY <1>5, GameOutside DEF local, Inside
<1>6. CASE UNCHANGED vars
  BY <1>6 DEF vars, local, Inside
<1> QED
  BY <1>1, <1>2, <1>3, <1>4, <1>5, <1>6 DEF Next

\* What a patching call is about: all entries, or that of one target, which has
\* one and is not patched above when it is disabled.
LEMMA PatchingScope ==
    ASSUME SwitchedSafely, Known, NEW c \in Callers,
           cpc[c] \in {"freeze", "patch", "unfreeze"}
    PROVE  /\ Ready(c) /\ op[c] \in Ops /\ Scope(c) \subseteq Entries
           /\ Operation(c) \in {"Enable", "Disable", "Apply"}
           /\ Operation(c) # "Apply" /\ Target(c) # AllHooks =>
                \A i \in Scope(c) : g_hooks[i].pTarget = Target(c)
           /\ Operation(c) = "Disable" => Target(c) \notin PatchAbove
<1>1. Ready(c) /\ Operation(c) \in Patching
  BY DEF Known, CallInv, OwnInv
<1>2. op[c] \in Ops
  BY DEF Known, CallsMade, Inside
<1>3. /\ Operation(c) \notin {"Remove", "Uninitialize"}
      /\ Operation(c) = "Disable" => Target(c) \notin PatchAbove
  BY <1>2 DEF SwitchedSafely, Operation, Target
<1>4. Operation(c) \in {"Enable", "Disable", "Apply"}
  BY <1>1, <1>3 DEF Patching
<1>5. CASE Operation(c) = "Apply" \/ Target(c) = AllHooks
  BY <1>1, <1>2, <1>3, <1>4, <1>5 DEF Scope
<1>6. CASE Operation(c) # "Apply" /\ Target(c) # AllHooks
  <2>1. Found(Target(c)) /\ Scope(c) = {FindHookEntry(Target(c))}
    BY <1>1, <1>4, <1>6 DEF Ready, Scope
  <2>2. /\ FindHookEntry(Target(c)) \in Entries
        /\ g_hooks[FindHookEntry(Target(c))].pTarget = Target(c)
    BY <2>1, FoundEntry
  <2> QED
    BY <1>1, <1>2, <1>3, <1>4, <1>6, <2>1, <2>2
<1> QED
  BY <1>5, <1>6

LEMMA NoFree ==
    ASSUME SwitchedSafely, Known, NEW c \in Callers
    PROVE  cpc[c] # "free"
<1> SUFFICES ASSUME cpc[c] = "free" PROVE FALSE
  OBVIOUS
<1>1. Operation(c) \in {"Remove", "Uninitialize"}
  BY DEF Known, CallInv, OwnInv
<1>2. op[c] \in Ops
  BY DEF Known, CallsMade, Inside
<1> QED
  BY <1>1, <1>2 DEF SwitchedSafely, Operation

\* Nobody else patches while one caller is inside.
LEMMA OthersIdle ==
    ASSUME LockInv, NEW c \in Callers, Inside(c), NEW d \in Callers, d # c
    PROVE  cpc[d] \notin {"freeze", "patch", "unfreeze"}
  BY DEF LockInv, MutualExclusion, Inside

\* What a call makes of an entry.
LEMMA WantedIs ==
    ASSUME SwitchedSafely, Known, NEW c \in Callers,
           cpc[c] \in {"freeze", "patch", "unfreeze"}, NEW hook
    PROVE  /\ Wanted(c, hook) = (IF Operation(c) = "Enable" THEN TRUE
                                 ELSE IF Operation(c) = "Apply" THEN hook.queueEnable
                                 ELSE FALSE)
           /\ FreezeAction(c, hook) = (IF MayFail(c) THEN TRUE ELSE Wanted(c, hook))
<1>1. Operation(c) \in {"Enable", "Disable", "Apply"}
  BY PatchingScope
<1>2. CASE Operation(c) = "Enable"
  BY <1>2 DEF Wanted, FreezeAction, MayFail
<1>3. CASE Operation(c) = "Disable"
  BY <1>3 DEF Wanted, FreezeAction, MayFail
<1>4. CASE Operation(c) = "Apply"
  BY <1>4 DEF Wanted, FreezeAction, MayFail
<1> QED
  BY <1>1, <1>2, <1>3, <1>4

LEMMA WantedBoolean ==
    ASSUME SwitchedSafely, Known, NEW c \in Callers,
           cpc[c] \in {"freeze", "patch", "unfreeze"}, NEW i \in Entries
    PROVE  Wanted(c, g_hooks[i]) \in BOOLEAN
<1>1. g_hooks[i].queueEnable \in BOOLEAN
  BY EntryTypes DEF Known, TableInv
<1> QED
  BY <1>1, WantedIs

-----------------------------------------------------------------------------
(* What Freeze does to a thread. *)

LEMMA Unpatched ==
    ASSUME Known, NEW c, NEW i \in Entries, ~Kept(c, i)
    PROVE  g_hooks[i].pTarget \notin Final(c)
  BY DEF Known, TableInv, TableConsistent, Final

LEMMA PatchedEntry ==
    ASSUME Known, NEW t \in patched
    PROVE  \E i \in Entries : g_hooks[i].isEnabled /\ g_hooks[i].pTarget = t
  BY DEF Known, TableInv, PatchedIffEnabled

LEMMA FreezeMoves ==
    ASSUME SwitchedSafely, Known, NEW c \in Callers, cpc[c] = "freeze",
           NEW a \in Addresses, NEW t \in Targets, Place(a, t), Fine(a, patched)
    PROVE  LET b == ProcessThreadIPs(c, a)
           IN  /\ Place(b, t) /\ Fine(b, Final(c)) /\ Point(b) = Point(a)
               /\ MayFail(c) => Fine(b, patched)
<1> DEFINE move(hook) == IF FreezeAction(c, hook) THEN FindNewIP(hook, a)
                                                  ELSE FindOldIP(hook, a)
           moves == {i \in Scope(c) :
                       /\ g_hooks[i].isEnabled # FreezeAction(c, g_hooks[i])
                       /\ move(g_hooks[i]) # NoIP}
           b == ProcessThreadIPs(c, a)
<1>1. b = IF moves = {} THEN a ELSE move(g_hooks[Min(moves)])
  BY DEF ProcessThreadIPs
<1>2. /\ Scope(c) \subseteq Entries
      /\ \A hook : FreezeAction(c, hook) = IF MayFail(c) THEN TRUE ELSE Wanted(c, hook)
  BY PatchingScope, WantedIs
<1>3. moves \in SUBSET Nat /\ moves \subseteq Entries
  <2>1. Entries \subseteq Nat
    BY DEF Entries, Known, TableInv, TableTypes
  <2> QED
    BY <1>2, <2>1
<1>4. CASE moves = {}
  <2>1. b = a
    BY <1>1, <1>4
  <2>2. ASSUME a.kind = "target", a.where \in Final(c)
        PROVE  a.i \notin Buried(a.where)
    <3>1. PICK i \in Entries : Kept(c, i) /\ g_hooks[i].pTarget = a.where
      BY <2>2 DEF Final
    <3>2. CASE g_hooks[i].isEnabled
      <4>1. a.where \in patched
        BY <3>1, <3>2 DEF Known, TableInv, PatchedIffEnabled
      <4> QED
        BY <2>2, <4>1 DEF Fine
    <3>3. CASE ~g_hooks[i].isEnabled
      <4>1. FindNewIP(g_hooks[i], a) # NoIP
        BY <2>2, <3>1 DEF FindNewIP, NoIP, Out, At
      <4>2. i \in Scope(c) /\ FreezeAction(c, g_hooks[i])
        BY <1>2, <3>1, <3>3 DEF Kept
      <4>3. i \in moves
        BY <3>3, <4>1, <4>2
      <4> QED
        BY <1>4, <4>3
    <3> QED
      BY <3>2, <3>3
  <2>3. ASSUME a.kind = "above"
        PROVE  a.where \in Final(c)
    <3>1. a.where \in patched
      BY <2>3 DEF Fine
    <3>2. PICK i \in Entries : g_hooks[i].isEnabled /\ g_hooks[i].pTarget = a.where
      BY <3>1, PatchedEntry
    <3>3. CASE Kept(c, i)
      BY <3>2, <3>3 DEF Final
    <3>4. CASE ~Kept(c, i)
      <4>1. FindOldIP(g_hooks[i], a) # NoIP
        BY <2>3, <3>2 DEF FindOldIP, NoIP, Out, At
      <4>2. i \in Scope(c) /\ ~Wanted(c, g_hooks[i])
        BY <3>2, <3>4 DEF Kept
      <4>3. ~MayFail(c)
        <5>1. Operation(c) # "Enable"
          BY <4>2, WantedIs
        <5>2. g_hooks[i].pTarget \in PatchAbove
          BY <2>3, <3>2 DEF Place
        <5>3. ~(Operation(c) = "Disable" /\ Target(c) # AllHooks)
          BY <4>2, <5>2, PatchingScope
        <5> QED
          BY <5>1, <5>3 DEF MayFail
      <4>4. i \in moves
        BY <1>2, <3>2, <4>1, <4>2, <4>3
      <4> QED
        BY <1>4, <4>4
    <3> QED
      BY <3>3, <3>4
  <2> QED
    BY <2>1, <2>2, <2>3 DEF Fine
<1>5. CASE moves # {}
  <2>1. PICK i \in Entries : i \in moves /\ i = Min(moves) /\ i \in Scope(c)
    BY <1>3, <1>5, MinOfNats
  <2>2. b = move(g_hooks[i])
    BY <1>1, <1>5, <2>1
  <2>3. /\ g_hooks[i].isEnabled # FreezeAction(c, g_hooks[i])
        /\ move(g_hooks[i]) # NoIP
    BY <2>1
  <2>a. /\ g_hooks[i].pTarget \in Targets /\ g_hooks[i].pTrampoline \in Slots
        /\ buffers[g_hooks[i].pTrampoline] = g_hooks[i].pTarget
    BY EntryTypes DEF Known, TableInv, TableConsistent
  <2> HIDE DEF b, moves, move
  <2>4. CASE FreezeAction(c, g_hooks[i])
    <3>1. b = FindNewIP(g_hooks[i], a) /\ b # NoIP
      BY <2>2, <2>3, <2>4 DEF move
    <3>2. /\ a.kind = "target" /\ a.where = g_hooks[i].pTarget
          /\ b = At("trampoline", g_hooks[i].pTrampoline, a.i)
      BY <3>1 DEF FindNewIP
    <3>3. b.kind = "trampoline" /\ b.where = g_hooks[i].pTrampoline /\ b.i = a.i
      BY <3>2 DEF At
    <3>4. g_hooks[i].pTarget = t
      BY <3>2 DEF Place
    <3>5. Place(b, t) /\ Fine(b, Final(c)) /\ Fine(b, patched)
      BY <2>a, <3>3, <3>4 DEF Place, Fine
    <3>6. Point(b) = Point(a)
      BY <3>2, <3>3 DEF Point
    <3> QED
      BY <3>5, <3>6 DEF b
  <2>5. CASE ~FreezeAction(c, g_hooks[i])
    <3>1. b = FindOldIP(g_hooks[i], a) /\ b # NoIP
      BY <2>2, <2>3, <2>5 DEF move
    <3>a. ~MayFail(c) /\ ~Kept(c, i)
      BY <1>2, <2>1, <2>5 DEF Kept
    <3>2. g_hooks[i].pTarget \notin Final(c)
      BY <3>a, Unpatched
    <3>3. CASE a.kind = "above" /\ a.where = g_hooks[i].pTarget
      <4>1. b.kind = "target" /\ b.where = g_hooks[i].pTarget /\ b.i = 0
        BY <3>1, <3>3 DEF FindOldIP, At
      <4>2. Place(b, t) /\ Fine(b, Final(c))
        BY <3>2, <3>3, <4>1 DEF Place, Fine
      <4>3. Point(b) = Point(a)
        BY <3>3, <4>1 DEF Point
      <4> QED
        BY <3>a, <4>2, <4>3 DEF b
    <3>4. CASE a.kind = "trampoline" /\ a.where = g_hooks[i].pTrampoline
      <4>1. b.kind = "target" /\ b.where = g_hooks[i].pTarget /\ b.i = a.i
        BY <3>1, <3>4 DEF FindOldIP, At
      <4>2. Place(b, t) /\ Fine(b, Final(c))
        BY <2>a, <3>2, <3>4, <4>1 DEF Place, Fine
      <4>3. Point(b) = Point(a)
        BY <3>4, <4>1 DEF Point
      <4> QED
        BY <3>a, <4>2, <4>3 DEF b
    <3> QED
      BY <3>1, <3>3, <3>4 DEF FindOldIP
  <2> QED
    BY <2>4, <2>5
<1> QED
  BY <1>4, <1>5

-----------------------------------------------------------------------------
(* What a step of a running thread does. *)

LEMMA GameMoves ==
    ASSUME Known, PlaceInv, NEW g \in GameThreads, Fine(ip[g], patched), GameStep(g)
    PROVE  \E a :
             /\ Running(g) /\ ip' = [ip EXCEPT ![g] = a]
             /\ Place(a, fn'[g]) /\ Fine(a, patched)
             /\ \/ fn' = fn /\ Point(a) = Point(ip[g])
                \/ fn' = fn /\ Point(ip[g]) \in 0..N /\ Point(a) = Point(ip[g]) + 1
                \/ fn' = fn /\ Point(ip[g]) \in {N, N + 1} /\ Point(a) = N + 2
                \/ /\ Point(ip[g]) = N + 2 /\ Point(a) = 0
                   /\ \E t \in Targets : fn' = [fn EXCEPT ![g] = t]
<1> DEFINE from == ip[g]
<1>a. /\ from \in Addresses /\ Place(from, fn[g]) /\ fn[g] \in Targets
      /\ fn \in [GameThreads -> Targets] /\ N \in Nat /\ N > 0
  BY HookAssumption DEF PlaceInv, Known, GameTypes
<1>b. /\ from.kind \in {"target", "trampoline"} => from.i \in 0..N
      /\ from.kind = "trampoline" => from.where \in Slots
  BY <1>a, Parts
<1>1. ASSUME NEW t \in Targets, CallTarget(g, t)
      PROVE  /\ Running(g) /\ ip' = [ip EXCEPT ![g] = At("target", t, 0)]
             /\ Place(At("target", t, 0), fn'[g]) /\ Fine(At("target", t, 0), patched)
             /\ Point(from) = N + 2 /\ Point(At("target", t, 0)) = 0
             /\ fn' = [fn EXCEPT ![g] = t]
  <2>1. /\ Running(g) /\ ip' = [ip EXCEPT ![g] = At("target", t, 0)]
        /\ from = Out /\ fn' = [fn EXCEPT ![g] = t]
    BY <1>1 DEF CallTarget, Jump
  <2>2. fn'[g] = t
    BY <1>a, <2>1
  <2>3. 0 \notin Buried(t)
    BY <1>a DEF Buried
  <2>4. Place(At("target", t, 0), fn'[g]) /\ Fine(At("target", t, 0), patched)
    BY <2>2, <2>3 DEF Place, Fine, At
  <2>5. Point(from) = N + 2 /\ Point(At("target", t, 0)) = 0
    BY <2>1 DEF Point, Out, At
  <2> QED
    BY <2>1, <2>4, <2>5
<1>2. CASE ExecuteTarget(g)
  <2>1. /\ from.kind = "target" /\ from.where = fn[g] /\ from.i \in 0..N
        /\ Point(from) = from.i
    BY <1>2, <1>a, <1>b DEF ExecuteTarget, Place, Point
  <2>2. /\ UNCHANGED fn
        /\ \/ /\ fn[g] \in patched /\ from.i = 0
              /\ \E k \in {"above", "detour"} :
                   Jump(g, At(k, fn[g], 0)) /\ (k = "above" => fn[g] \in PatchAbove)
           \/ /\ fn[g] \in patched /\ from.i \in Buried(fn[g])
           \/ /\ ~(fn[g] \in patched /\ from.i \in Buried(fn[g]) \cup {0})
              /\ from.i < N
              /\ Jump(g, At("target", fn[g], from.i + 1))
           \/ /\ ~(from.i < N) \/ (fn[g] \in patched /\ from.i \in Buried(fn[g]))
              /\ Jump(g, At("returned", fn[g], 0)) \/ Jump(g, Out)
    BY <1>2, <2>1 DEF ExecuteTarget
  <2>3. ~(fn[g] \in patched /\ from.i \in Buried(fn[g]))
    BY <2>1 DEF Fine
  <2>4. CASE fn[g] \in patched /\ from.i = 0
    <3>1. PICK k \in {"above", "detour"} :
            Jump(g, At(k, fn[g], 0)) /\ (k = "above" => fn[g] \in PatchAbove)
      BY <1>a, <2>1, <2>2, <2>3, <2>4
    <3>2. orig[fn[g]] # None
      BY <2>4, PatchedEntry DEF PlaceInv, OrigInv
    <3> DEFINE a == At(k, fn[g], 0)
    <3>3. a.kind = k /\ a.where = fn[g]
      BY DEF At
    <3>4. Jump(g, a)
      BY <3>1
    <3> HIDE DEF a
    <3>5. Place(a, fn'[g]) /\ Fine(a, patched) /\ Point(a) = 0
      BY <2>2, <2>4, <3>1, <3>2, <3>3 DEF Place, Fine, Point
    <3>6. Point(a) = Point(ip[g])
      BY <2>1, <2>4, <3>5
    <3> QED
      BY <2>2, <3>4, <3>5, <3>6 DEF Jump
  <2>5. CASE ~(fn[g] \in patched /\ from.i = 0) /\ from.i < N
    <3>1. Jump(g, At("target", fn[g], from.i + 1))
      BY <2>2, <2>3, <2>5
    <3> DEFINE a == At("target", fn[g], from.i + 1)
    <3>2. a.kind = "target" /\ a.where = fn[g] /\ a.i = from.i + 1
      BY DEF At
    <3>3. Jump(g, a)
      BY <3>1
    <3> HIDE DEF a
    <3>4. fn[g] \in patched => from.i + 1 \notin Buried(fn[g])
      <4>1. CASE fn[g] \in PatchAbove
        BY <4>1 DEF Buried
      <4>2. CASE fn[g] \notin PatchAbove
        <5>1. fn[g] \in patched => from.i \notin 1..(N - 1) /\ from.i # 0
          BY <2>3, <2>5, <4>2 DEF Buried
        <5> QED
          BY <1>a, <2>1, <2>5, <5>1
      <4> QED
        BY <4>1, <4>2
    <3>5. Place(a, fn'[g]) /\ Fine(a, patched) /\ Point(a) = from.i + 1
      BY <2>2, <3>2, <3>4 DEF Place, Fine, Point
    <3> QED
      BY <2>1, <2>2, <3>3, <3>5 DEF Jump
  <2>6. CASE ~(from.i < N)
    <3>1. from.i = N
      BY <1>a, <2>1, <2>6
    <3>2. Jump(g, At("returned", fn[g], 0)) \/ Jump(g, Out)
      BY <1>a, <2>2, <2>3, <2>6, <3>1
    <3>3. CASE Jump(g, At("returned", fn[g], 0))
      <4> DEFINE a == At("returned", fn[g], 0)
      <4>1. a.kind = "returned" /\ a.where = fn[g] /\ Jump(g, a)
        BY <3>3 DEF At
      <4> HIDE DEF a
      <4>2. Place(a, fn'[g]) /\ Fine(a, patched) /\ Point(a) = N + 1
        BY <2>2, <4>1 DEF Place, Fine, Point
      <4>3. Point(ip[g]) \in 0..N /\ Point(a) = Point(ip[g]) + 1
        BY <2>1, <3>1, <4>2
      <4> QED
        BY <2>2, <4>1, <4>2, <4>3 DEF Jump
    <3>4. CASE Jump(g, Out)
      <4>1. Place(Out, fn'[g]) /\ Fine(Out, patched) /\ Point(Out) = N + 2
        BY DEF Place, Fine, Point, Out, At
      <4>2. Point(ip[g]) \in {N, N + 1}
        BY <2>1, <3>1
      <4> QED
        BY <2>2, <3>4, <4>1, <4>2 DEF Jump
    <3> QED
      BY <3>2, <3>3, <3>4
  <2> QED
    BY <2>4, <2>5, <2>6
<1>3. CASE ExecuteAbove(g)
  <2>1. from.kind = "above" /\ from.where = fn[g] /\ fn[g] \in patched /\ Point(from) = 0
    BY <1>3, <1>a DEF ExecuteAbove, Place, Fine, Point
  <2>2. UNCHANGED fn /\ Jump(g, At("detour", fn[g], 0))
    BY <1>3, <2>1 DEF ExecuteAbove
  <2>3. orig[fn[g]] # None
    BY <2>1, PatchedEntry DEF PlaceInv, OrigInv
  <2> DEFINE a == At("detour", fn[g], 0)
  <2>4. a.kind = "detour" /\ a.where = fn[g] /\ Jump(g, a)
    BY <2>2 DEF At
  <2> HIDE DEF a
  <2>5. Place(a, fn'[g]) /\ Fine(a, patched) /\ Point(a) = 0
    BY <2>2, <2>3, <2>4 DEF Place, Fine, Point
  <2> QED
    BY <2>1, <2>2, <2>4, <2>5 DEF Jump
<1>4. CASE ExecuteDetour(g)
  <2>1. from.kind = "detour" /\ orig[fn[g]] # None /\ Point(from) = 0
    BY <1>4, <1>a DEF ExecuteDetour, Place, Point
  <2>2. UNCHANGED fn /\ Jump(g, At("trampoline", orig[fn[g]], 0))
    BY <1>4, <2>1 DEF ExecuteDetour
  <2>3. buffers[orig[fn[g]]] = fn[g]
    BY <1>a, <2>1 DEF PlaceInv, OrigInv
  <2> DEFINE a == At("trampoline", orig[fn[g]], 0)
  <2>4. a.kind = "trampoline" /\ a.where = orig[fn[g]] /\ a.i = 0 /\ Jump(g, a)
    BY <2>2 DEF At
  <2> HIDE DEF a
  <2>5. Place(a, fn'[g]) /\ Fine(a, patched) /\ Point(a) = 0
    BY <2>2, <2>3, <2>4 DEF Place, Fine, Point
  <2> QED
    BY <2>1, <2>2, <2>4, <2>5 DEF Jump
<1>5. CASE ExecuteTrampoline(g)
  <2>1. /\ from.kind = "trampoline" /\ buffers[from.where] = fn[g] /\ from.i \in 0..N
        /\ Point(from) = from.i
    BY <1>5, <1>a, <1>b DEF ExecuteTrampoline, Place, Point
  <2>2. buffers[from.where] # None
    BY <1>a, <2>1, HookAssumption
  <2>3. /\ UNCHANGED fn
        /\ \/ from.i < N /\ Jump(g, At("trampoline", from.where, from.i + 1))
           \/ ~(from.i < N) /\ Jump(g, At("target", fn[g], N))
    BY <1>5, <2>1, <2>2 DEF ExecuteTrampoline
  <2>4. CASE from.i < N /\ Jump(g, At("trampoline", from.where, from.i + 1))
    <3> DEFINE a == At("trampoline", from.where, from.i + 1)
    <3>1. a.kind = "trampoline" /\ a.where = from.where /\ a.i = from.i + 1 /\ Jump(g, a)
      BY <2>4 DEF At
    <3> HIDE DEF a
    <3>2. Place(a, fn'[g]) /\ Fine(a, patched) /\ Point(a) = from.i + 1
      BY <2>1, <2>3, <3>1 DEF Place, Fine, Point
    <3> QED
      BY <2>1, <2>3, <3>1, <3>2 DEF Jump
  <2>5. CASE ~(from.i < N) /\ Jump(g, At("target", fn[g], N))
    <3> DEFINE a == At("target", fn[g], N)
    <3>1. a.kind = "target" /\ a.where = fn[g] /\ a.i = N /\ Jump(g, a)
      BY <2>5 DEF At
    <3> HIDE DEF a
    <3>2. N \notin Buried(fn[g]) /\ from.i = N
      BY <1>a, <2>1, <2>5 DEF Buried
    <3>3. Place(a, fn'[g]) /\ Fine(a, patched) /\ Point(a) = N
      BY <2>3, <3>1, <3>2 DEF Place, Fine, Point
    <3>4. Point(a) = Point(ip[g])
      BY <2>1, <3>2, <3>3
    <3> QED
      BY <2>3, <3>1, <3>3, <3>4 DEF Jump
  <2> QED
    BY <2>3, <2>4, <2>5
<1>6. CASE DetourReturns(g)
  <2>1. from.kind = "returned" /\ UNCHANGED fn /\ Jump(g, Out) /\ Point(from) = N + 1
    BY <1>6 DEF DetourReturns, Point
  <2>2. Place(Out, fn'[g]) /\ Fine(Out, patched) /\ Point(Out) = N + 2
    BY DEF Place, Fine, Point, Out, At
  <2>3. Point(ip[g]) \in {N, N + 1}
    BY <2>1
  <2> QED
    BY <2>1, <2>2, <2>3 DEF Jump
<1> QED
  BY <1>1, <1>2, <1>3, <1>4, <1>5, <1>6 DEF GameStep

-----------------------------------------------------------------------------
(* The invariant. *)

LEMMA InitSuit == Init => CallsMade /\ PlaceInv /\ SuitInv
<1> SUFFICES ASSUME Init PROVE CallsMade /\ PlaceInv /\ SuitInv
  OBVIOUS
<1>1. CallsMade
  BY DEF Init, CallsMade, Inside
<1>2. \A g \in GameThreads : ip[g] = Out /\ ip[g].kind = "out"
  BY DEF Init, Out, At
<1>3. OrigInv
  BY DEF Init, OrigInv, Entries
<1>4. PlaceInv
  BY <1>2, <1>3 DEF PlaceInv, Place
<1>5. SuitInv
  BY <1>2 DEF Init, SuitInv, Fine
<1> QED
  BY <1>1, <1>4, <1>5

\* Final depends on the entries and the call.
LEMMA FinalSame ==
    ASSUME NEW c, UNCHANGED <<g_hooks, op>>
    PROVE  Final(c)' = Final(c) /\ MayFail(c)' = MayFail(c)
<1>1. \A h : Wanted(c, h)' = Wanted(c, h)
  BY DEF Wanted, Operation
<1>2. Scope(c)' = Scope(c) /\ MayFail(c)' = MayFail(c)
  BY DEF Scope, Entries, Operation, Target, FindHookEntry, MayFail
<1> QED
  BY <1>1, <1>2 DEF Final, Kept, Entries

\* A step after which nobody patches.
LEMMA NobodyPatches ==
    ASSUME SuitInv, UNCHANGED <<patched, held, ip>>,
           \A d \in Callers : cpc'[d] \notin {"freeze", "patch", "unfreeze"}
    PROVE  SuitInv'
  BY DEF SuitInv

\* A thread of the game that a call goes through is suspended.
LEMMA HeldStopped ==
    ASSUME SwitchedSafely, Known, NEW g \in GameThreads, NEW c \in Callers, g \in held[c]
    PROVE  ~Running(g)
<1>1. Suspendable(g) /\ g \in Threads
  BY DEF SwitchedSafely, Suspendable, Threads
<1> QED
  BY <1>1 DEF Known, SuspendedInv, Running

LEMMA RunsFine ==
    ASSUME SwitchedSafely, Known, SuitInv, NEW g \in GameThreads, Running(g)
    PROVE  Fine(ip[g], patched)
  BY HeldStopped DEF SuitInv

\* What a step of c leaves alone while c is inside.
LEMMA CallerAlone ==
    ASSUME Known, NEW c \in Callers, Inside(c), NEW p, Goto(c, p)
    PROVE  /\ cpc'[c] = p
           /\ \A d \in Callers : d # c => cpc'[d] \notin {"freeze", "patch", "unfreeze"}
<1>1. cpc \in [Callers -> Points] /\ LockInv
  BY DEF Known, LockInv
<1> QED
  BY <1>1, OthersIdle DEF Goto

\* One thread that no call is about yet is suspended if it is one of the game's,
\* and moved; it may have been suspended before.
LEMMA FreezeThread ==
    ASSUME SwitchedSafely, Known, NEW c \in Callers, Freeze(c)
    PROVE  /\ cpc[c] = "freeze" /\ Inside(c)
           /\ UNCHANGED <<cpc, op, g_hooks, buffers, orig, patched, fn>>
           /\ \E x \in Threads :
                /\ \A d \in Callers : x \notin held[d]
                /\ \A d \in Callers : d # c => held'[d] = held[d]
                /\ x \in GameThreads => suspended'[x] # 0
                /\ \A y \in Threads : y # x => suspended'[y] = suspended[y]
                /\ held'[c] = held[c] \cup {x} /\ todo'[c] = todo[c] \ {x}
                /\ \A g \in GameThreads : g # x => ip'[g] = ip[g]
                /\ x \in GameThreads => ip'[x] = ProcessThreadIPs(c, ip[x])
<1>1. PICK x \in todo[c] :
        /\ \/ SuspendThread(x) /\ MoveThread(c, x)
           \/ CanFail("open", x) /\ UNCHANGED <<suspended, ip>>
        /\ todo' = [todo EXCEPT ![c] = @ \ {x}]
        /\ held' = [held EXCEPT ![c] = @ \cup {x}]
  BY DEF Freeze
<1>2. /\ cpc[c] = "freeze" /\ Inside(c)
      /\ UNCHANGED <<cpc, op, g_hooks, buffers, orig, patched, fn>>
  BY DEF Freeze, table, Inside
<1>3. /\ suspended \in [Threads -> 0..MaxSuspendCount]
      /\ todo \in [Callers -> SUBSET Threads] /\ held \in [Callers -> SUBSET Threads]
      /\ ip \in [GameThreads -> Addresses]
      /\ MaxSuspendCount \in Nat \ {0}
  BY HookAssumption DEF Known, SuspendedInv, GameTypes
<1>4. x \in Threads /\ \A d \in Callers : x \notin held[d]
  <2>1. x \notin held[c]
    BY DEF Known, SuspendedInv
  <2>2. \A d \in Callers : d # c => held[d] = {}
    BY <1>2, OthersIdle DEF Known, SuspendedInv
  <2> QED
    BY <1>3, <2>1, <2>2
<1>5. ASSUME x \in GameThreads
      PROVE  /\ suspended' = [suspended EXCEPT ![x] = IF @ < MaxSuspendCount THEN @ + 1 ELSE @]
             /\ ip' = [ip EXCEPT ![x] = ProcessThreadIPs(c, @)]
  BY <1>1, <1>5 DEF SwitchedSafely, SuspendThread, MoveThread
<1>6. x \in GameThreads => suspended'[x] # 0 /\ ip'[x] = ProcessThreadIPs(c, ip[x])
  <2>1. suspended[x] \in 0..MaxSuspendCount
    BY <1>3, <1>4
  <2>2. ASSUME x \in GameThreads
        PROVE  suspended'[x] = IF suspended[x] < MaxSuspendCount THEN suspended[x] + 1
                                                                 ELSE suspended[x]
    BY <1>3, <1>4, <1>5, <2>2
  <2>3. x \in GameThreads => suspended'[x] # 0
    BY <1>3, <2>1, <2>2
  <2> QED
    BY <1>3, <1>5, <2>3
<1>7. /\ \A y \in Threads : y # x => suspended'[y] = suspended[y]
      /\ \A g \in GameThreads : g # x => ip'[g] = ip[g]
  <2>1. \/ suspended' = suspended
        \/ suspended' = [suspended EXCEPT ![x] = IF @ < MaxSuspendCount THEN @ + 1 ELSE @]
    BY <1>1 DEF SuspendThread
  <2>2. ip' = ip \/ (x \in GameThreads /\ ip' = [ip EXCEPT ![x] = ProcessThreadIPs(c, @)])
    BY <1>1 DEF MoveThread
  <2> QED
    BY <1>3, <2>1, <2>2
<1>8. /\ held'[c] = held[c] \cup {x} /\ todo'[c] = todo[c] \ {x}
      /\ \A d \in Callers : d # c => held'[d] = held[d]
  BY <1>1, <1>3
<1> QED
  BY <1>2, <1>4, <1>6, <1>7, <1>8

LEMMA SuitFreeze ==
    ASSUME SwitchedSafely, Known, PlaceInv, SuitInv, NEW c \in Callers, Freeze(c)
    PROVE  SuitInv' /\ \A g \in GameThreads : Place(ip'[g], fn[g]) /\ Point(ip'[g]) = Point(ip[g])
<1>1. /\ cpc[c] = "freeze" /\ Inside(c)
      /\ UNCHANGED <<cpc, op, g_hooks, patched, buffers, orig>>
  BY FreezeThread
<1>2. ip \in [GameThreads -> Addresses] /\ fn \in [GameThreads -> Targets]
  BY DEF Known, GameTypes
<1>3. PICK x \in Threads :
        /\ \A d \in Callers : x \notin held[d]
        /\ \A d \in Callers : d # c => held'[d] = held[d]
        /\ held'[c] = held[c] \cup {x} /\ todo'[c] = todo[c] \ {x}
        /\ \A g \in GameThreads : g # x => ip'[g] = ip[g]
        /\ x \in GameThreads => ip'[x] = ProcessThreadIPs(c, ip[x])
  BY FreezeThread
<1>4. ASSUME x \in GameThreads
      PROVE  /\ Place(ip'[x], fn[x]) /\ Point(ip'[x]) = Point(ip[x])
             /\ Fine(ip'[x], Final(c)) /\ (MayFail(c) => Fine(ip'[x], patched))
  <2>1. Fine(ip[x], patched)
    BY <1>3, <1>4 DEF SuitInv
  <2>2. Place(ip[x], fn[x]) /\ ip[x] \in Addresses /\ fn[x] \in Targets
    BY <1>2, <1>4 DEF PlaceInv
  <2> QED
    BY <1>1, <1>3, <1>4, <2>1, <2>2, FreezeMoves
<1>5. \A g \in GameThreads : Place(ip'[g], fn[g]) /\ Point(ip'[g]) = Point(ip[g])
  BY <1>3, <1>4 DEF PlaceInv
<1>6. \A g \in GameThreads :
        (\A d \in Callers : g \notin held'[d]) => Fine(ip'[g], patched')
  <2>1. ASSUME NEW g \in GameThreads, \A d \in Callers : g \notin held'[d]
        PROVE  g # x /\ \A d \in Callers : g \notin held[d]
    BY <1>3, <2>1
  <2> QED
    BY <1>1, <1>3, <2>1 DEF SuitInv
<1>7. GameThreads \subseteq todo'[c] \cup held'[c]
  BY <1>1, <1>3 DEF SuitInv
<1>8. \A g \in held'[c] \cap GameThreads :
        Fine(ip'[g], Final(c)') /\ (MayFail(c)' => Fine(ip'[g], patched'))
  <2>1. Final(c)' = Final(c) /\ MayFail(c)' = MayFail(c)
    BY <1>1, FinalSame
  <2> QED
    BY <1>1, <1>3, <1>4, <2>1 DEF SuitInv
<1>9. \A d \in Callers : d # c => cpc'[d] \notin {"freeze", "patch", "unfreeze"}
  BY <1>1, OthersIdle DEF Known
<1> QED
  BY <1>1, <1>5, <1>6, <1>7, <1>8, <1>9 DEF SuitInv

\* Writing a prologue brings no other end of the call about.
LEMMA PatchFinal ==
    ASSUME SwitchedSafely, Known, NEW c \in Callers, cpc[c] = "patch", UNCHANGED op,
           NEW i \in Entries, i \in Scope(c),
           g_hooks' = [g_hooks EXCEPT ![i].isEnabled = Wanted(c, g_hooks[i]),
                                      ![i].queueEnable = Wanted(c, g_hooks[i])]
    PROVE  Final(c)' = Final(c) /\ MayFail(c)' = MayFail(c)
<1> DEFINE e == Wanted(c, g_hooks[i])
<1>1. /\ Entries' = Entries
      /\ \A j \in Entries : g_hooks'[j].pTarget = g_hooks[j].pTarget
      /\ \A j \in Entries : j # i => g_hooks'[j] = g_hooks[j]
      /\ g_hooks'[i].queueEnable = e
  <2>1. g_hooks \in Seq(HookEntries)
    BY DEF Known, TableInv, TableTypes
  <2>2. g_hooks[i] \in HookEntries
    BY EntryTypes DEF Known, TableInv
  <2> HIDE DEF e
  <2>3. g_hooks' = [g_hooks EXCEPT ![i].isEnabled = e, ![i].queueEnable = e]
    BY DEF e
  <2>4. Entries' = Entries /\ Entries = 1..Len(g_hooks)
    BY <2>1, <2>3 DEF Entries
  <2>5. g_hooks'[i].pTarget = g_hooks[i].pTarget /\ g_hooks'[i].queueEnable = e
    BY <2>1, <2>2, <2>3, <2>4 DEF HookEntries
  <2>6. \A j \in Entries : j # i => g_hooks'[j] = g_hooks[j]
    BY <2>1, <2>3, <2>4
  <2> QED
    BY <2>4, <2>5, <2>6
<1>2. Operation(c)' = Operation(c) /\ Target(c)' = Target(c)
  BY DEF Operation, Target
<1>3. Scope(c)' = Scope(c)
  <2>1. FindHookEntry(Target(c))' = FindHookEntry(Target(c))
    <3>1. \A j : j \in Entries' /\ g_hooks'[j].pTarget = Target(c)'
                   <=> j \in Entries /\ g_hooks[j].pTarget = Target(c)
      BY <1>1, <1>2
    <3> QED
      BY <3>1 DEF FindHookEntry
  <2> QED
    BY <1>1, <1>2, <2>1 DEF Scope
<1>4. \A j \in Entries : Wanted(c, g_hooks[j])' = Wanted(c, g_hooks[j])
  <2> TAKE j \in Entries
  <2>1. Wanted(c, g_hooks[j])' = Wanted(c, g_hooks'[j])
    BY <1>2 DEF Wanted
  <2>2. CASE j # i
    BY <1>1, <2>1, <2>2
  <2>3. CASE j = i
    <3>1. CASE Operation(c) = "Apply"
      BY <1>1, <2>1, <2>3, <3>1, WantedIs DEF e
    <3>2. CASE Operation(c) # "Apply"
      BY <2>1, <2>3, <3>2, WantedIs
    <3> QED
      BY <3>1, <3>2
  <2> QED
    BY <2>2, <2>3
<1>5. \A j \in Entries : Kept(c, j)' = Kept(c, j)
  <2> TAKE j \in Entries
  <2>1. CASE j \in Scope(c)
    BY <1>3, <1>4, <2>1 DEF Kept
  <2>2. CASE j \notin Scope(c)
    <3>1. g_hooks'[j] = g_hooks[j]
      BY <1>1, <2>2
    <3> QED
      BY <1>3, <2>2, <3>1 DEF Kept
  <2> QED
    BY <2>1, <2>2
<1>6. Final(c)' = Final(c)
  <2>1. Final(c)' = {g_hooks'[j].pTarget : j \in {k \in Entries' : Kept(c, k)'}}
    BY DEF Final
  <2>2. {k \in Entries' : Kept(c, k)'} = {k \in Entries : Kept(c, k)}
    BY <1>1, <1>5
  <2> QED
    BY <1>1, <2>1, <2>2 DEF Final
<1> QED
  BY <1>2, <1>6 DEF MayFail

\* A prologue that is written, or not: the suspended threads suit it as well as
\* all that are still to be written.
LEMMA SuitPatch ==
    ASSUME SwitchedSafely, Known, PlaceInv, SuitInv, NEW c \in Callers, EnableHookLL(c)
    PROVE  SuitInv'
<1> DEFINE i == Min(Pending(c))
           e == Wanted(c, g_hooks[i])
           t == g_hooks[i].pTarget
<1>1. cpc[c] = "patch" /\ Pending(c) # {} /\ Inside(c) /\ UNCHANGED <<op, held, todo, suspended, ip>>
  BY DEF EnableHookLL, Inside, game
<1>2. i \in Entries /\ i \in Scope(c)
  BY <1>1, FirstPending, PatchingScope DEF Known, TableInv, Pending
<1>3. \/ /\ g_hooks' = [g_hooks EXCEPT ![i].isEnabled = e, ![i].queueEnable = e]
         /\ patched' = IF e THEN patched \cup {t} ELSE patched \ {t}
         /\ UNCHANGED cpc
      \/ /\ e \in ProtectFails /\ Goto(c, "unfreeze")
         /\ UNCHANGED <<g_hooks, patched>>
  BY DEF EnableHookLL
<1>4. e \in BOOLEAN
  BY <1>1, <1>2, WantedBoolean
<1>8. GameThreads \subseteq held[c]
  BY <1>1 DEF SuitInv
<1>9. \A g \in GameThreads : g \in held'[c]
  BY <1>1, <1>8
<1>10. \A d \in Callers : d # c => cpc[d] \notin {"freeze", "patch", "unfreeze"}
  BY <1>1, OthersIdle DEF Known
<1>11. CASE /\ g_hooks' = [g_hooks EXCEPT ![i].isEnabled = e, ![i].queueEnable = e]
            /\ patched' = IF e THEN patched \cup {t} ELSE patched \ {t}
            /\ UNCHANGED cpc
  <2>1. Final(c)' = Final(c) /\ MayFail(c)' = MayFail(c)
    BY <1>1, <1>2, <1>11, PatchFinal
  <2>2. ASSUME NEW g \in GameThreads, MayFail(c) PROVE Fine(ip[g], patched')
    <3>1. Fine(ip[g], patched) /\ Fine(ip[g], Final(c))
      BY <1>1, <1>8, <2>2 DEF SuitInv
    <3>2. CASE e
      <4>1. t \in Final(c)
        BY <1>2, <3>2 DEF Final, Kept
      <4>2. patched' = patched \cup {t}
        BY <1>11, <3>2
      <4> HIDE DEF t
      <4> QED
        BY <3>1, <4>1, <4>2 DEF Fine
    <3>3. CASE ~e
      <4>1. t \notin PatchAbove
        <5>1. Operation(c) = "Disable" /\ Target(c) # AllHooks
          BY <1>1, <2>2, <3>3, WantedIs DEF MayFail
        <5>2. t = Target(c)
          BY <1>1, <1>2, <5>1, PatchingScope
        <5> QED
          BY <1>1, <5>1, <5>2, PatchingScope
      <4>2. patched' = patched \ {t}
        BY <1>11, <3>3
      <4>3. ip[g].kind = "above" => ip[g].where \in PatchAbove
        BY DEF PlaceInv, Place
      <4> HIDE DEF t
      <4> QED
        BY <3>1, <4>1, <4>2, <4>3 DEF Fine
    <3> QED
      BY <1>4, <3>2, <3>3
  <2>3. \A g \in GameThreads : Fine(ip[g], Final(c))
    BY <1>1, <1>8 DEF SuitInv
  <2> QED
    BY <1>1, <1>8, <1>9, <1>10, <1>11, <2>1, <2>2, <2>3 DEF SuitInv
<1>12. CASE e \in ProtectFails /\ Goto(c, "unfreeze") /\ UNCHANGED <<g_hooks, patched>>
  <2>1. MayFail(c)
    <3>1. op[c] \in Ops /\ Operation(c) \in {"Enable", "Disable", "Apply"}
      BY <1>1, PatchingScope
    <3>2. Operation(c) # "Apply"
      BY <1>12, <3>1 DEF SwitchedSafely, Operation
    <3>3. Operation(c) = "Disable" => e = FALSE
      BY <1>1, WantedIs
    <3>4. Operation(c) = "Disable" => Target(c) # AllHooks
      BY <1>12, <3>1, <3>3 DEF SwitchedSafely, Operation, Target
    <3> QED
      BY <3>1, <3>2, <3>4 DEF MayFail
  <2>2. \A g \in GameThreads : Fine(ip[g], patched)
    BY <1>1, <1>8, <2>1 DEF SuitInv
  <2>3. /\ cpc'[c] = "unfreeze"
        /\ \A d \in Callers : d # c => cpc'[d] \notin {"freeze", "patch", "unfreeze"}
    BY <1>1, <1>12, CallerAlone
  <2> QED
    BY <1>1, <1>9, <1>12, <2>2, <2>3 DEF SuitInv
<1> QED
  BY <1>3, <1>11, <1>12

LEMMA StepSuit ==
    ASSUME SwitchedSafely, Known, PlaceInv, SuitInv, [Next]_vars
    PROVE  SuitInv'
<1>a. /\ cpc \in [Callers -> Points] /\ LockInv
      /\ todo \in [Callers -> SUBSET Threads] /\ held \in [Callers -> SUBSET Threads]
  BY DEF Known, LockInv, SuspendedInv
<1>1. ASSUME NEW c \in Callers, Invoke(c) PROVE SuitInv'
  <2>1. /\ UNCHANGED <<g_hooks, op, patched, todo, held, suspended, ip>>
        /\ \A d \in Callers : cpc'[d] = cpc[d] \/ cpc'[d] = "spin"
    BY <1>1, <1>a DEF Invoke, Goto, table, game
  <2>2. \A d \in Callers : Final(d)' = Final(d) /\ MayFail(d)' = MayFail(d)
    BY <2>1, FinalSame
  <2> QED
    BY <2>1, <2>2 DEF SuitInv
<1>2. ASSUME NEW c \in Callers, EnterSpinLock(c) PROVE SuitInv'
  <2>1. /\ UNCHANGED <<patched, held, ip>>
        /\ \A d \in Callers : cpc'[d] = cpc[d] \/ cpc'[d] = "body"
    BY <1>2, <1>a DEF EnterSpinLock, Goto, table, game
  <2>2. \A d \in Callers : ~Inside(d)
    BY <1>2, <1>a DEF EnterSpinLock, LockInv, MutualExclusion
  <2> QED
    BY <2>1, <2>2, NobodyPatches DEF Inside
<1>3. ASSUME NEW c \in Callers,
             \/ MH_Initialize(c) \/ CreateRefused(c) \/ MH_CreateHook(c) \/ QueueHook(c)
             \/ NotReady(c) \/ NothingPending(c) \/ Unfrozen(c) \/ LeaveSpinLock(c)
      PROVE  SuitInv'
  <2>1. /\ Inside(c) /\ UNCHANGED <<patched, held, ip>>
        /\ \E p \in {"leave", "free", "idle"} : Goto(c, p)
    BY <1>3 DEF MH_Initialize, CreateRefused, MH_CreateHook, QueueHook, NotReady,
                NothingPending, Unfrozen, LeaveSpinLock, InBody, Finish, Inside,
                table, game
  <2> QED
    BY <2>1, CallerAlone, NobodyPatches
<1>4. ASSUME NEW c \in Callers, RemoveFree(c) \/ UninitializeFree(c) PROVE SuitInv'
  BY <1>4, NoFree DEF RemoveFree, UninitializeFree
<1>5. ASSUME NEW c \in Callers, EnumerateThreads(c) PROVE SuitInv'
  <2>1. /\ Inside(c) /\ cpc[c] = "body" /\ Goto(c, "freeze")
        /\ UNCHANGED <<patched, suspended, ip, held>>
        /\ \E missed \in SUBSET {x \in Threads : CanFail("snapshot", x)} :
             todo' = [todo EXCEPT ![c] = Threads \ (missed \cup {c})]
    BY <1>5 DEF EnumerateThreads, InBody, Inside, table, game
  <2>2. /\ cpc'[c] = "freeze"
        /\ \A d \in Callers : d # c => cpc'[d] \notin {"freeze", "patch", "unfreeze"}
    BY <2>1, CallerAlone
  <2>3. held[c] = {}
    BY <2>1 DEF Known, SuspendedInv
  <2>4. GameThreads \subseteq todo'[c]
    BY <1>a, <2>1, HookAssumption DEF Threads, SwitchedSafely
  <2> QED
    BY <2>1, <2>2, <2>3, <2>4 DEF SuitInv
<1>6. ASSUME NEW c \in Callers, Freeze(c) PROVE SuitInv'
  BY <1>6, SuitFreeze
<1>7. ASSUME NEW c \in Callers, Frozen(c) PROVE SuitInv'
  <2>1. /\ Inside(c) /\ cpc[c] = "freeze" /\ todo[c] = {} /\ Goto(c, "patch")
        /\ UNCHANGED <<g_hooks, op, patched, suspended, ip, held>>
    BY <1>7 DEF Frozen, Inside, table, game
  <2>2. /\ cpc'[c] = "patch"
        /\ \A d \in Callers : d # c => cpc'[d] \notin {"freeze", "patch", "unfreeze"}
    BY <2>1, CallerAlone
  <2>3. Final(c)' = Final(c) /\ MayFail(c)' = MayFail(c)
    BY <2>1, FinalSame
  <2> QED
    BY <2>1, <2>2, <2>3 DEF SuitInv
<1>8. ASSUME NEW c \in Callers, EnableHookLL(c) PROVE SuitInv'
  BY <1>8, SuitPatch
<1>9. ASSUME NEW c \in Callers, Patched(c) PROVE SuitInv'
  <2>1. /\ Inside(c) /\ cpc[c] = "patch" /\ Pending(c) = {} /\ Goto(c, "unfreeze")
        /\ UNCHANGED <<patched, suspended, ip, held>>
    BY <1>9 DEF Patched, Inside, table, game
  <2>2. /\ cpc'[c] = "unfreeze"
        /\ \A d \in Callers : d # c => cpc'[d] \notin {"freeze", "patch", "unfreeze"}
    BY <2>1, CallerAlone
  <2>3. \A i \in Entries : Kept(c, i) = g_hooks[i].isEnabled
    BY <2>1 DEF Kept, Pending
  <2>4. Final(c) = patched
    <3>1. patched = {g_hooks[i].pTarget : i \in {j \in Entries : g_hooks[j].isEnabled}}
      BY DEF Known, TableInv, PatchedIffEnabled
    <3>2. {j \in Entries : g_hooks[j].isEnabled} = {j \in Entries : Kept(c, j)}
      BY <2>3
    <3> QED
      BY <3>1, <3>2 DEF Final
  <2> QED
    BY <2>1, <2>2, <2>4 DEF SuitInv
<1>10. ASSUME NEW c \in Callers, Unfreeze(c) PROVE SuitInv'
  <2>1. PICK x \in held[c] : held' = [held EXCEPT ![c] = @ \ {x}]
    BY <1>10 DEF Unfreeze
  <2>2. Inside(c) /\ cpc[c] = "unfreeze" /\ UNCHANGED <<cpc, patched, ip>>
    BY <1>10 DEF Unfreeze, Inside, table, game
  <2>3. /\ held'[c] = held[c] \ {x} /\ x \in Threads
        /\ \A d \in Callers : d # c => held'[d] = held[d]
    BY <1>a, <2>1
  <2>4. \A g \in GameThreads :
          (\A d \in Callers : g \notin held'[d]) => Fine(ip'[g], patched')
    <3> SUFFICES ASSUME NEW g \in GameThreads, \A d \in Callers : g \notin held'[d]
                 PROVE  Fine(ip[g], patched)
      BY <2>2
    <3>1. CASE g = x
      BY <2>1, <2>2, <3>1 DEF SuitInv
    <3>2. CASE g # x
      BY <2>3, <3>2 DEF SuitInv
    <3> QED
      BY <3>1, <3>2
  <2>5. \A d \in Callers : d # c => cpc'[d] \notin {"freeze", "patch", "unfreeze"}
    BY <1>a, <2>2, OthersIdle
  <2> QED
    BY <2>2, <2>3, <2>4, <2>5 DEF SuitInv
<1>11. ASSUME NEW g \in GameThreads, GameStep(g) PROVE SuitInv'
  <2>1. UNCHANGED <<g_hooks, op, cpc, patched, todo, held, suspended>>
    BY <1>11, GameOutside DEF table, local
  <2>2. Running(g)
    BY <1>11 DEF GameStep, CallTarget, ExecuteTarget, ExecuteAbove, ExecuteDetour,
                 ExecuteTrampoline, DetourReturns, Jump
  <2>3. PICK a : ip' = [ip EXCEPT ![g] = a] /\ Fine(a, patched)
    <3>1. Fine(ip[g], patched)
      BY <2>2, RunsFine
    <3> QED
      BY <1>11, <3>1, GameMoves
  <2>4. \A d \in Callers : g \notin held[d]
    BY <2>2, HeldStopped
  <2>5. /\ \A h \in GameThreads : h # g => ip'[h] = ip[h]
        /\ ip'[g] = a
    BY <2>3 DEF Known, GameTypes
  <2>6. \A d \in Callers : Final(d)' = Final(d) /\ MayFail(d)' = MayFail(d)
    BY <2>1, FinalSame
  <2> QED
    BY <2>1, <2>3, <2>4, <2>5, <2>6 DEF SuitInv
<1>12. CASE UNCHANGED vars
  <2>1. UNCHANGED <<g_hooks, op, cpc, patched, todo, held, suspended, ip>>
    BY <1>12 DEF vars, table, local, game
  <2>2. \A d \in Callers : Final(d)' = Final(d) /\ MayFail(d)' = MayFail(d)
    BY <2>1, FinalSame
  <2> QED
    BY <2>1, <2>2 DEF SuitInv
<1> QED
  BY <1>1, <1>2, <1>3, <1>4, <1>5, <1>6, <1>7, <1>8, <1>9, <1>10, <1>11, <1>12
  DEF Next, Work

-----------------------------------------------------------------------------
(* Every thread stays in its call. *)

\* A step that leaves the originals, the trampolines and the threads alone.
LEMMA SamePlace ==
    ASSUME PlaceInv, UNCHANGED <<orig, buffers, ip, fn>>, Entries' = Entries,
           \A i \in Entries : g_hooks'[i].pTarget = g_hooks[i].pTarget
    PROVE  PlaceInv'
<1>1. OrigInv'
  BY DEF PlaceInv, OrigInv
<1>2. \A g \in GameThreads : Place(ip[g], fn[g])'
  BY DEF PlaceInv, Place
<1> QED
  BY <1>1, <1>2 DEF PlaceInv

\* A new trampoline is in a buffer where no thread is, and its target's.
LEMMA PlaceCreate ==
    ASSUME Known, PlaceInv, NEW c \in Callers, MH_CreateHook(c)
    PROVE  PlaceInv'
<1>1. PICK s \in Slots :
        /\ buffers[s] = None
        /\ buffers' = [buffers EXCEPT ![s] = Target(c)]
        /\ orig' = [orig EXCEPT ![Target(c)] = s]
        /\ g_hooks' = Append(g_hooks, [pTarget     |-> Target(c),
                                       pTrampoline |-> s,
                                       isEnabled   |-> FALSE,
                                       queueEnable |-> FALSE])
  BY DEF MH_CreateHook
<1>2. UNCHANGED <<ip, fn>>
  BY DEF MH_CreateHook, InBody, game
<1>3. /\ g_hooks \in Seq(HookEntries) /\ buffers \in [Slots -> Targets \cup {None}]
      /\ orig \in [Targets -> Slots \cup {None}] /\ ip \in [GameThreads -> Addresses]
      /\ fn \in [GameThreads -> Targets] /\ None \notin Targets /\ None \notin Slots
  BY HookAssumption DEF Known, TableInv, TableTypes, GameTypes
<1>4. Target(c) \in Targets
  BY DEF MH_CreateHook, InBody, Inside, Known, TableInv, TableTypes, Calls, Target
<1> DEFINE t == Target(c)
<1>5. /\ buffers'[s] = t /\ \A r \in Slots : r # s => buffers'[r] = buffers[r]
      /\ orig'[t] = s /\ \A u \in Targets : u # t => orig'[u] = orig[u]
  BY <1>1, <1>3, <1>4
<1>6. /\ \A i \in Entries : g_hooks'[i].pTarget = g_hooks[i].pTarget
      /\ \A i \in Entries' : i \in Entries \/ g_hooks'[i].pTarget = t
  BY <1>1, <1>3 DEF Entries
<1>7. \A i \in Entries : g_hooks[i].pTarget \in Targets
  BY EntryTypes DEF Known, TableInv
<1> HIDE DEF t
<1>8. OrigInv'
  <2>1. \A u \in Targets : orig'[u] # None => buffers'[orig'[u]] = u
    <3> SUFFICES ASSUME NEW u \in Targets, orig'[u] # None
                 PROVE  buffers'[orig'[u]] = u
      OBVIOUS
    <3>1. CASE u = t
      BY <1>5, <3>1
    <3>2. CASE u # t
      <4>1. orig'[u] = orig[u] /\ orig[u] \in Slots /\ buffers[orig[u]] = u
        BY <1>3, <1>5, <3>2 DEF PlaceInv, OrigInv
      <4>2. orig[u] # s
        BY <1>1, <1>3, <4>1
      <4> QED
        BY <1>5, <4>1, <4>2
    <3> QED
      BY <3>1, <3>2
  <2>2. \A i \in Entries' : orig'[g_hooks'[i].pTarget] # None
    <3> SUFFICES ASSUME NEW i \in Entries' PROVE orig'[g_hooks'[i].pTarget] # None
      OBVIOUS
    <3>1. CASE g_hooks'[i].pTarget = t
      BY <1>3, <1>5, <3>1
    <3>2. CASE g_hooks'[i].pTarget # t
      BY <1>5, <1>6, <1>7, <3>2 DEF PlaceInv, OrigInv
    <3> QED
      BY <3>1, <3>2
  <2> QED
    BY <2>1, <2>2 DEF OrigInv
<1>9. ASSUME NEW g \in GameThreads PROVE Place(ip[g], fn[g])'
  <2>1. Place(ip[g], fn[g]) /\ ip'[g] = ip[g] /\ fn'[g] = fn[g] /\ fn[g] \in Targets
    BY <1>2, <1>3 DEF PlaceInv
  <2>2. orig[fn[g]] # None => orig'[fn[g]] # None
    BY <1>3, <1>5, <2>1
  <2>3. ip[g].kind = "trampoline" => buffers'[ip[g].where] = fn[g]
    <3> SUFFICES ASSUME ip[g].kind = "trampoline" PROVE buffers'[ip[g].where] = fn[g]
      OBVIOUS
    <3>1. ip[g].where \in Slots
      BY <1>3, Parts
    <3>2. buffers[ip[g].where] = fn[g]
      BY <2>1 DEF Place
    <3>3. ip[g].where # s
      BY <1>1, <1>3, <2>1, <3>2
    <3> QED
      BY <1>5, <3>1, <3>2, <3>3
  <2> QED
    BY <2>1, <2>2, <2>3 DEF Place
<1> QED
  BY <1>8, <1>9 DEF PlaceInv

LEMMA StepPlace ==
    ASSUME SwitchedSafely, Known, PlaceInv, SuitInv, [Next]_vars
    PROVE  PlaceInv'
<1>1. ASSUME NEW c \in Callers,
             \/ Invoke(c) \/ EnterSpinLock(c) \/ MH_Initialize(c) \/ CreateRefused(c)
             \/ NotReady(c) \/ NothingPending(c) \/ EnumerateThreads(c) \/ Frozen(c)
             \/ Patched(c) \/ Unfreeze(c) \/ Unfrozen(c) \/ LeaveSpinLock(c)
      PROVE  PlaceInv'
  <2>1. UNCHANGED <<orig, buffers, ip, fn, g_hooks>>
    BY <1>1 DEF Invoke, EnterSpinLock, MH_Initialize, CreateRefused, NotReady,
                NothingPending, EnumerateThreads, Frozen, Patched, Unfreeze,
                Unfrozen, LeaveSpinLock, InBody, table, game
  <2> QED
    BY <2>1, SamePlace DEF Entries
<1>2. ASSUME NEW c \in Callers, MH_CreateHook(c) PROVE PlaceInv'
  BY <1>2, PlaceCreate
<1>3. ASSUME NEW c \in Callers, QueueHook(c) PROVE PlaceInv'
  <2>1. PICK flag \in BOOLEAN :
          g_hooks' = g_hooks \/ g_hooks' = [i \in Entries |->
                IF i \in Scope(c) THEN [g_hooks[i] EXCEPT !.queueEnable = flag]
                                  ELSE g_hooks[i]]
    BY <1>3 DEF QueueHook
  <2>2. UNCHANGED <<orig, buffers, ip, fn>>
    BY <1>3 DEF QueueHook, InBody, game
  <2>3. \A i \in Entries : g_hooks[i] \in HookEntries
    BY EntryTypes DEF Known, TableInv
  <2>4. Entries' = Entries /\ \A i \in Entries : g_hooks'[i].pTarget = g_hooks[i].pTarget
    BY <2>1, <2>3 DEF Entries, HookEntries
  <2> QED
    BY <2>2, <2>4, SamePlace
<1>4. ASSUME NEW c \in Callers, EnableHookLL(c) PROVE PlaceInv'
  <2>1. Ready(c) /\ UNCHANGED <<orig, buffers, ip, fn>>
    BY <1>4, PatchingScope DEF EnableHookLL, game
  <2>2. Entries' = Entries /\ \A i \in Entries : g_hooks'[i].pTarget = g_hooks[i].pTarget
    BY <1>4, <2>1, PatchTable DEF Known
  <2> QED
    BY <2>1, <2>2, SamePlace
<1>5. ASSUME NEW c \in Callers, Freeze(c) PROVE PlaceInv'
  <2>1. UNCHANGED <<g_hooks, orig, buffers, fn>>
    BY <1>5, FreezeThread
  <2>2. \A g \in GameThreads : Place(ip'[g], fn[g])
    BY <1>5, SuitFreeze
  <2> QED
    BY <2>1, <2>2 DEF PlaceInv, OrigInv, Entries, Place
<1>6. ASSUME NEW c \in Callers, RemoveFree(c) \/ UninitializeFree(c) PROVE PlaceInv'
  BY <1>6, NoFree DEF RemoveFree, UninitializeFree
<1>7. ASSUME NEW g \in GameThreads, GameStep(g) PROVE PlaceInv'
  <2>1. UNCHANGED <<g_hooks, orig, buffers>> /\ Running(g)
    BY <1>7, GameOutside
       DEF table, GameStep, CallTarget, ExecuteTarget, ExecuteAbove, ExecuteDetour,
           ExecuteTrampoline, DetourReturns, Jump
  <2>2. Fine(ip[g], patched)
    BY <2>1, RunsFine
  <2>3. PICK a :
          /\ ip' = [ip EXCEPT ![g] = a] /\ Place(a, fn'[g])
          /\ fn' = fn \/ \E t \in Targets : fn' = [fn EXCEPT ![g] = t]
    BY <1>7, <2>2, GameMoves
  <2>4. /\ ip'[g] = a
        /\ \A h \in GameThreads : h # g => ip'[h] = ip[h] /\ fn'[h] = fn[h]
    BY <2>3 DEF Known, GameTypes
  <2>5. \A h \in GameThreads : Place(ip'[h], fn'[h])
    BY <2>3, <2>4 DEF PlaceInv
  <2> QED
    BY <2>1, <2>5 DEF PlaceInv, OrigInv, Entries, Place
<1>8. CASE UNCHANGED vars
  <2>1. UNCHANGED <<orig, buffers, ip, fn, g_hooks>>
    BY <1>8 DEF vars, table, game
  <2> QED
    BY <2>1, SamePlace DEF Entries
<1> QED
  BY <1>1, <1>2, <1>3, <1>4, <1>5, <1>6, <1>7, <1>8 DEF Next, Work

-----------------------------------------------------------------------------
(* The refinement. *)

LEMMA ProgressIsPoint == Progress = [g \in GameThreads |-> Point(ip[g])]
  BY DEF Progress, Point

\* A step that moves no thread of the game, and suspends and resumes none.
LEMMA Unnoticed ==
    ASSUME UNCHANGED <<ip, fn, suspended>>
    PROVE  UNCHANGED Abs!vars
<1>1. UNCHANGED Progress
  BY DEF Progress
<1>2. UNCHANGED {g \in GameThreads : ~Running(g)}
  BY DEF Running
<1> QED
  BY <1>1, <1>2 DEF Abs!vars

LEMMA FreezeIsStop ==
    ASSUME SwitchedSafely, Known, PlaceInv, SuitInv, NEW c \in Callers, Freeze(c)
    PROVE  Abs!Next \/ UNCHANGED Abs!vars
<1>1. PICK x \in Threads :
        /\ x \in GameThreads => suspended'[x] # 0
        /\ \A y \in Threads : y # x => suspended'[y] = suspended[y]
  BY FreezeThread
<1>2. UNCHANGED fn
  BY FreezeThread
<1>3. Progress' = Progress
  <2>1. \A g \in GameThreads : Point(ip'[g]) = Point(ip[g])
    BY SuitFreeze
  <2>2. Progress' = [g \in GameThreads |-> Point(ip'[g])]
    BY DEF Progress, Point
  <2> QED
    BY <2>1, <2>2, ProgressIsPoint
<1>4. CASE x \in GameThreads /\ Running(x)
  <2>1. x \notin {g \in GameThreads : ~Running(g)}
    BY <1>4
  <2>2. {g \in GameThreads : ~Running(g)}' = {g \in GameThreads : ~Running(g)} \cup {x}
    BY <1>1, <1>4 DEF Running, Threads
  <2>3. Abs!Stop(x)
    BY <1>2, <1>3, <2>1, <2>2 DEF Abs!Stop
  <2> QED
    BY <1>4, <2>3 DEF Abs!Next
<1>5. CASE x \notin GameThreads \/ ~Running(x)
  <2>1. {g \in GameThreads : ~Running(g)}' = {g \in GameThreads : ~Running(g)}
    BY <1>1, <1>5 DEF Running, Threads
  <2> QED
    BY <1>2, <1>3, <2>1 DEF Abs!vars
<1> QED
  BY <1>4, <1>5

\* The thread runs again, or remains suspended.
LEMMA UnfreezeIsResume ==
    ASSUME Known, NEW c \in Callers, Unfreeze(c)
    PROVE  Abs!Next \/ UNCHANGED Abs!vars
<1>1. PICK x \in held[c] :
        \/ suspended' = [suspended EXCEPT ![x] = IF @ > 0 THEN @ - 1 ELSE @]
        \/ suspended' = suspended
  BY DEF Unfreeze, ResumeThread
<1>2. UNCHANGED <<ip, fn>>
  BY DEF Unfreeze, game
<1>3. /\ x \in Threads
      /\ suspended[x] = 0 => suspended'[x] = 0
      /\ \A y \in Threads : y # x => suspended'[y] = suspended[y]
  BY <1>1 DEF Known, SuspendedInv
<1>4. CASE x \in GameThreads /\ suspended[x] # 0 /\ suspended'[x] = 0
  <2>1. x \in {g \in GameThreads : ~Running(g)}
    BY <1>4 DEF Running
  <2>2. {g \in GameThreads : ~Running(g)}' = {g \in GameThreads : ~Running(g)} \ {x}
    BY <1>3, <1>4 DEF Running, Threads
  <2>3. UNCHANGED Progress
    BY <1>2 DEF Progress
  <2>4. Abs!Resume(x)
    BY <1>2, <2>1, <2>2, <2>3 DEF Abs!Resume
  <2> QED
    BY <1>4, <2>4 DEF Abs!Next
<1>5. CASE x \notin GameThreads \/ (suspended[x] = 0 <=> suspended'[x] = 0)
  <2>1. {g \in GameThreads : ~Running(g)}' = {g \in GameThreads : ~Running(g)}
    BY <1>3, <1>5 DEF Running, Threads
  <2>2. UNCHANGED Progress
    BY <1>2 DEF Progress
  <2> QED
    BY <1>2, <2>1, <2>2 DEF Abs!vars
<1> QED
  BY <1>3, <1>4, <1>5

LEMMA GameIsCall ==
    ASSUME SwitchedSafely, Known, PlaceInv, SuitInv, NEW g \in GameThreads, GameStep(g)
    PROVE  Abs!Next \/ UNCHANGED Abs!vars
<1>1. UNCHANGED suspended
  BY GameOutside
<1>2. Running(g)
  BY DEF GameStep, CallTarget, ExecuteTarget, ExecuteAbove, ExecuteDetour,
         ExecuteTrampoline, DetourReturns, Jump
<1>3. Fine(ip[g], patched)
  BY <1>2, RunsFine
<1>4. PICK a :
        /\ ip' = [ip EXCEPT ![g] = a]
        /\ \/ fn' = fn /\ Point(a) = Point(ip[g])
           \/ fn' = fn /\ Point(ip[g]) \in 0..N /\ Point(a) = Point(ip[g]) + 1
           \/ fn' = fn /\ Point(ip[g]) \in {N, N + 1} /\ Point(a) = N + 2
           \/ /\ Point(ip[g]) = N + 2 /\ Point(a) = 0
              /\ \E t \in Targets : fn' = [fn EXCEPT ![g] = t]
  BY <1>3, GameMoves
<1>5. Progress' = [Progress EXCEPT ![g] = Point(a)] /\ Progress[g] = Point(ip[g])
  <2>1. ip'[g] = a /\ \A h \in GameThreads : h # g => ip'[h] = ip[h]
    BY <1>4 DEF Known, GameTypes
  <2>2. Progress' = [h \in GameThreads |-> Point(ip'[h])]
    BY DEF Progress, Point
  <2>3. Progress' = [h \in GameThreads |-> IF h = g THEN Point(a) ELSE Point(ip[h])]
    BY <2>1, <2>2
  <2> QED
    BY <2>3, ProgressIsPoint
<1>6. /\ {h \in GameThreads : ~Running(h)}' = {h \in GameThreads : ~Running(h)}
      /\ g \notin {h \in GameThreads : ~Running(h)}
  BY <1>1, <1>2 DEF Running
<1>7. CASE fn' = fn /\ Point(a) = Point(ip[g])
  <2>1. Progress' = Progress
    BY <1>5, <1>7, ProgressIsPoint
  <2> QED
    BY <1>6, <1>7, <2>1 DEF Abs!vars
<1>8. CASE fn' = fn /\ Point(ip[g]) \in 0..N /\ Point(a) = Point(ip[g]) + 1
  <2>1. Abs!Step(g)
    BY <1>5, <1>6, <1>8 DEF Abs!Step
  <2> QED
    BY <2>1 DEF Abs!Next
<1>9. CASE fn' = fn /\ Point(ip[g]) \in {N, N + 1} /\ Point(a) = N + 2
  <2>1. Abs!Return(g)
    BY <1>5, <1>6, <1>9 DEF Abs!Return, Abs!Idle
  <2> QED
    BY <2>1 DEF Abs!Next
<1>10. CASE /\ Point(ip[g]) = N + 2 /\ Point(a) = 0
            /\ \E t \in Targets : fn' = [fn EXCEPT ![g] = t]
  <2>1. PICK t \in Targets : fn' = [fn EXCEPT ![g] = t]
    BY <1>10
  <2>2. Abs!Call(g, t)
    BY <1>5, <1>6, <1>10, <2>1 DEF Abs!Call, Abs!Idle
  <2> QED
    BY <2>2 DEF Abs!Next
<1> QED
  BY <1>4, <1>7, <1>8, <1>9, <1>10

LEMMA StepRefines ==
    ASSUME SwitchedSafely, Known, PlaceInv, SuitInv, [Next]_vars
    PROVE  Abs!Next \/ UNCHANGED Abs!vars
<1>1. ASSUME NEW c \in Callers, Freeze(c) PROVE Abs!Next \/ UNCHANGED Abs!vars
  BY <1>1, FreezeIsStop
<1>2. ASSUME NEW c \in Callers, Unfreeze(c) PROVE Abs!Next \/ UNCHANGED Abs!vars
  BY <1>2, UnfreezeIsResume
<1>3. ASSUME NEW c \in Callers,
             \/ Invoke(c) \/ EnterSpinLock(c)
             \/ Work(c) /\ ~Freeze(c) /\ ~Unfreeze(c)
      PROVE  Abs!Next \/ UNCHANGED Abs!vars
  <2>1. UNCHANGED <<suspended, ip, fn>>
    BY <1>3 DEF Work, Invoke, EnterSpinLock, MH_Initialize, CreateRefused, MH_CreateHook,
                QueueHook, NotReady, NothingPending, EnumerateThreads, Frozen,
                EnableHookLL, Patched, Unfrozen, RemoveFree, UninitializeFree,
                LeaveSpinLock, InBody, game
  <2> QED
    BY <2>1, Unnoticed
<1>4. ASSUME NEW g \in GameThreads, GameStep(g) PROVE Abs!Next \/ UNCHANGED Abs!vars
  BY <1>4, GameIsCall
<1>5. CASE UNCHANGED vars
  <2>1. UNCHANGED <<suspended, ip, fn>>
    BY <1>5 DEF vars, game
  <2> QED
    BY <2>1, Unnoticed
<1> QED
  BY <1>1, <1>2, <1>3, <1>4, <1>5 DEF Next

LEMMA InitRefines == Init => Abs!Init
<1> SUFFICES ASSUME Init PROVE Abs!Init
  OBVIOUS
<1>1. fn \in [GameThreads -> Targets]
  BY HookAssumption DEF Init
<1>2. Progress = [g \in GameThreads |-> N + 2]
  BY DEF Init, Progress, Out, At
<1>3. {g \in GameThreads : ~Running(g)} = {}
  BY DEF Init, Running, Threads
<1> QED
  BY <1>1, <1>2, <1>3 DEF Abs!Init, Abs!Idle

\* Every thread is in the call it made, at an instruction that suits the
\* patches, while hooks are switched on and off safely.
THEOREM CallsUndisturbed ==
    ASSUME SwitchedSafely
    PROVE  Spec => [](Known /\ PlaceInv /\ SuitInv)
<1>1. Init => GameTypes /\ CallsMade /\ PlaceInv /\ SuitInv
  BY InitGame, InitSuit
<1>2. /\ LockInv /\ SuspendedInv /\ TableInv /\ CallInv
      /\ GameTypes /\ CallsMade /\ PlaceInv /\ SuitInv /\ [Next]_vars
      => GameTypes' /\ CallsMade' /\ PlaceInv' /\ SuitInv'
  BY StepGame, StepCalls, StepPlace, StepSuit DEF Known, TableInv
<1> QED
  BY <1>1, <1>2, LockAndThreads, TableInvariance, PTL DEF Spec, Known

\* No thread ever runs at a point that a patch buried or took away: Freeze
\* moved all that were there, those included that an earlier call left suspended.
THEOREM NobodyOverwritten ==
    ASSUME SwitchedSafely
    PROVE  Spec => []NotInOverwrittenArea
<1>1. Known /\ SuitInv => NotInOverwrittenArea
  BY RunsFine DEF Fine, NotInOverwrittenArea
<1> QED
  BY <1>1, CallsUndisturbed, PTL

\* Hooking is transparent: while hooks are switched on and off under them, the
\* threads of the game execute every instruction of a call once and in order,
\* for any number of threads, callers, functions and instructions.  A thread that
\* Unfreeze cannot open again makes no further step, but is where it was.
THEOREM Transparency ==
    ASSUME SwitchedSafely
    PROVE  Spec => Transparent
<1>1. Known /\ PlaceInv /\ SuitInv /\ [Next]_vars => [Abs!Next]_(Abs!vars)
  BY StepRefines
<1>2. Init => Abs!Init
  BY InitRefines
<1> QED
  BY <1>1, <1>2, CallsUndisturbed, PTL DEF Spec, Transparent, Abs!Spec

=============================================================================
