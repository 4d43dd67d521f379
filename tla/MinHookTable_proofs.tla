------------------------- MODULE MinHookTable_proofs ------------------------
(***************************************************************************)
(* Proofs about MinHook's table of hooks for every set of callers, targets *)
(* and slots: its entries, their trampolines and the patched prologues     *)
(* agree, also after calls that failed.                                    *)
(***************************************************************************)
EXTENDS MinHook_proofs, WellFoundedInduction

Calls == Operations \X (Targets \cup {AllHooks})

\* The table and the calls have their types.
TableTypes ==
    /\ g_hHeap \in BOOLEAN
    /\ g_hooks \in Seq(HookEntries)
    /\ buffers \in [Slots -> Targets \cup {None}]
    /\ patched \subseteq Targets
    /\ op \in [Callers -> Calls \cup {NoCall}]
    /\ ok \in [Callers -> BOOLEAN]
    /\ \A c \in Callers : Inside(c) => op[c] \in Calls

\* What a caller knows of the table at each point of its call: the hooks it is
\* about are there until it ends, and before it frees anything, or reports
\* success, all of them are in the state it wants.
OwnInv(c) ==
    /\ cpc[c] \in {"freeze", "patch", "unfreeze"} =>
         Operation(c) \in Patching /\ Ready(c)
    /\ cpc[c] = "free" =>
         Operation(c) \in {"Remove", "Uninitialize"} /\ Ready(c) /\ Pending(c) = {}
    /\ cpc[c] = "unfreeze" /\ ok[c] => Pending(c) = {}
    /\ cpc[c] = "leave" /\ ok[c] /\ Operation(c) \in {"Enable", "Disable", "Apply"} =>
         Pending(c) = {}

CallInv  == \A c \in Callers : OwnInv(c)
TableInv == TableTypes /\ TableConsistent /\ PatchedIffEnabled

-----------------------------------------------------------------------------
(* The operators on the table. *)

\* Min of some of the entries is one of them.
LEMMA MinOfNats ==
    ASSUME NEW S \in SUBSET Nat, S # {}
    PROVE  Min(S) \in S
<1> DEFINE R == {ss \in Nat \X Nat : ss[1] < ss[2]}
<1>1. IsWellFoundedOn(R, Nat)
  BY NatLessThanWellFounded DEF OpToRel
<1> HIDE DEF R
<1>2. PICK x \in S : \A y \in S : ~(<<y, x>> \in R)
  BY <1>1, WFMin
<1>3. \A y \in S : x <= y
  <2> TAKE y \in S
  <2>1. ~(y < x)
    <3>1. <<y, x>> \in R <=> y < x
      BY DEF R
    <3> QED
      BY <1>2, <3>1
  <2> QED
    BY <2>1
<1> QED
  BY <1>3 DEF Min

LEMMA EntryTypes ==
    ASSUME TableTypes, NEW i \in Entries
    PROVE  /\ g_hooks[i] \in HookEntries
           /\ g_hooks[i].pTarget \in Targets /\ g_hooks[i].pTrampoline \in Slots
           /\ g_hooks[i].isEnabled \in BOOLEAN /\ g_hooks[i].queueEnable \in BOOLEAN
           /\ i \in 1..Len(g_hooks)
<1>1. g_hooks[i] \in HookEntries /\ i \in 1..Len(g_hooks)
  BY DEF TableTypes, Entries
<1> QED
  BY <1>1 DEF HookEntries

LEMMA FoundEntry ==
    ASSUME NEW t, Found(t)
    PROVE  FindHookEntry(t) \in Entries /\ g_hooks[FindHookEntry(t)].pTarget = t
  BY DEF Found, FindHookEntry

\* The entries a call is about are there.
LEMMA ScopeEntries ==
    ASSUME NEW c \in Callers, Ready(c)
    PROVE  Scope(c) \subseteq Entries /\ Pending(c) \subseteq Entries
<1>1. Scope(c) \subseteq Entries
  BY FoundEntry DEF Scope, Ready
<1> QED
  BY <1>1 DEF Pending

\* The entry a step of EnableHookLL changes.
LEMMA FirstPending ==
    ASSUME TableTypes, NEW c \in Callers, Ready(c), Pending(c) # {}
    PROVE  Min(Pending(c)) \in Pending(c) /\ Min(Pending(c)) \in Entries
<1>1. Pending(c) \in SUBSET Nat
  BY ScopeEntries DEF Entries, TableTypes
<1> QED
  BY <1>1, MinOfNats, ScopeEntries

-----------------------------------------------------------------------------
(* The steps of a call that change the table. *)

\* A new entry, for a target that has none, in a buffer that was free.
LEMMA CreateTable ==
    ASSUME TableInv, NEW c \in Callers, MH_CreateHook(c)
    PROVE  /\ g_hooks' \in Seq(HookEntries)
           /\ buffers' \in [Slots -> Targets \cup {None}]
           /\ TableConsistent' /\ PatchedIffEnabled'
<1> USE DEF TableInv
<1>1. PICK s \in Slots :
        /\ buffers[s] = None
        /\ buffers' = [buffers EXCEPT ![s] = Target(c)]
        /\ g_hooks' = Append(g_hooks, [pTarget     |-> Target(c),
                                       pTrampoline |-> s,
                                       isEnabled   |-> FALSE,
                                       queueEnable |-> FALSE])
  BY DEF MH_CreateHook
<1> DEFINE n == Len(g_hooks) + 1
           new == [pTarget |-> Target(c), pTrampoline |-> s,
                   isEnabled |-> FALSE, queueEnable |-> FALSE]
<1>2. Target(c) \in Targets /\ ~Found(Target(c)) /\ UNCHANGED patched
  BY DEF MH_CreateHook, InBody, Inside, TableTypes, Calls, Target
<1>3. new \in HookEntries
  BY <1>2 DEF HookEntries
<1>4. g_hooks' \in Seq(HookEntries)
  BY <1>1, <1>3 DEF TableTypes
<1>5. /\ Entries' = Entries \cup {n} /\ n \notin Entries
      /\ g_hooks'[n] = new
      /\ \A i \in Entries : g_hooks'[i] = g_hooks[i]
  BY <1>1 DEF Entries, TableTypes
<1> HIDE DEF n
<1>6. buffers' \in [Slots -> Targets \cup {None}]
  BY <1>1, <1>2 DEF TableTypes
<1>7. None \notin Targets
  BY HookAssumption
<1>8. \A i \in Entries : /\ g_hooks[i].pTarget # Target(c)
                         /\ g_hooks[i].pTrampoline # s
                         /\ g_hooks[i].pTrampoline \in Slots
  BY <1>1, <1>2, <1>7, EntryTypes DEF Found, TableConsistent
<1>9. TableConsistent'
  <2>1. \A i, j \in Entries' : i # j =>
            /\ g_hooks'[i].pTarget # g_hooks'[j].pTarget
            /\ g_hooks'[i].pTrampoline # g_hooks'[j].pTrampoline
    BY <1>5, <1>8 DEF TableConsistent
  <2>2. \A i \in Entries' : buffers'[g_hooks'[i].pTrampoline] = g_hooks'[i].pTarget
    <3>1. buffers'[s] = Target(c)
      BY <1>1 DEF TableTypes
    <3>2. ASSUME NEW i \in Entries
          PROVE  buffers'[g_hooks[i].pTrampoline] = g_hooks[i].pTarget
      <4>1. buffers'[g_hooks[i].pTrampoline] = buffers[g_hooks[i].pTrampoline]
        BY <1>1, <1>8 DEF TableTypes
      <4> QED
        BY <4>1 DEF TableConsistent
    <3> QED
      BY <1>5, <3>1, <3>2
  <2>3. ASSUME NEW x \in Slots, buffers'[x] # None
        PROVE  \E i \in Entries' : g_hooks'[i].pTrampoline = x
    <3>1. CASE x = s
      BY <3>1, <1>5
    <3>2. CASE x # s
      <4>1. buffers[x] # None
        BY <3>2, <2>3, <1>1 DEF TableTypes
      <4>2. PICK i \in Entries : g_hooks[i].pTrampoline = x
        BY <4>1 DEF TableConsistent
      <4> QED
        BY <4>2, <1>5
    <3> QED
      BY <3>1, <3>2
  <2> QED
    BY <2>1, <2>2, <2>3 DEF TableConsistent
<1>10. PatchedIffEnabled'
  BY <1>2, <1>5 DEF PatchedIffEnabled
<1> QED
  BY <1>4, <1>6, <1>9, <1>10

\* A change of the flags of entries keeps whose they are.
LEMMA SameOwners ==
    ASSUME TableInv, g_hooks' \in Seq(HookEntries), Entries' = Entries, UNCHANGED buffers,
           \A i \in Entries : /\ g_hooks'[i].pTarget = g_hooks[i].pTarget
                              /\ g_hooks'[i].pTrampoline = g_hooks[i].pTrampoline
    PROVE  TableConsistent'
  BY DEF TableInv, TableConsistent

LEMMA QueueTable ==
    ASSUME TableInv, NEW c \in Callers, QueueHook(c)
    PROVE  g_hooks' \in Seq(HookEntries) /\ TableConsistent' /\ PatchedIffEnabled'
<1> USE DEF TableInv
<1>1. PICK flag \in BOOLEAN :
        /\ g_hooks' = g_hooks \/ g_hooks' = [i \in Entries |->
                IF i \in Scope(c) THEN [g_hooks[i] EXCEPT !.queueEnable = flag]
                                  ELSE g_hooks[i]]
        /\ UNCHANGED <<buffers, patched>>
  BY DEF QueueHook
<1>2. CASE g_hooks' = g_hooks
  BY <1>1, <1>2 DEF TableTypes, TableConsistent, PatchedIffEnabled, Entries
<1>3. CASE g_hooks' = [i \in Entries |->
                IF i \in Scope(c) THEN [g_hooks[i] EXCEPT !.queueEnable = flag]
                                  ELSE g_hooks[i]]
  <2>1. Entries' = Entries /\ Entries = 1..Len(g_hooks) /\ Len(g_hooks) \in Nat
    BY <1>3 DEF Entries, TableTypes
  <2>2. ASSUME NEW i \in Entries
        PROVE  /\ g_hooks'[i].pTarget = g_hooks[i].pTarget
               /\ g_hooks'[i].pTrampoline = g_hooks[i].pTrampoline
               /\ g_hooks'[i].isEnabled = g_hooks[i].isEnabled
               /\ g_hooks'[i] \in HookEntries
    BY <1>3, EntryTypes DEF HookEntries
  <2>3. g_hooks' \in Seq(HookEntries)
    <3>1. g_hooks' \in [1..Len(g_hooks) -> HookEntries]
      BY <1>3, <2>1, <2>2
    <3> QED
      BY <3>1, <2>1, SeqDef
  <2>4. PatchedIffEnabled'
    BY <1>1, <2>1, <2>2 DEF PatchedIffEnabled
  <2> QED
    BY <1>1, <2>1, <2>2, <2>3, <2>4, SameOwners
<1> QED
  BY <1>1, <1>2, <1>3

\* A patch and its entry change together, or not at all.
LEMMA PatchTable ==
    ASSUME TableInv, NEW c \in Callers, Ready(c), EnableHookLL(c)
    PROVE  /\ g_hooks' \in Seq(HookEntries) /\ patched' \subseteq Targets
           /\ TableConsistent' /\ PatchedIffEnabled'
           /\ Entries' = Entries
           /\ \A i \in Entries : g_hooks'[i].pTarget = g_hooks[i].pTarget
<1> USE DEF TableInv
<1> DEFINE i == Min(Pending(c))
           e == Wanted(c, g_hooks[i])
           t == g_hooks[i].pTarget
<1>1. UNCHANGED buffers
  BY DEF EnableHookLL
<1>2. i \in Entries
  BY FirstPending DEF EnableHookLL
<1>3. CASE UNCHANGED <<patched, g_hooks>>
  BY <1>1, <1>3 DEF TableTypes, TableConsistent, PatchedIffEnabled, Entries
<1>4. CASE /\ patched' = IF e THEN patched \cup {t} ELSE patched \ {t}
           /\ g_hooks' = [g_hooks EXCEPT ![i].isEnabled = e, ![i].queueEnable = e]
  <2>1. e \in BOOLEAN
    BY <1>2, EntryTypes DEF Wanted
  <2>2. t \in Targets
    BY <1>2, EntryTypes
  <2> HIDE DEF i, e, t
  <2>3. Entries' = Entries /\ Entries = 1..Len(g_hooks) /\ Len(g_hooks) \in Nat
    BY <1>4 DEF Entries, TableTypes
  <2>4. ASSUME NEW j \in Entries
        PROVE  /\ g_hooks'[j].pTarget = g_hooks[j].pTarget
               /\ g_hooks'[j].pTrampoline = g_hooks[j].pTrampoline
               /\ g_hooks'[j].isEnabled = (IF j = i THEN e ELSE g_hooks[j].isEnabled)
               /\ g_hooks'[j] \in HookEntries
    BY <1>2, <1>4, <2>1, EntryTypes DEF HookEntries
  <2>5. g_hooks' \in Seq(HookEntries)
    <3>1. g_hooks \in [1..Len(g_hooks) -> HookEntries]
      BY DEF TableTypes
    <3>2. g_hooks' \in [1..Len(g_hooks) -> HookEntries]
      <4>1. g_hooks' = [j \in 1..Len(g_hooks) |-> g_hooks'[j]]
        BY <1>4, <3>1, Zenon
      <4> QED
        BY <4>1, <2>3, <2>4
    <3> QED
      BY <3>2, <2>3, SeqDef
  <2>6. PatchedIffEnabled'
    <3>1. \A j \in Entries : g_hooks[j].pTarget = t <=> j = i
      BY <1>2 DEF TableConsistent, t
    <3>2. CASE e
      BY <1>2, <1>4, <2>3, <2>4, <3>1, <3>2 DEF PatchedIffEnabled
    <3>3. CASE ~e
      BY <1>2, <1>4, <2>3, <2>4, <3>1, <3>3 DEF PatchedIffEnabled
    <3> QED
      BY <3>2, <3>3
  <2> QED
    BY <1>1, <1>4, <2>2, <2>3, <2>4, <2>5, <2>6, SameOwners DEF TableTypes
<1> QED
  BY <1>3, <1>4 DEF EnableHookLL

\* The last entry takes the place of the deleted one, whose hook is disabled
\* and whose buffer is free then.
LEMMA RemoveTable ==
    ASSUME TableInv, NEW c \in Callers, OwnInv(c), RemoveFree(c)
    PROVE  /\ g_hooks' \in Seq(HookEntries)
           /\ buffers' \in [Slots -> Targets \cup {None}]
           /\ TableConsistent' /\ PatchedIffEnabled'
<1> USE DEF TableInv
<1> DEFINE pos == FindHookEntry(Target(c))
           n == Len(g_hooks)
           s == g_hooks[pos].pTrampoline
<1>1. Ready(c) /\ Pending(c) = {} /\ Operation(c) = "Remove"
  BY DEF RemoveFree, OwnInv
<1>2. /\ pos \in Entries /\ n \in Nat /\ Entries = 1..n
      /\ g_hooks[pos].isEnabled = FALSE
  <2>1. Found(Target(c))
    BY <1>1 DEF Ready
  <2>2. pos \in Entries /\ g_hooks[pos].pTarget = Target(c)
    BY <2>1, FoundEntry
  <2>3. Target(c) # AllHooks
    BY <2>2, EntryTypes, HookAssumption
  <2>4. pos \in Scope(c)
    BY <1>1, <2>3 DEF Scope
  <2>5. g_hooks[pos].isEnabled = Wanted(c, g_hooks[pos])
    BY <1>1, <2>4 DEF Pending
  <2>6. Wanted(c, g_hooks[pos]) = FALSE
    BY <1>1 DEF Wanted
  <2> QED
    BY <2>2, <2>5, <2>6 DEF Entries, TableTypes
<1>3. /\ buffers' = [buffers EXCEPT ![s] = None]
      /\ g_hooks' = [i \in 1..(n - 1) |-> IF i = pos THEN g_hooks[n] ELSE g_hooks[i]]
      /\ UNCHANGED patched
  BY DEF RemoveFree, DeleteHookEntry
<1> HIDE DEF pos, n
<1>4. Entries' = 1..(n - 1)
  BY <1>2, <1>3 DEF Entries
\* What is left are the other entries, each once.
<1>5. ASSUME NEW i \in Entries'
      PROVE  \E k \in Entries \ {pos} : /\ g_hooks'[i] = g_hooks[k]
                                        /\ k = IF i = pos THEN n ELSE i
  BY <1>2, <1>3, <1>4
<1>6. ASSUME NEW k \in Entries \ {pos}
      PROVE  \E i \in Entries' : g_hooks'[i] = g_hooks[k]
  <2>1. CASE k = n
    <3>1. pos \in Entries' /\ g_hooks'[pos] = g_hooks[k]
      BY <1>2, <1>3, <1>4, <2>1
    <3> QED
      BY <3>1
  <2>2. CASE k # n
    <3>1. k \in Entries' /\ g_hooks'[k] = g_hooks[k]
      BY <1>2, <1>3, <1>4, <2>2
    <3> QED
      BY <3>1
  <2> QED
    BY <2>1, <2>2
<1>7. g_hooks' \in Seq(HookEntries)
  <2>1. \A i \in 1..(n - 1) : g_hooks'[i] \in HookEntries
    BY <1>4, <1>5, EntryTypes
  <2>2. g_hooks' \in [1..(n - 1) -> HookEntries]
    BY <1>3, <2>1
  <2>3. n - 1 \in Nat
    BY <1>2
  <2> QED
    BY <2>2, <2>3, SeqDef
<1>8. buffers' \in [Slots -> Targets \cup {None}]
  BY <1>3 DEF TableTypes
<1>9. TableConsistent'
  <2>1. ASSUME NEW i \in Entries', NEW j \in Entries', i # j
        PROVE  /\ g_hooks'[i].pTarget # g_hooks'[j].pTarget
               /\ g_hooks'[i].pTrampoline # g_hooks'[j].pTrampoline
    <3>1. PICK k \in Entries \ {pos} :
            g_hooks'[i] = g_hooks[k] /\ k = IF i = pos THEN n ELSE i
      BY <1>5
    <3>2. PICK l \in Entries \ {pos} :
            g_hooks'[j] = g_hooks[l] /\ l = IF j = pos THEN n ELSE j
      BY <1>5
    <3>3. k # l
      BY <2>1, <3>1, <3>2, <1>2, <1>4
    <3> QED
      BY <3>1, <3>2, <3>3 DEF TableConsistent
  <2>2. ASSUME NEW i \in Entries'
        PROVE  buffers'[g_hooks'[i].pTrampoline] = g_hooks'[i].pTarget
    <3>1. PICK k \in Entries \ {pos} : g_hooks'[i] = g_hooks[k]
      BY <1>5
    <3>2. g_hooks[k].pTrampoline # s
      BY <1>2 DEF TableConsistent
    <3>3. g_hooks[k].pTrampoline \in Slots /\ s \in Slots
      BY <1>2, EntryTypes
    <3>4. buffers'[g_hooks[k].pTrampoline] = buffers[g_hooks[k].pTrampoline]
      BY <1>3, <3>2, <3>3 DEF TableTypes
    <3> QED
      BY <3>1, <3>4 DEF TableConsistent
  <2>3. ASSUME NEW x \in Slots, buffers'[x] # None
        PROVE  \E i \in Entries' : g_hooks'[i].pTrampoline = x
    <3>1. x # s /\ buffers[x] # None
      BY <1>3, <2>3 DEF TableTypes
    <3>2. PICK k \in Entries : g_hooks[k].pTrampoline = x
      BY <3>1 DEF TableConsistent
    <3>3. k # pos
      BY <3>1, <3>2
    <3> QED
      BY <1>6, <3>2, <3>3
  <2> QED
    BY <2>1, <2>2, <2>3 DEF TableConsistent
<1>10. PatchedIffEnabled'
  <2>1. \A t : (\E i \in Entries' : g_hooks'[i].isEnabled /\ g_hooks'[i].pTarget = t)
           <=> (\E k \in Entries : g_hooks[k].isEnabled /\ g_hooks[k].pTarget = t)
    BY <1>2, <1>5, <1>6
  <2>2. \A t : t \in patched
           <=> (\E k \in Entries : g_hooks[k].isEnabled /\ g_hooks[k].pTarget = t)
    BY DEF PatchedIffEnabled
  <2>3. \A t : t \in patched'
           <=> (\E i \in Entries' : g_hooks'[i].isEnabled /\ g_hooks'[i].pTarget = t)
    BY <1>3, <2>1, <2>2
  <2> HIDE DEF Entries
  <2> QED
    BY <2>3, Zenon DEF PatchedIffEnabled
<1> QED
  BY <1>7, <1>8, <1>9, <1>10

\* Every hook is disabled when MH_Uninitialize frees the buffers.
LEMMA UninitializeTable ==
    ASSUME TableInv, NEW c \in Callers, OwnInv(c), UninitializeFree(c)
    PROVE  /\ g_hooks' \in Seq(HookEntries)
           /\ buffers' \in [Slots -> Targets \cup {None}]
           /\ TableConsistent' /\ PatchedIffEnabled'
<1>1. /\ g_hooks' = <<>> /\ buffers' = [s \in Slots |-> None]
      /\ UNCHANGED patched
  BY DEF UninitializeFree
<1>2. Entries' = {}
  BY <1>1 DEF Entries
<1>3. \A i \in Entries : g_hooks[i].isEnabled = FALSE
  <2>1. Operation(c) = "Uninitialize" /\ Pending(c) = {}
    BY DEF UninitializeFree, OwnInv
  <2>2. Scope(c) = Entries
    BY <2>1 DEF Scope
  <2>3. \A i \in Entries : Wanted(c, g_hooks[i]) = FALSE
    BY <2>1 DEF Wanted
  <2>4. \A i \in Entries : g_hooks[i].isEnabled = Wanted(c, g_hooks[i])
    BY <2>1, <2>2 DEF Pending
  <2> QED
    BY <2>3, <2>4
<1>4. patched = {}
  BY <1>3 DEF TableInv, PatchedIffEnabled
<1> QED
  BY <1>1, <1>2, <1>4 DEF TableConsistent, PatchedIffEnabled

-----------------------------------------------------------------------------
(* Every step. *)

LEMMA SameTable ==
    ASSUME TableInv, UNCHANGED <<g_hooks, buffers, patched>>
    PROVE  /\ g_hooks' \in Seq(HookEntries)
           /\ buffers' \in [Slots -> Targets \cup {None}]
           /\ patched' \subseteq Targets
           /\ TableConsistent' /\ PatchedIffEnabled'
  BY DEF TableInv, TableTypes, TableConsistent, PatchedIffEnabled, Entries

\* A call keeps its operation and its target until it leaves.
LEMMA WorkTypes ==
    ASSUME LockInv, TableTypes, NEW c \in Callers, Work(c), ~LeaveSpinLock(c)
    PROVE  /\ UNCHANGED op /\ ok' \in [Callers -> BOOLEAN] /\ g_hHeap' \in BOOLEAN
           /\ \A d \in Callers : Inside(d)' => op'[d] \in Calls
<1>1. UNCHANGED op
  BY DEF Work, MH_Initialize, CreateRefused, MH_CreateHook, QueueHook, NotReady,
         NothingPending, EnumerateThreads, Freeze, Frozen, EnableHookLL, Patched,
         Unfreeze, Unfrozen, RemoveFree, UninitializeFree, InBody
<1>2. ok' = ok \/ \E b \in BOOLEAN : ok' = [ok EXCEPT ![c] = b]
  BY DEF Work, MH_Initialize, CreateRefused, MH_CreateHook, QueueHook, NotReady,
         NothingPending, EnumerateThreads, Freeze, Frozen, EnableHookLL, Patched,
         Unfreeze, Unfrozen, RemoveFree, UninitializeFree, Finish
<1>3. g_hHeap' = g_hHeap \/ g_hHeap' = TRUE \/ g_hHeap' = FALSE
  BY DEF Work, MH_Initialize, CreateRefused, MH_CreateHook, QueueHook, NotReady,
         NothingPending, EnumerateThreads, Freeze, Frozen, EnableHookLL, Patched,
         Unfreeze, Unfrozen, RemoveFree, UninitializeFree, table
<1>4. \A d \in Callers : Inside(d)' => Inside(d)
  <2>1. cpc' = cpc \/ \E p : Goto(c, p)
    BY WorkInside
  <2>2. Inside(c)
    BY WorkInside DEF Inside
  <2> QED
    BY <2>1, <2>2 DEF Inside, Goto, LockInv
<1>5. ok' \in [Callers -> BOOLEAN]
  BY <1>2 DEF TableTypes
<1>6. g_hHeap' \in BOOLEAN
  BY <1>3, Zenon DEF TableTypes
<1> QED
  BY <1>1, <1>4, <1>5, <1>6 DEF TableTypes

LEMMA InitTable == Init => TableInv /\ CallInv
<1> SUFFICES ASSUME Init PROVE TableInv /\ CallInv
  OBVIOUS
<1>1. Entries = {}
  BY DEF Init, Entries
<1>2. TableTypes
  <2>1. \A c \in Callers : ~Inside(c)
    BY DEF Init, Inside
  <2>2. g_hooks \in Seq(HookEntries) /\ g_hHeap \in BOOLEAN
    BY EmptySeq DEF Init
  <2>3. op \in [Callers -> Calls \cup {NoCall}] /\ ok \in [Callers -> BOOLEAN]
    BY DEF Init
  <2> QED
    BY <2>1, <2>2, <2>3 DEF Init, TableTypes
<1>3. TableConsistent /\ PatchedIffEnabled
  BY <1>1 DEF Init, TableConsistent, PatchedIffEnabled
<1>4. CallInv
  BY DEF Init, CallInv, OwnInv
<1> QED
  BY <1>2, <1>3, <1>4 DEF TableInv

LEMMA StepTable == LockInv /\ TableInv /\ CallInv /\ [Next]_vars => TableInv'
<1> SUFFICES ASSUME LockInv, TableInv, CallInv, [Next]_vars PROVE TableInv'
  OBVIOUS
<1>a. TableTypes
  BY DEF TableInv
<1>1. ASSUME NEW c \in Callers, Invoke(c) PROVE TableInv'
  <2>1. UNCHANGED <<table, op, ok>> /\ \A d \in Callers : Inside(d)' => Inside(d)
    BY <1>1 DEF Invoke, Inside, Goto, LockInv
  <2> QED
    BY <2>1, <1>a, SameTable DEF TableInv, TableTypes, table
<1>2. ASSUME NEW c \in Callers, EnterSpinLock(c) PROVE TableInv'
  <2>1. PICK o \in Ops : op' = [op EXCEPT ![c] = o]
    BY <1>2 DEF EnterSpinLock
  <2>2. o \in Calls
    BY HookAssumption DEF Calls
  <2>3. /\ UNCHANGED table /\ ok' = [ok EXCEPT ![c] = TRUE]
        /\ \A d \in Callers : Inside(d)' => d = c \/ Inside(d)
    BY <1>2 DEF EnterSpinLock, Inside, Goto, LockInv
  <2>4. /\ op' \in [Callers -> Calls \cup {NoCall}] /\ ok' \in [Callers -> BOOLEAN]
        /\ \A d \in Callers : Inside(d)' => op'[d] \in Calls
    BY <2>1, <2>2, <2>3, <1>a DEF TableTypes
  <2> QED
    BY <2>3, <2>4, <1>a, SameTable DEF TableInv, TableTypes, table
<1>3. ASSUME NEW c \in Callers, LeaveSpinLock(c) PROVE TableInv'
  <2>1. /\ UNCHANGED table /\ ok' = [ok EXCEPT ![c] = TRUE]
        /\ op' = [op EXCEPT ![c] = NoCall]
        /\ \A d \in Callers : Inside(d)' => d # c /\ Inside(d)
    BY <1>3 DEF LeaveSpinLock, Inside, Goto, LockInv
  <2>2. /\ op' \in [Callers -> Calls \cup {NoCall}] /\ ok' \in [Callers -> BOOLEAN]
        /\ \A d \in Callers : Inside(d)' => op'[d] \in Calls
    BY <2>1, <1>a DEF TableTypes
  <2> QED
    BY <2>1, <2>2, <1>a, SameTable DEF TableInv, TableTypes, table
<1>4. ASSUME NEW c \in Callers, Work(c), ~LeaveSpinLock(c) PROVE TableInv'
  <2>1. OwnInv(c)
    BY DEF CallInv
  <2>2. /\ g_hooks' \in Seq(HookEntries)
        /\ buffers' \in [Slots -> Targets \cup {None}]
        /\ patched' \subseteq Targets
        /\ TableConsistent' /\ PatchedIffEnabled'
    <3>1. CASE \/ MH_Initialize(c) \/ CreateRefused(c) \/ NotReady(c)
               \/ NothingPending(c) \/ EnumerateThreads(c) \/ Freeze(c)
               \/ Frozen(c) \/ Patched(c) \/ Unfreeze(c) \/ Unfrozen(c)
      <4>1. UNCHANGED <<g_hooks, buffers, patched>>
        BY <3>1 DEF MH_Initialize, CreateRefused, NotReady, NothingPending,
                    EnumerateThreads, Freeze, Frozen, Patched, Unfreeze,
                    Unfrozen, table
      <4> QED
        BY <4>1, SameTable
    <3>2. CASE MH_CreateHook(c)
      BY <3>2, <1>a, CreateTable DEF MH_CreateHook, TableTypes
    <3>3. CASE QueueHook(c)
      <4>1. UNCHANGED <<buffers, patched>>
        BY <3>3 DEF QueueHook
      <4> QED
        BY <4>1, <3>3, <1>a, QueueTable DEF TableTypes
    <3>4. CASE EnableHookLL(c)
      <4>1. Ready(c) /\ UNCHANGED buffers
        BY <3>4, <2>1 DEF EnableHookLL, OwnInv
      <4> QED
        BY <4>1, <3>4, <1>a, PatchTable DEF TableTypes
    <3>5. CASE RemoveFree(c)
      BY <3>5, <2>1, <1>a, RemoveTable DEF RemoveFree, TableTypes
    <3>6. CASE UninitializeFree(c)
      BY <3>6, <2>1, <1>a, UninitializeTable DEF UninitializeFree, TableTypes
    <3> QED
      BY <1>4, <3>1, <3>2, <3>3, <3>4, <3>5, <3>6 DEF Work
  <2>3. TableTypes'
    BY <2>2, <1>4, <1>a, WorkTypes DEF TableTypes
  <2> QED
    BY <2>2, <2>3 DEF TableInv
<1>5. ASSUME NEW g \in GameThreads, GameStep(g) PROVE TableInv'
  <2>1. UNCHANGED <<table, local>>
    BY <1>5, GameOutside
  <2> QED
    BY <2>1, <1>a, SameTable DEF TableInv, TableTypes, table, local, Inside
<1>6. CASE UNCHANGED vars
  BY <1>6, <1>a, SameTable DEF TableInv, TableTypes, vars, table, local, Inside
<1> QED
  BY <1>1, <1>2, <1>3, <1>4, <1>5, <1>6 DEF Next

\* Nobody else is inside, so nobody else knows anything of the table.
LEMMA OthersOutside ==
    ASSUME LockInv, NEW c \in Callers, Inside(c), NEW d \in Callers, d # c,
           cpc'[d] = cpc[d]
    PROVE  OwnInv(d)'
<1>1. cpc'[d] \in {"idle", "spin"}
  BY DEF LockInv, MutualExclusion, Inside
<1> QED
  BY <1>1 DEF OwnInv

\* What a call wants is a function of the table and of the call.
LEMMA SameView ==
    ASSUME UNCHANGED <<g_hHeap, g_hooks, op>>, NEW c
    PROVE  /\ Operation(c)' = Operation(c) /\ Pending(c)' = Pending(c)
           /\ Ready(c)' <=> Ready(c)
<1>1. Operation(c)' = Operation(c) /\ Target(c)' = Target(c)
  BY DEF Operation, Target
<1>2. Entries' = Entries /\ \A t : Found(t)' <=> Found(t)
  BY DEF Entries, Found
<1>3. \A t : FindHookEntry(t)' = FindHookEntry(t)
  BY <1>2 DEF FindHookEntry
<1>4. Scope(c)' = Scope(c)
  BY <1>1, <1>2, <1>3 DEF Scope
<1>5. \A h : Wanted(c, h)' = Wanted(c, h)
  BY <1>1 DEF Wanted
<1>6. Pending(c)' = Pending(c)
  BY <1>4, <1>5 DEF Pending
<1> QED
  BY <1>1, <1>2, <1>6 DEF Ready

LEMMA StepCall == LockInv /\ TableInv /\ CallInv /\ [Next]_vars => CallInv'
<1> SUFFICES ASSUME LockInv, TableInv, CallInv, [Next]_vars PROVE CallInv'
  OBVIOUS
<1>a. cpc \in [Callers -> Points] /\ ok \in [Callers -> BOOLEAN]
  BY DEF LockInv, TableInv, TableTypes
<1>1. ASSUME NEW c \in Callers, Invoke(c) PROVE CallInv'
  <2>1. ASSUME NEW d \in Callers PROVE OwnInv(d)'
    <3>1. UNCHANGED <<g_hHeap, g_hooks, op, ok>> /\ (cpc'[d] = cpc[d] \/ cpc'[d] = "spin")
      BY <1>1, <1>a DEF Invoke, Goto, table
    <3> QED
      BY <3>1, SameView DEF CallInv, OwnInv
  <2> QED
    BY <2>1 DEF CallInv
<1>2. ASSUME NEW c \in Callers, EnterSpinLock(c) PROVE CallInv'
  <2>1. ASSUME NEW d \in Callers PROVE OwnInv(d)'
    <3>1. cpc'[d] \in {"idle", "spin", "body"}
      BY <1>2, <1>a DEF EnterSpinLock, Goto, LockInv, MutualExclusion, Inside
    <3> QED
      BY <3>1 DEF OwnInv
  <2> QED
    BY <2>1 DEF CallInv
<1>3. ASSUME NEW c \in Callers, Work(c) PROVE CallInv'
  <2>1. Inside(c) /\ \A d \in Callers : d # c => cpc'[d] = cpc[d]
    <3>1. CASE LeaveSpinLock(c)
      BY <3>1, <1>a DEF LeaveSpinLock, Goto, Inside
    <3>2. CASE ~LeaveSpinLock(c)
      BY <3>2, <1>3, <1>a, WorkInside DEF Goto, Inside
    <3> QED
      BY <3>1, <3>2
  <2>2. OwnInv(c)
    BY DEF CallInv
  <2>3. OwnInv(c)'
    <3>1. CASE LeaveSpinLock(c)
      BY <3>1, <1>a DEF LeaveSpinLock, Goto, OwnInv
    <3>2. CASE MH_Initialize(c) \/ CreateRefused(c) \/ MH_CreateHook(c) \/ QueueHook(c)
      <4>1. /\ UNCHANGED op /\ cpc'[c] = "leave"
            /\ Operation(c) \in {"Initialize", "Create", "QueueEnable", "QueueDisable"}
        BY <3>2, <1>a DEF MH_Initialize, CreateRefused, MH_CreateHook, QueueHook,
                          InBody, Finish, Goto
      <4> QED
        BY <4>1 DEF OwnInv, Operation
    <3>3. CASE NotReady(c)
      BY <3>3, <1>a DEF NotReady, Finish, Goto, OwnInv
    <3>4. CASE NothingPending(c)
      <4>1. /\ UNCHANGED <<g_hHeap, g_hooks, op>> /\ Ready(c) /\ Pending(c) = {}
            /\ cpc'[c] = IF Operation(c) \in {"Remove", "Uninitialize"} THEN "free"
                                                                       ELSE "leave"
        BY <3>4, <1>a DEF NothingPending, InBody, Goto, table
      <4> QED
        BY <4>1, SameView DEF OwnInv
    <3>5. CASE EnumerateThreads(c)
      <4>1. /\ UNCHANGED <<g_hHeap, g_hooks, op>> /\ Ready(c)
            /\ cpc'[c] = "freeze" /\ Operation(c) \in Patching
        BY <3>5, <1>a DEF EnumerateThreads, InBody, Goto, table
      <4> QED
        BY <4>1, SameView DEF OwnInv
    <3>6. CASE Freeze(c) \/ Unfreeze(c)
      <4>1. UNCHANGED <<g_hHeap, g_hooks, op, ok, cpc>>
        BY <3>6 DEF Freeze, Unfreeze, table
      <4> QED
        BY <4>1, <2>2, SameView DEF OwnInv
    <3>7. CASE Frozen(c)
      <4>1. /\ UNCHANGED <<g_hHeap, g_hooks, op>>
            /\ cpc[c] = "freeze" /\ cpc'[c] = "patch"
        BY <3>7, <1>a DEF Frozen, Goto, table
      <4> QED
        BY <4>1, <2>2, SameView DEF OwnInv
    <3>8. CASE Patched(c)
      <4>1. /\ UNCHANGED <<g_hHeap, g_hooks, op>> /\ Pending(c) = {}
            /\ cpc[c] = "patch" /\ cpc'[c] = "unfreeze"
        BY <3>8, <1>a DEF Patched, Goto, table
      <4> QED
        BY <4>1, <2>2, SameView DEF OwnInv
    <3>9. CASE Unfrozen(c)
      <4>1. /\ UNCHANGED <<g_hHeap, g_hooks, op, ok>> /\ cpc[c] = "unfreeze"
            /\ cpc'[c] = IF ok[c] /\ Operation(c) \in {"Remove", "Uninitialize"}
                           THEN "free" ELSE "leave"
        BY <3>9, <1>a DEF Unfrozen, Goto, table
      <4>2. CASE cpc'[c] = "free"
        BY <4>1, <4>2, <2>2, SameView DEF OwnInv
      <4>3. CASE cpc'[c] = "leave"
        BY <4>1, <4>3, <2>2, SameView DEF OwnInv
      <4> QED
        BY <4>1, <4>2, <4>3
    <3>10. CASE RemoveFree(c) \/ UninitializeFree(c)
      <4>1. /\ UNCHANGED op /\ cpc'[c] = "leave"
            /\ Operation(c) \in {"Remove", "Uninitialize"}
        BY <3>10, <1>a DEF RemoveFree, UninitializeFree, Goto
      <4> QED
        BY <4>1 DEF OwnInv, Operation
    <3>11. CASE EnableHookLL(c)
      <4>1. UNCHANGED <<g_hHeap, op>> /\ cpc[c] = "patch" /\ Ready(c)
        BY <3>11, <2>2 DEF EnableHookLL, OwnInv
      <4>2. Ready(c)' /\ Operation(c)' = Operation(c)
        <5>1. \A t : Found(t) => Found(t)'
          BY <3>11, <4>1, PatchTable DEF Found
        <5>2. Operation(c)' = Operation(c) /\ Target(c)' = Target(c)
          BY <4>1 DEF Operation, Target
        <5> QED
          BY <4>1, <5>1, <5>2 DEF Ready
      <4>3. \/ cpc'[c] = "patch"
            \/ cpc'[c] = "unfreeze" /\ ok'[c] = FALSE
        BY <3>11, <4>1, <1>a DEF EnableHookLL, Goto
      <4> QED
        BY <4>1, <4>2, <4>3, <2>2 DEF OwnInv
    <3> QED
      BY <1>3, <3>1, <3>2, <3>3, <3>4, <3>5, <3>6, <3>7, <3>8, <3>9, <3>10, <3>11
         DEF Work
  <2> QED
    BY <2>1, <2>3, OthersOutside DEF CallInv
<1>4. CASE UNCHANGED <<table, local>>
  <2>1. UNCHANGED <<g_hHeap, g_hooks, op, ok, cpc>>
    BY <1>4 DEF table, local
  <2> QED
    BY <2>1, SameView DEF CallInv, OwnInv
<1>5. ASSUME NEW g \in GameThreads, GameStep(g) PROVE CallInv'
  BY <1>4, <1>5, GameOutside
<1>6. CASE UNCHANGED vars
  BY <1>4, <1>6 DEF vars
<1> QED
  BY <1>1, <1>2, <1>3, <1>5, <1>6 DEF Next

-----------------------------------------------------------------------------

\* The table, for any number of callers and any calls they make.
THEOREM TableInvariance == Spec => [](TableInv /\ CallInv)
<1>1. Init => LockInv /\ TableInv /\ CallInv
  BY InitLock, InitTable
<1>2. LockInv /\ TableInv /\ CallInv /\ [Next]_vars => LockInv' /\ TableInv' /\ CallInv'
  BY StepLock, StepTable, StepCall
<1> QED
  BY <1>1, <1>2, PTL DEF Spec

\* No target has two entries, no trampoline two owners, and a buffer is in use
\* exactly while an entry has it.
THEOREM TableStaysConsistent == Spec => []TableConsistent
<1>1. TableInv => TableConsistent
  BY DEF TableInv
<1> QED
  BY <1>1, TableInvariance, PTL

\* The prologues that hold a jump are those of the enabled entries, also when
\* VirtualProtect failed in the middle of a call.
THEOREM PatchesHaveEntries == Spec => []PatchedIffEnabled
<1>1. TableInv => PatchedIffEnabled
  BY DEF TableInv
<1> QED
  BY <1>1, TableInvariance, PTL

\* A call that reports success has changed every hook it is about.
THEOREM SuccessMeansAll == Spec => []SuccessIsComplete
<1>1. CallInv => SuccessIsComplete
  BY DEF CallInv, OwnInv, SuccessIsComplete
<1> QED
  BY <1>1, TableInvariance, PTL

-----------------------------------------------------------------------------
(* Where the threads of the game can be. *)

GameTypes ==
    /\ orig \in [Targets -> Slots \cup {None}]
    /\ ip \in [GameThreads -> Addresses]
    /\ fn \in [GameThreads -> Targets]
    /\ viaDetour \in [GameThreads -> BOOLEAN]

\* At makes an address of its parts, and an address has the parts of its kind.
LEMMA Made ==
    /\ Out \in Addresses /\ Crashed \in Addresses
    /\ \A t \in Targets, i \in 0..N : At("target", t, i) \in Addresses
    /\ \A s \in Slots, i \in 0..N : At("trampoline", s, i) \in Addresses
    /\ \A t \in Targets, k \in {"above", "detour", "returned"} : At(k, t, 0) \in Addresses
  BY DEF Addresses, At

LEMMA Parts ==
    ASSUME NEW a \in Addresses
    PROVE  /\ a.kind = "target" => a.where \in Targets /\ a.i \in 0..N
           /\ a.kind = "trampoline" => a.where \in Slots /\ a.i \in 0..N
           /\ a.kind \in {"above", "detour", "returned"} => a.where \in Targets
  BY DEF Addresses, Out, Crashed, At

\* A suspended thread is moved from an address to an address.
LEMMA Moved ==
    ASSUME TableTypes, NEW c \in Callers, Ready(c), NEW a \in Addresses
    PROVE  ProcessThreadIPs(c, a) \in Addresses
<1> DEFINE moved(hook) == IF FreezeAction(c, hook) THEN FindNewIP(hook, a)
                                                   ELSE FindOldIP(hook, a)
           moves == {i \in Scope(c) :
                       /\ g_hooks[i].isEnabled # FreezeAction(c, g_hooks[i])
                       /\ moved(g_hooks[i]) # NoIP}
<1>1. ASSUME NEW i \in Entries PROVE moved(g_hooks[i]) \in Addresses
  <2>1. g_hooks[i].pTarget \in Targets /\ g_hooks[i].pTrampoline \in Slots
    BY EntryTypes
  <2>2. FindNewIP(g_hooks[i], a) \in Addresses
    BY <2>1, Made, Parts DEF FindNewIP, NoIP
  <2>3. FindOldIP(g_hooks[i], a) \in Addresses
    <3>1. 0 \in 0..N
      BY HookAssumption
    <3> QED
      BY <2>1, <3>1, Made, Parts DEF FindOldIP, NoIP
  <2> QED
    BY <2>2, <2>3
<1>2. moves \subseteq Entries /\ moves \in SUBSET Nat
  <2>1. Entries \subseteq Nat
    BY DEF Entries, TableTypes
  <2> QED
    BY <2>1, ScopeEntries
<1>3. moves # {} => Min(moves) \in Entries
  BY <1>2, MinOfNats
<1>4. ProcessThreadIPs(c, a) = IF moves = {} THEN a ELSE moved(g_hooks[Min(moves)])
  BY DEF ProcessThreadIPs
<1> HIDE DEF moves, moved
<1> QED
  BY <1>1, <1>3, <1>4

LEMMA InitGame == Init => GameTypes
  BY Made, HookAssumption DEF Init, GameTypes

LEMMA StepGame == TableTypes /\ CallInv /\ GameTypes /\ [Next]_vars => GameTypes'
<1> SUFFICES ASSUME TableTypes, CallInv, GameTypes, [Next]_vars PROVE GameTypes'
  OBVIOUS
<1> USE DEF GameTypes
<1>1. ASSUME NEW c \in Callers, Invoke(c) \/ EnterSpinLock(c) PROVE GameTypes'
  BY <1>1 DEF Invoke, EnterSpinLock, table, game
<1>2. ASSUME NEW c \in Callers, Freeze(c) PROVE GameTypes'
  <2>1. Ready(c) /\ UNCHANGED <<orig, fn, viaDetour>>
    BY <1>2 DEF Freeze, table, CallInv, OwnInv
  <2>2. PICK x \in todo[c] :
          \/ ip' = IF x \in GameThreads THEN [ip EXCEPT ![x] = ProcessThreadIPs(c, @)] ELSE ip
          \/ ip' = ip
    BY <1>2 DEF Freeze, MoveThread
  <2>3. x \in GameThreads => ProcessThreadIPs(c, ip[x]) \in Addresses
    BY <2>1, Moved
  <2> QED
    BY <2>1, <2>2, <2>3
<1>3. ASSUME NEW c \in Callers, MH_CreateHook(c) PROVE GameTypes'
  <2>1. PICK s \in Slots : orig' = [orig EXCEPT ![Target(c)] = s]
    BY <1>3 DEF MH_CreateHook
  <2>2. UNCHANGED game
    BY <1>3 DEF MH_CreateHook, InBody
  <2> QED
    BY <2>1, <2>2 DEF game
<1>4. ASSUME NEW c \in Callers, Work(c), ~Freeze(c), ~MH_CreateHook(c) PROVE GameTypes'
  <2>1. UNCHANGED <<orig, game>>
    BY <1>4 DEF Work, MH_Initialize, CreateRefused, QueueHook, NotReady,
                NothingPending, EnumerateThreads, Frozen, EnableHookLL, Patched,
                Unfreeze, Unfrozen, RemoveFree, UninitializeFree, LeaveSpinLock,
                InBody, table, game
  <2> QED
    BY <2>1 DEF game
<1>5. ASSUME NEW g \in GameThreads, GameStep(g) PROVE GameTypes'
  <2>1. UNCHANGED orig
    BY <1>5, GameOutside DEF table
  <2>2. 0 \in 0..N /\ N \in 0..N
    BY HookAssumption
  <2>3. ip[g] \in Addresses
    OBVIOUS
  <2>4. ASSUME NEW a \in Addresses, Jump(g, a), UNCHANGED <<fn, viaDetour>> PROVE GameTypes'
    BY <2>1, <2>4 DEF Jump
  <2>5. ASSUME NEW t \in Targets, CallTarget(g, t) PROVE GameTypes'
    BY <2>1, <2>2, <2>5, Made DEF CallTarget, Jump
  <2>6. CASE ExecuteTarget(g)
    <3>1. ip[g].where \in Targets /\ ip[g].i \in 0..N
      BY <2>3, <2>6, Parts DEF ExecuteTarget
    <3>2. ip[g].i < N => ip[g].i + 1 \in 0..N
      BY <3>1, HookAssumption
    <3>3. /\ UNCHANGED <<fn, viaDetour>>
          /\ \/ \E k \in {"above", "detour"} : Jump(g, At(k, ip[g].where, 0))
             \/ Jump(g, Crashed) \/ Jump(g, Out)
             \/ ip[g].i < N /\ Jump(g, At("target", ip[g].where, ip[g].i + 1))
             \/ Jump(g, At("returned", fn[g], 0))
      BY <2>6 DEF ExecuteTarget
    <3> QED
      BY <2>4, <3>1, <3>2, <3>3, Made
  <2>7. CASE ExecuteAbove(g)
    <3>1. ip[g].where \in Targets
      BY <2>3, <2>7, Parts DEF ExecuteAbove
    <3>2. /\ UNCHANGED <<fn, viaDetour>>
          /\ \/ Jump(g, At("detour", ip[g].where, 0)) \/ Jump(g, Crashed)
             \/ Jump(g, At("target", ip[g].where, 0))
      BY <2>7 DEF ExecuteAbove
    <3> QED
      BY <2>2, <2>4, <3>1, <3>2, Made
  <2>8. CASE ExecuteDetour(g)
    <3>1. orig[fn[g]] \in Slots \cup {None}
      OBVIOUS
    <3>2. \E a \in Addresses : Jump(g, a)
      <4>1. CASE orig[fn[g]] = None
        BY <4>1, <2>8, Made DEF ExecuteDetour
      <4>2. CASE orig[fn[g]] # None
        BY <4>2, <2>8, <2>2, <3>1, Made DEF ExecuteDetour
      <4> QED
        BY <4>1, <4>2
    <3>3. viaDetour' = [viaDetour EXCEPT ![g] = TRUE] /\ UNCHANGED fn
      BY <2>8 DEF ExecuteDetour
    <3> QED
      BY <2>1, <3>2, <3>3 DEF Jump
  <2>9. CASE ExecuteTrampoline(g)
    <3>1. ip[g].where \in Slots /\ ip[g].i \in 0..N
      BY <2>3, <2>9, Parts DEF ExecuteTrampoline
    <3>2. ip[g].i < N => ip[g].i + 1 \in 0..N
      BY <3>1, HookAssumption
    <3>3. buffers[ip[g].where] # None => buffers[ip[g].where] \in Targets
      BY <3>1 DEF TableTypes
    <3>4. /\ UNCHANGED <<fn, viaDetour>>
          /\ \/ Jump(g, Crashed)
             \/ ip[g].i < N /\ Jump(g, At("trampoline", ip[g].where, ip[g].i + 1))
             \/ /\ buffers[ip[g].where] # None
                /\ Jump(g, At("target", buffers[ip[g].where], N))
      BY <2>9 DEF ExecuteTrampoline
    <3> QED
      BY <2>2, <2>4, <3>1, <3>2, <3>3, <3>4, Made
  <2>10. CASE DetourReturns(g)
    <3>1. Jump(g, Out) /\ UNCHANGED <<fn, viaDetour>>
      BY <2>10 DEF DetourReturns
    <3> QED
      BY <2>4, <3>1, Made
  <2> QED
    BY <1>5, <2>5, <2>6, <2>7, <2>8, <2>9, <2>10 DEF GameStep
<1>6. CASE UNCHANGED vars
  BY <1>6 DEF vars, table, game
<1> QED
  BY <1>1, <1>2, <1>3, <1>4, <1>5, <1>6 DEF Next, Work

\* Every variable of MinHook has its type: whatever Windows refuses, no suspend
\* count passes its bound or falls below 0, and no thread is ever moved to what is
\* not an instruction of a target, a trampoline or a detour.
THEOREM HookTypes == Spec => []TypeOK
<1>1. Init => GameTypes
  BY InitGame
<1>2. TableInv /\ CallInv /\ GameTypes /\ [Next]_vars => GameTypes'
  BY StepGame DEF TableInv
<1>3. LockInv /\ SuspendedInv /\ TableInv /\ CallInv /\ GameTypes => TypeOK
  BY DEF LockInv, SuspendedInv, TableInv, TableTypes, GameTypes, Calls, TypeOK
<1> QED
  BY <1>1, <1>2, <1>3, LockAndThreads, TableInvariance, PTL DEF Spec

=============================================================================
