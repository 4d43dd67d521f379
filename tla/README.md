# Verification of the overlay menu

TLA+ models of the Direct3D 9 overlay in `src/ImGui-Internal-Base`, model-checked with TLC;
the safety properties are also proved with TLAPS for all values of the constants. The program is a Windows DLL for x86. It is loaded into a game, hooks two
functions of the game's Direct3D device with MinHook, and draws an ImGui menu
into the game's frames. Before its tools are shown it asks a list on the
network whether this computer is activated. Paths below are relative to
`src/ImGui-Internal-Base`.

## Inventory

| Component | State | Operations | Hard part |
|---|---|---|---|
| Activation forms, `main.cpp` | four form flags, `show_overlay`, static futures, `clickCounter` | `Menu::Render`, `Form4`, `Form3`, `Form1` | the render thread reads what three validator threads write |
| Authenticator, `authenticator.h` | atomics `isHWIDValid`, `isHWIDValidationCompleted`; plain `isHWIDValidated` | `IsHWIDValid`, `DownloadContentFromUrl`, `GetComputerSid` | unlocked cache, failing network |
| Request message, `Contact.h` | none | `SendLoginRequest` | throws into a `noexcept` function |
| Hook table, `minhook/hook.c` | spin lock, heap, array of entries, prologues, suspended threads | the `MH_` functions | patches code that other threads execute |
| Trampoline buffers, `minhook/buffer.c` | blocks, free lists, used counts | `AllocateBuffer`, `FreeBuffer`, `UninitializeBuffer` | release of a block in the right moment |
| Trampoline builder, `minhook/trampoline.c` | positions, destinations | `CreateTrampolineFunction` | instructions whose length changes |
| Life of the overlay, `dllmain.cpp`, `hooks/hooks.cpp`, `main.cpp` | hooks, `setup`, `org_wndproc` | `injection_thread`, `Menu::Core`, `hooks::Setup`, `SetupMenu`, `WNDProc`, `EndScene`, `Reset` | any step may fail, frames go on meanwhile |
| Direct3D back end, `imgui/imgui_impl_dx9.cpp` | font texture, two buffers, their sizes, state block | `NewFrame`, `RenderDrawData`, `InvalidateDeviceObjects`, `CreateDeviceObjects` | lost devices, allocation failures |
| Win32 back end, `imgui/imgui_impl_win32.cpp` | buttons believed down, the capture | `ImGui_ImplWin32_WndProcHandler` | messages that never come |
| Game patches, `Scan.h`, `mem.h` | addresses, bytes of the game | `ScriptCaving`, `BooleanFunct`, `WriteBytes` | signatures missing, bytes to restore |
| Signature scan, `AutoScript.h` | none | `SigScan`, `script` | unsigned arithmetic |
| Tools and hotkeys, `main.cpp`, `elements.cpp` | flags, last states of keys | `Form2`, `elements::tab` | toggles by two ways, keys polled in one tab only |
| Notifications, `main.cpp`, `Notification.h` | list with deadlines | `ShowNotification`, `RenderNotifications` | erasure while iterating |
| Anti-cheat check, `AntiCheat.h` | one thread | `Check` | ends the process at any time |
| Thread monitor, `Function.h`, `dllmain.cpp` | suspended threads | `TerminateSmallOffsetThreadsS`, `SuspendNtdllThreadsSkipTrainer` | stops threads that hold a lock |

ImGui, libcurl, the length disassembler and the embedded data are third-party
or data; `PROJECT.json` lists them with the reason they are left out.

How they interact. `injection_thread` creates a throw-away device to find the two
functions in its virtual table, hooks them and then polls a key.
From then on everything happens in the game's calls: the detour of `EndScene`
sets the menu up once, replaces the window procedure and draws one frame of the
menu; the detour of `Reset` releases what the back end holds, resets and creates it
again. The forms start validator threads and read their atomics. `hook.c` calls
`buffer.c` and `trampoline.c` with its lock held, so these are sequential; the
threads of the game run through the patched functions with no lock at all.

What makes each part correct: a user is admitted only after a stored positive
answer and is never refused afterwards, and the game is patched once; a thread
of the game never notices that a function is hooked or unhooked; table, buffers
and prologues agree after any sequence of calls, failing ones included; a
trampoline's jumps lead where the function's led; the overlay does not stand in
the way of the game's Reset and never draws with what it released; a switch
that is off leaves in the game what the game had there, a key toggles once per
press, and a mouse button never stays down for the menu alone.

## Modules

`Menu` — the activation forms, their validators, the end of the process. One
action per early return or branch of a form; the render thread's program counter `rpc` names
the form to be drawn next, a validator's `vpc` the statement of `IsHWIDValid`,
`ValidateHWID` or `ValidateHWIDPeriodically` it is at. Every access to a shared variable is
a step of its own, except that a condition that reads the completion flag and
then the answer is one step: the first is never cleared, so the second read
decides. `download` covers the time from the read of the cache to its write.
The future of each form is a function-local static, so a form launches once.

`Activation` — what the user may rely on: checking, request, welcome, tools;
`Menu!ImplementsActivation` is the refinement. `Stage` maps the four flags to a
screen.

`MinHook` — `hook.c`. Callers take the spin lock, run one `MH_` function in the
steps of its body and leave. Suspending, moving and resuming a thread and
patching one function are single steps. Threads of the game call hooked
functions; `ip` is a point in a target's prologue, in a trampoline, at the long
jump above a target, or in a detour. A target in `PatchAbove` is too short for a
five-byte jump and is patched with two bytes and a long jump above it; its first
instruction is taken to be two bytes or more, so the patch buries none of its
instruction boundaries. An instruction that runs in the middle of a patch, or in
a freed trampoline, crashes its thread. `ProtectFails` says when
`VirtualProtect` may fail.

`Freeze` and `Unfreeze` ignore what Windows refuses them, and `ThreadFails` says
for which threads it may refuse what (`ThreadCalls`): the snapshot may miss a thread
(`hook.c:263`); it may not be opened (`hook.c:319`) and then stays in the list,
neither suspended nor moved; `SuspendThread` or the two calls that read
and write its context may fail (`hook.c:213`, `hook.c:257`, `hook.c:322`); and
`Unfreeze` may be unable to open it again (`hook.c:338`), which leaves it suspended when
the call ends, and suspended once more by the next call. `ResumeThread` is called for
every thread of the list that can be opened, suspended or not. `SuspendThread` fails at
Windows' `MAXIMUM_SUSPEND_COUNT`, here `MaxSuspendCount`. The context of a thread
that could not be suspended is read and written in one instant.

`HookedCall` — the abstract specification of what a thread sees: it executes the
instructions of the function it called once each and in order, wherever
they are, and may be stopped and resumed in between.

`Buffer` — `buffer.c`, each call a step: addresses are numbers, a block is a
region with its list of free slots and its used count. The module also keeps which slots
are handed out: `hook.c` frees a slot once, in `MH_RemoveHook` or when
`MH_CreateHook` fails.

`Trampoline` — one turn of the loop of `CreateTrampolineFunction` per step. The
instruction at the next position is chosen among lengths, kinds and
destinations; the displacement of a copied short jump is what it was, which is where it can
go wrong. An undecodable instruction may come at any position.

`Overlay` — three actors on one machine: the injection thread (`ipc`, each step
of which may throw and end in the polling loop), the thread that renders (`rpc`,
points of the two detours and the back end), and messages to the window. Direct3D may lose its device
and fail a creation or a lock at any time; `Reset` succeeds only when nothing in
the default pool is left. `textures` counts the live font textures, `g_FontTexture` and
`texID` say whether the two pointers to it are set. What the frame shows is `Menu`'s matter; here
`Render` draws or not, and CLOSE may be pressed in any frame.

`Tools` — `Form2`, from the frame in which the user is let in: `ScriptCaving`
first, then frames. One `Frame` is what happens between two `EndScene`s in the form, in
the code's order: the clicked widget, and in the tab MAIN `BooleanFunct` with
the flags the last frame left, `RenderNotifications`, the check boxes, the
hotkeys, the chord and the periodic writes of the auto pilot. The user's keys
and buttons, the clock, the thread of ANTI ASO and the game's own writes come
between frames. What kind of user and game it is, is the variable `scenario`,
chosen at the start, so that one run asks about each in its own small state
space. It extends and composes four modules:

* `SigScan` — the search, with `size - patternLength` modulo `DWORDSize`. A
  read behind the image is a fault. `IsResult` is the reference definition.
* `Patches` — the bytes of the module and the cells at fixed addresses,
  `ScriptCaving` one search and its write per step, `BooleanFunct` as a function of the
  flags. The signatures and the bytes written are the code's own, since the
  property compares them: what a box leaves behind when it is off must be what
  its signature begins with. The displacement in a jump of `script` and the
  game's own data are one value, `Game`.
* `Input` — the messages of the mouse buttons, the capture, the mouse inside
  and outside of the window.
* `Notifications` — the list and the loop that erases while it walks.

`Menu` and `Overlay` share `show_overlay` and the first call of `Render`, and
`Overlay`'s hooks are `MinHook`'s enabled entries; they are not composed in
one state space, because neither reads more of the other than that.
`MinHook!buffers` is the abstraction of `Buffer` in which allocation takes any
free slot, and its `N` moved instructions are a trampoline of `Trampoline`.

## Runs

| Run | Shows | Bounds |
|---|---|---|
| `menu` | type, three safety and two action properties, refinement of `Activation`, two liveness properties | 2 clicks as in the code and one more, which a message box that fails allows; the three validators of the code; the list edited at any time |
| `minhook_library` | table, buffers, flags and prologues agree for every sequence of all functions; a call that reports success changed all it should; one caller at a time; suspensions accounted for and ended; the lock is given back | three callers: Windows may refuse any call for the third, all but the second opening for another, none for the first; a suspend count up to 2, so that a thread left suspended is suspended again and comes to the limit of 127; two targets, one patched above; two buffers; `VirtualProtect` may fail each time |
| `minhook_together` | a thread runs through the functions unharmed while hooks are switched all together, as `hooks.cpp` does, or singly except for disabling one patched above: refinement of `HookedCall` | three moved instructions, two targets; `VirtualProtect` may fail at each prologue that is to be patched, and `Unfreeze` may leave the thread suspended, for a later call to find it so |
| `minhook_disable_one` | violation: see Findings | one target patched above |
| `minhook_protect_failure` | violation: see Findings | one target |
| `tools` | searches end where they should; places of the game follow the boxes and the auto pilot; keys toggle once per press; releases are seen and the capture ends; notifications are drawn until their time; a listed value does not stay | 25 scenarios, see below |
| `buffer` | accounts of blocks and slots, buffers apart | three regions of three slots: a list of blocks with a first, middle and last |
| `trampoline` | copied jumps land on copies, the last instruction leaves behind the patch | all instruction lengths up to 4 and those of jumps; a buffer of 16 bytes and a table of 5, so that both run out, which 32 and 8 never do with five bytes to move |
| `trampoline_backward` | violation: see Findings | the code's own 32 and 8 |
| `overlay` | resources, buffers and texture are right through losses, resets and failures, messages arrive, the menu appears, the device recovers, the font returns | two sizes of a frame, no margin, so that buffers grow; one rendering thread |
| `overlay_end_key` | violation: see Findings | as `overlay` |
| `overlay_lock_failure` | violation: see Findings | as `overlay` |

Two threads suffice for the races in question, since each is between two; three
instructions have a first, a middle and a last; two targets have one entry that moves when the
other is deleted. Deadlock is checked except in `menu` (the process ends, and a
closed overlay draws no more), in `tools` (a fault ends the game) and in the two
runs of `Trampoline` (the loop ends).

The scenarios of `tools` (`MCTools`): images that are empty, shorter than a
signature, just as long, with the signature first, last, twice, behind its own
beginning, or with any one of the twenty-two missing; three buttons with the
mouse in and out of the window and the capture lost; three notifications that
expire in any order; each hotkey and the chord with either Alt, and with changes
of the tab while a key is down; the auto pilot with its list of two skills and a
game that writes its cells; ANTI ASO with a game that writes two slots, the one
that is twice in the list of addresses and another; and each check box by itself
with changes of the tab. A box writes no place of another, except that two boxes
are combined with a game that writes their cells. `DWORDSize` is 1024, above the
length of every image (236 at most), so a difference that wraps
is told from one that does not. With `MaxNotifications` 0 the user presses a key
only when the list is empty; the lists that matter to the loop are given at the start.

In the runs with failing calls a failure is possible each time, never forced.
`minhook_together` and `minhook_library` ask different things of the same
module: the first follows a thread of the game, which removal and some failing
protections do hurt (Findings, and the hazard at `hook.c:655`); the second
looks at the library's own state with every call allowed. Which calls are safe
for a thread of the game is `SwitchedSafely` of `Transparent_proofs`, of which
`minhook_together` is an instance without queueing.

### Fairness

`Menu`: the game keeps rendering and the operating system keeps running the
validators (weak fairness); a download that could succeed again and again does
so once (strong fairness of `DownloadHit`), which is what polling is for.
`VerdictReached` uses weak fairness only. `Tools`: the game keeps rendering,
time passes, and the thread of ANTI ASO is scheduled (weak fairness of
`ScriptCaving`, `Frame`, `Tick`, `Watch`); nothing is assumed of the user, and
`PatchesFollow` and `PilotFollows` speak of executions in which the tab stays
open and the switch in question is left alone. `MinHook`: a caller inside the lock
keeps running. Nothing is assumed of callers that spin, which may starve.
`Overlay`: both threads run; the game draws frames again and again and resets a
lost device until it succeeds (strong, since both are choices of the game's
loop); Reset succeeds in the end when nothing is in its way, and a font texture
that can be created in frame after frame is created in one of them.
`DeviceRecovers` excludes the executions in which a buffer could not be locked,
for the reason in Findings. No fairness is assumed of users, of messages or of the loss of
the device.

### Findings

* `minhook_disable_one` (`hook.c:696`): `EnableHook` passes `ACTION_ENABLE` to
  `Freeze` when it disables too. `ProcessThreadIPs` then skips the enabled
  hook, and a thread stopped on the long jump above the target goes on in the
  restored padding. Only targets patched above are affected.
* `minhook_protect_failure` (`hook.c:364`): the threads are moved out of the
  trampolines before `VirtualProtect` is asked. When it refuses, the jump stays and a
  moved thread runs in the middle of it.
* `trampoline_backward` (`trampoline.c:260`): the guard "can't alter the
  instruction length in a branch" looks forward only; a jump back over an
  instruction that grew leads between two instructions. Functions that jump
  back into their first five bytes are needed for it, hence `Backward`.
* `overlay_end_key` (`dllmain.cpp:94`): `GetAsyncKeyState(VK_END) & 0` is zero,
  so the commented teardown is dead code.
* `overlay_lock_failure` (`imgui_impl_dx9.cpp:145`): a failed `Lock` returns
  without releasing the state block, after which every Reset fails.

A disagreement with a text of the program that no run shows, as it can be read off one line:
the tab INFO says "LEFT-ALT AUTO SPACE ON & OFF" (`main.cpp:1111`), while `Form2`
polls `VK_RMENU`, the right one (`main.cpp:699`). `HotKeys` of `Tools` follows the code.

Other behaviours are modelled on which no document, comment or test says anything, so
no run claims that they are wrong; the properties name them where they must
leave them out:

* a thread that `Unfreeze` cannot open is left suspended, and no later call makes up for
  it (`hook.c:338`): `Resumable` of `MinHook`;
* EndScene may be hooked and Reset not, and every Reset then fails:
  `DeviceRecovers` presupposes both;
* an address that was not found is written to in the first frame of the tab MAIN, which
  ends the game (`crashed`);
* an empty SID is found in every list (`EmptySidHit`);
* an exception of `SendLoginRequest` ends the game (`Form3Send`);
* `SPACEaddress` is written when its box is on and never written back, and the
  bytes for `lawak3` (`Scan.h:459`) are not those of its signature
  (`Scan.h:198`): `NotRestored` of `Patches`;
* the addresses of ANTI ASO (`Scan.h:262`) have one slot twice and its neighbour not at
  all: slot 8 is left out of `ListedValueReplaced`;
* the auto pilot writes one byte of a cell when it is on and four when it is
  off (`main.cpp:1051`, `main.cpp:1066`): the cell then holds 0xFFFFFF01, and
  `PilotSet` asks for the first byte only;
* the hotkeys act only in frames that draw the tab MAIN;
* the search never looks at the last position, and reads behind an image that
  is shorter than the signature: `Seen` and `Fault` of `SigScan`. Below a faulting
  search the program has ended, which `ScanExact` states as the result `Fault`.

## Proofs

Each theorem holds for every value of the constants that satisfies the
module's one assumption (`ClickAssumption`, `HookAssumption`,
`BufferAssumption`, `TrampolineAssumption`, `OverlayAssumption`,
`DWORDAssumption`, `SubjectsAssumption`). Those of `Transparent_proofs`, `JumpsLand`,
`MessagesPassedOn`, `SearchesExact` and `FramesRender` have a further assumption,
which is stated with them. TLC checks the same properties in the runs above.

| Module | Proved | Inductive invariant |
|---|---|---|
| `Menu_proofs` | `TypeOK`, `NeverRefused`, `UnlockedOnce`, `NoRaceOnCache`, `GrantNotRevoked`, `RequestOnlyAfterDenial`, refinement of `Activation` | `IInv` |
| `MinHook_proofs` | `MutualExclusion`, `SuspensionAccounted` | `LockInv`, `SuspendedInv` |
| `MinHookTable_proofs` | `TableConsistent`, `PatchedIffEnabled`, `SuccessIsComplete`, `TypeOK` | `TableInv`, `CallInv`; then the types of the game's threads |
| `Transparent_proofs` | refinement of `HookedCall`, `NotInOverwrittenArea` | `PlaceInv`, `SuitInv` |
| `Buffer_proofs` | `BlocksAccounted`, `SlotsAccounted`, `BuffersApart` | `BufferInv` |
| `Trampoline_proofs` | `TypeOK`, `LeavesBehindPatch`, `JumpsLandRight` | `MovedInv`, `LastInv`, `BranchInv` |
| `Overlay_proofs` | `TypeOK`, `ResetFindsNothing`, `DrawsFit`, `NoDanglingTexture`, `MessagesReachGame` | `OverlayInv`, `ProcInv` |
| `Tools_proofs` | `ReleasesSeen`, `CaptureReleased`, `OnePressOneToggle`, `ScanExact`, `NotificationsRendered` | `MouseInv`, `KeyInv`, `ImageInv`, `ListInv` |

### Menu

None of the properties is inductive. `NeverRefused` needs to know that a form's flag
stands for a stored answer, and `GrantNotRevoked` needs to know why a validator that
comes late cannot store a negative one. `IInv` adds three parts:

* `Screens`: which flags can be on together and what each presupposes (the
  welcome screen presupposes a stored positive answer, the request form a completed validation);
* `FramePoints`: in the middle of a frame the flag of the form that is drawn is
  still on, since only the render thread writes it;
* `Validation`: the validators run one after another. Form4's has ended when
  the request form starts its own, and the welcome screen's finds a positive
  answer at its first loop test; so at most one is between cache and store, a
  store's answer equals the cache, and a stored grant is never overwritten.

There is one lemma per part, each with one step per action that can disturb it;
`NextIInv` puts them together and `Invariance` makes it temporal. The action
properties follow from one step under `IInv`; the refinement has a lemma for
the render thread and one for the validators.

### MinHook

`MutualExclusion` alone does not say that the lock is taken while a caller is
inside, which `LockInv` adds. What a caller has yet to suspend (`todo`) and what it
has been through (`held`) are apart, and both empty outside of the patching points
(`SuspendedInv`); so a thread is in one list at most. From this follow, for any calls
of Windows that fail, both directions of `SuspensionAccounted`: a thread that
`Unfreeze` can open (`Resumable`) is suspended once at most, and only by a caller
that has it in its list; a thread that `Freeze` can open and suspend (`Suspendable`) is
suspended as long as it is in the list. Of other threads neither holds: one that was
left suspended has a count and no caller, one that could not be suspended a caller and no
count. Neither list holds the caller itself, and nobody inside the lock was left
suspended, since a caller enters only when it runs; so the one inside always
runs, and with every call that spins and every suspended thread waiting for that one,
the library cannot deadlock.

The table's properties hold in every state, half-way through a call too, but not by
induction on themselves: a call that is about to write relies on what it read
when it entered, and no other caller is inside since. `OwnInv` says that for a
caller at each point: the hooks it is about are there until it ends, and before
it frees anything or reports success none of them is left to be switched. `DeleteHookEntry` moves the last
entry into the gap, which the lemmas on the operators take apart by position.
A patch loop takes the least pending index, so the existence of a least element is
needed, from the well-foundedness of the naturals. `HookTypes` adds the threads
of the game: the maps between a prologue and its trampoline lead to points that exist.

### Transparent

`SwitchedSafely` says which calls are safe while the game runs: `Freeze` finds,
opens, suspends and moves every thread of the game, no hook is removed, no target patched above is
disabled on its own, and `VirtualProtect` does not refuse in `MH_ApplyQueued` or
when all hooks are disabled. `hooks.cpp`, which enables and disables all hooks
together, is within it as long as disabling does not fail. `minhook_disable_one` and
`minhook_protect_failure` each leave out one part of it, and find
`NotInOverwrittenArea` violated; a hook that is removed takes the trampoline away
from the thread in it (`hook.c:655`), and a thread that is missed is not moved. That `Unfreeze` can open threads again is
not needed: one left suspended stays in its place, and is moved with the others when
later calls patch.
`MinHook` then implements `HookedCall`, with a thread's progress read off
its instruction pointer.

`PlaceInv` says that a thread is in the function it called, in the function
itself or in the trampoline that is its own, and that the detour finds its
original. `SuitInv` says when an instruction pointer suits the patches: of a
thread that no call has in its list, running or left suspended, what is patched now; of
one in the list, what will be patched when the call is done (`Final`), and what is patched now too if the call may end
half-way (`MayFail`): a call that enables, or that disables one target, passes
`ACTION_ENABLE` and so moves threads only into trampolines, where they are whether
the prologue is written or not. From the end of `Freeze` to the start of
`Unfreeze` every thread of the game is suspended (`HeldStopped`), so the patches may be written one after the
other; at the end of the loop nothing is pending, so what was to be patched is.
`FreezeMoves` is the heart of the argument: the position `ProcessThreadIPs` gives
a thread suits the patches to come and has the same progress. `GameMoves` says the
same of a running thread's step. `NotInOverwrittenArea` follows from `SuitInv`.

### Buffer

`BufferInv` names for each block the slots that are handed out and makes their
number the block's count. That a block with a free slot has a non-empty list,
and that the last slot freed is the one that ends the block, follow from
cardinalities; that slots do not overlap follows from arithmetic on the sizes of blocks
and slots, for all sizes that leave room for one slot behind the head.
`BufferAssumption` wants regions aligned to the block's size, as
`VirtualAlloc` returns them.

### Trampoline

From a copied jump up to its destination no instruction changes its length, so
all positions between keep their offset; that is `BranchInv`, and it needs
`jmpDest` to be at least every destination met so far (`MovedInv`). A jump leads to an instruction that
starts behind it, which is therefore one of those that kept the offset.
`JumpsLand` assumes `~Backward`, without which the property is false
(`trampoline_backward`). `LastInv` says that nothing ends the loop while a
destination lies ahead.

### Overlay

`ResetFindsNothing` needs to know that one texture is alive exactly when the
back end has the pointer, that the device is there before anything is
created, and that the release comes before the game's Reset at each point of the
detour; `DrawsFit` that the noted size is the buffer's own while there is one
(`BufferInv`). A state block is in use only while a frame draws (`BlockInv`), so a
hooked Reset succeeds unless the device will not, or `overlay_lock_failure`
happened: that finding is the only way the overlay hinders it. `MessagesPassedOn` assumes `SameThread`: between the two
statements of `SetupMenu` a message from another thread would be lost, and
`ProcInv` says which procedure the window has at each of its points.

### Tools

While the capture was not lost it is held as long as a button is believed down,
so its release is delivered wherever the mouse is (`MouseInv`). A key that is
down and has toggled is in the last state that the frame which toggled kept, and
frames of the other tab leave that alone (`KeyInv`).

`SearchesExact` and `FramesRender` are about what a loop comes to for every image or list. No
induction theorem of the library can be used for that, since each takes the formula as
an operator. Both proofs go the same way instead, with a minimal counterexample:

* A relation says what the loop, from a given position on, should come to: `IsFirst` for
  `SigScan`, `Left` for `RenderNotifications`.
* One lemma for each way through the loop's body says that the relation holds of
  a position if and only if it holds of the next one (`FirstIs`; `LeftAtEnd`, `LeftAlive`,
  `LeftExpired`).
* A recursive function is a CHOOSE: one with the equations exists, since choosing
  for each position a result in the relation gives one (`ScanExists`,
  `LoopExists`).
* Among the positions where such a function is wrong, one has the fewest steps
  left (`LeastNat`, from the well-foundedness of the naturals); by the lemmas the next
  position is wrong too, with fewer (`ScanFinds`, `LoopLeaves`).

The searches run on an image that the writes in between have changed: a write stays inside the
signature that was found, so the image keeps its size (`ImageInv`, `FoundIs`).
`ScenariosFit` says that images are shorter than a DWORD can count, which a
32-bit process guarantees, and that the lists hold notifications.

### Only model-checked

All safety properties of the passing runs are proved. What is left to TLC is
liveness: `VerdictReached`, `ActivationArrives`, `ThreadsResumed`,
`LockReleased`, `MenuAppears`, `DeviceRecovers`, `FontRestored`,
`PatchesFollow`, `PilotFollows`, `ListedValueReplaced`. The prover has no rule for
fairness and ENABLED. No module uses RECURSIVE.

## Not modelled

The repository is far larger than the program: of its lines all but a few
thousand are libcurl, ImGui, byte arrays and headers of packages. The models
are about the program's own files and MinHook, so the share of all lines they
stand for is small and stays so.

* Concealment of the module and the thread monitor: what they do depends on
  Windows' lists of modules and threads; a thread ended inside `hook.c` would
  keep the lock, which is listed as a hazard.
* A second Direct3D device: `setup` stays TRUE and the back end keeps the first.
* The x64 branches of MinHook: the project file builds x86 with inline assembly.
* The length disassembler: a table-driven decoder; `Trampoline` lets it answer
  anything.
* Return addresses of calls made from a prologue, and jumps from later code
  back into the first five bytes: the library does not look for either.
* The code of the caves and the four text boxes that set their numbers: the
  arithmetic of the game. `value5`, which one of the boxes sets, has its initial value.
* What a thread of the game does in bytes that `WriteBytes` has half written:
  the program suspends nobody there, and the outcome is the game's.
* The wheel, characters, cursors and gamepads of the Win32 back end, and keys as
  ImGui sees them: `Form2` polls the keyboard itself.
* The contents of frames, messages, downloads and the lists of the anti-cheat
  check.

## Plan

Done: `Menu` with `Activation` (the program's own logic, and the only place
where its threads share variables), `MinHook` with `HookedCall`, `Buffer`,
`Trampoline`, `Overlay`, `Tools` with `SigScan`, `Patches`, `Input` and
`Notifications`; the proofs listed above.

Left, in this order:

1. `Overlay` with the teardown of `hooks::Destroy` and a frame in flight, should
   the polling loop ever end.
2. The end of the process in `Menu` with the order of its static destructors.
