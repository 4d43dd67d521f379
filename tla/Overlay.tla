------------------------------ MODULE Overlay --------------------------------
(***************************************************************************)
(* How the overlay gets into the game's frames and lives with its Direct3D *)
(* device: the injection thread of dllmain.cpp (Menu::Core, hooks::Setup), *)
(* the detours of hooks/hooks.cpp and the renderer of imgui_impl_dx9.cpp   *)
(* on the thread of the game that renders, and Menu::WNDProc on its        *)
(* window.  What the frames show is the subject of module Menu.            *)
(*                                                                         *)
(* Direct3D and the game are external: the device may be lost at any time, *)
(* a call that creates or locks something may fail, and Reset succeeds     *)
(* only when nothing of the default pool is alive.                         *)
(***************************************************************************)
EXTENDS Integers

CONSTANTS
    MaxNeed,        \* vertices and indices a frame may need
    Margin,         \* by how much a buffer is made larger than needed
    SameThread      \* the window's messages arrive on the rendering thread

ASSUME OverlayAssumption ==
    /\ MaxNeed \in Nat /\ MaxNeed > 0
    /\ Margin \in Nat
    /\ SameThread \in BOOLEAN

VARIABLES
    ipc,            \* the injection thread
    helpers,        \* the window class, window and device of Menu::Core alive
    org,            \* hooks whose *ppOriginal is set
    enabled,        \* hooks that are enabled
    rpc,            \* the rendering thread
    setup,          \* Menu::setup
    show_overlay,   \* Menu::show_overlay
    threadStarted,  \* Render has started the anti-cheat thread
    wndproc,        \* the window procedure of the game's window
    org_wndproc,    \* Menu::org_wndproc
    returned,       \* what SetWindowLongPtr returned
    called,         \* the procedure WNDProc passed the last message to
    g_pd3dDevice,   \* the renderer has its device
    buffer,         \* sizes of the vertex and index buffer, 0 for none
    bufferSize,     \* g_VertexBufferSize and g_IndexBufferSize
    need,           \* what the frame being drawn needs of each
    g_FontTexture,  \* the pointer is set
    texID,          \* ImGui's TexID is the font texture
    textures,       \* font textures alive
    stateBlocks,    \* state blocks alive: none, one in use, or one left behind
    lost,           \* the device is lost
    endKey          \* the END key is down

window   == <<wndproc, org_wndproc, returned, called>>
font     == <<g_FontTexture, texID, textures>>
menu     == <<setup, show_overlay, threadStarted, window>>
renderer == <<g_pd3dDevice, buffer, bufferSize, need, font, stateBlocks>>
vars     == <<ipc, helpers, org, enabled, rpc, menu, renderer, lost, endKey>>

Hooks   == {"EndScene", "Reset"}
Kinds   == {"VB", "IB"}
Sizes   == 0..(MaxNeed + Margin)
Helpers == {"class", "window", "device"}

InjectorPoints == {"wnd_class", "hwnd", "dx", "close", "init", "hookEndScene",
                   "hookReset", "enable", "destroyDX", "loop", "gone"}
RenderPoints == {"game", "EndScene", "assign", "context", "Render", "grow",
                 "lock", "draw", "invalidate", "ResetOrg", "create"}

TypeOK ==
    /\ ipc \in InjectorPoints
    /\ helpers \subseteq Helpers
    /\ org \subseteq Hooks /\ enabled \subseteq Hooks
    /\ rpc \in RenderPoints
    /\ setup \in BOOLEAN /\ show_overlay \in BOOLEAN /\ threadStarted \in BOOLEAN
    /\ wndproc \in {"game", "menu"}
    /\ org_wndproc \in {"null", "game", "menu"}
    /\ returned \in {"game", "menu"}
    /\ called \in {"none", "null", "game", "menu"}
    /\ g_pd3dDevice \in BOOLEAN
    /\ buffer \in [Kinds -> Sizes]
    /\ bufferSize \in [Kinds -> Sizes]
    /\ need \in [Kinds -> 0..MaxNeed]
    /\ g_FontTexture \in BOOLEAN /\ texID \in BOOLEAN
    /\ textures \in Nat
    /\ stateBlocks \in {"none", "used", "left"}
    /\ lost \in BOOLEAN /\ endKey \in BOOLEAN

Init ==
    /\ ipc = "wnd_class" /\ helpers = {}
    /\ org = {} /\ enabled = {}
    /\ rpc = "game"
    /\ setup = FALSE /\ show_overlay = TRUE /\ threadStarted = FALSE
    /\ wndproc = "game" /\ org_wndproc = "null" /\ returned = "game"
    /\ called = "none"
    /\ g_pd3dDevice = FALSE
    /\ buffer = [k \in Kinds |-> 0]
    /\ bufferSize = [k \in Kinds |-> Margin]
    /\ need = [k \in Kinds |-> 0]
    /\ g_FontTexture = FALSE /\ texID = FALSE /\ textures = 0
    /\ stateBlocks = "none"
    /\ lost = FALSE /\ endKey = FALSE

-----------------------------------------------------------------------------
(* The injection thread.  A failure throws, and is caught before the loop. *)

Inject(from, to) ==
    /\ ipc = from
    /\ ipc' \in {to, "loop"}
    /\ UNCHANGED <<rpc, menu, renderer, lost, endKey>>

Core(from, to, helper) ==
    /\ Inject(from, to)
    /\ helpers' = IF ipc' = to THEN helpers \cup {helper} ELSE helpers
    /\ UNCHANGED <<org, enabled>>

setup_wnd_class == Core("wnd_class", "hwnd", "class")
setup_hwnd      == Core("hwnd", "dx", "window")
SetupDX         == Core("dx", "close", "device")

\* destroy_hwnd and destroy_wnd_class.
CloseWindow ==
    /\ Inject("close", "init")
    /\ ipc' = "init"
    /\ helpers' = helpers \ {"class", "window"}
    /\ UNCHANGED <<org, enabled>>

Initialize ==
    /\ Inject("init", "hookEndScene")
    /\ UNCHANGED <<helpers, org, enabled>>

CreateHook(from, to, hook) ==
    /\ Inject(from, to)
    /\ org' = IF ipc' = to THEN org \cup {hook} ELSE org
    /\ UNCHANGED <<helpers, enabled>>

HookEndScene == CreateHook("hookEndScene", "hookReset", "EndScene")
HookReset    == CreateHook("hookReset", "enable", "Reset")

\* MH_EnableHook(MH_ALL_HOOKS) enables the hooks in the order of the table
\* and stops at one that fails.
EnableHooks ==
    /\ Inject("enable", "destroyDX")
    /\ \/ enabled' = Hooks /\ ipc' = "destroyDX"
       \/ enabled' \in {{}, {"EndScene"}} /\ ipc' = "loop"
    /\ UNCHANGED <<helpers, org>>

DestroyDX ==
    /\ Inject("destroyDX", "loop")
    /\ helpers' = helpers \ {"device"}
    /\ UNCHANGED <<org, enabled>>

\* The loop of injection_thread: the key's state is masked with 0 (the
\* remainder modulo 1) before it is tested.  The teardown would disable and
\* remove the hooks.
GetAsyncKeyState == IF endKey THEN 32768 ELSE 0

PollEndKey ==
    /\ ipc = "loop"
    /\ IF GetAsyncKeyState % 1 # 0
       THEN ipc' = "gone" /\ enabled' = {}
       ELSE UNCHANGED <<ipc, enabled>>
    /\ UNCHANGED <<helpers, org, rpc, menu, renderer, lost, endKey>>

InjectionThread ==
    \/ setup_wnd_class \/ setup_hwnd \/ SetupDX \/ CloseWindow \/ Initialize
    \/ HookEndScene \/ HookReset \/ EnableHooks \/ DestroyDX \/ PollEndKey

injector == <<ipc, helpers, org, enabled>>

-----------------------------------------------------------------------------
(* The renderer. *)

Goto(from, to) ==
    /\ rpc = from
    /\ rpc' = to
    /\ UNCHANGED <<injector, lost, endKey>>

\* Mutant: a texture that could not be locked is forgotten.
CreateFontsTextureForget ==
    \/ g_FontTexture' = FALSE /\ UNCHANGED <<texID, textures>>
    \/ ~lost /\ textures' = textures + 1 /\ g_FontTexture' = TRUE /\ texID' = TRUE
    \/ ~lost /\ textures' = textures + 1 /\ g_FontTexture' = FALSE /\ UNCHANGED texID

\* CreateFontsTexture: the pointer is cleared, not released, before the new
\* texture is asked for; a failed LockRect keeps the texture without TexID.
CreateFontsTexture ==
    \/ g_FontTexture' = FALSE /\ UNCHANGED <<texID, textures>>
    \/ ~lost /\ textures' = textures + 1 /\ g_FontTexture' = TRUE /\ texID' = TRUE
    \/ ~lost /\ textures' = textures + 1 /\ g_FontTexture' = TRUE /\ UNCHANGED texID

CreateDeviceObjects ==
    IF g_pd3dDevice THEN CreateFontsTexture
    ELSE UNCHANGED font

\* Mutant: TexID keeps the released texture.
InvalidateDeviceObjectsKeep ==
    /\ IF g_pd3dDevice
       THEN /\ buffer' = [k \in Kinds |-> 0]
            /\ textures' = IF g_FontTexture THEN textures - 1 ELSE textures
            /\ g_FontTexture' = FALSE
       ELSE UNCHANGED <<buffer, textures, g_FontTexture>>
    /\ UNCHANGED texID

\* Mutant: the index buffer is not released.
InvalidateDeviceObjectsVB ==
    IF g_pd3dDevice
    THEN /\ buffer' = [buffer EXCEPT !["VB"] = 0]
         /\ textures' = IF g_FontTexture THEN textures - 1 ELSE textures
         /\ texID' = IF g_FontTexture THEN FALSE ELSE texID
         /\ g_FontTexture' = FALSE
    ELSE UNCHANGED <<buffer, textures, texID, g_FontTexture>>

\* Mutant: the texture is released without a look at the pointer.
InvalidateDeviceObjectsUnchecked ==
    IF g_pd3dDevice
    THEN /\ buffer' = [k \in Kinds |-> 0]
         /\ textures' = textures - 1
         /\ texID' = FALSE
         /\ g_FontTexture' = FALSE
    ELSE UNCHANGED <<buffer, textures, texID, g_FontTexture>>

InvalidateDeviceObjects ==
    IF g_pd3dDevice
    THEN /\ buffer' = [k \in Kinds |-> 0]
         /\ textures' = IF g_FontTexture THEN textures - 1 ELSE textures
         /\ texID' = IF g_FontTexture THEN FALSE ELSE texID
         /\ g_FontTexture' = FALSE
    ELSE UNCHANGED <<buffer, textures, texID, g_FontTexture>>

\* Mutant: only the noted size is looked at.
TooSmallBySize(k, n) == bufferSize[k] < n

\* One buffer of RenderDrawData: created when there is none or it is too
\* small; its size is noted before it is known to exist.
TooSmall(k, n) == buffer[k] = 0 \/ bufferSize[k] < n

-----------------------------------------------------------------------------
(* The rendering thread: a frame. *)

\* The game calls EndScene: the detour calls the original, then SetupMenu the
\* first time, then Render while the overlay is shown.
CallEndScene ==
    /\ Goto("game", "EndScene")
    /\ "EndScene" \in enabled
    /\ UNCHANGED <<menu, renderer>>

\* SetWindowLongPtr.
SetupMenu ==
    /\ Goto("EndScene", "assign")
    /\ ~setup
    /\ wndproc' = "menu"
    /\ returned' = wndproc
    /\ UNCHANGED <<setup, show_overlay, threadStarted, org_wndproc, called, renderer>>

\* What SetWindowLongPtr returned is stored.
AssignProc ==
    /\ Goto("assign", "context")
    /\ org_wndproc' = returned
    /\ UNCHANGED <<setup, show_overlay, threadStarted, wndproc, returned, called, renderer>>

\* Mutant: setup is not set.
InitBackendsAgain ==
    /\ Goto("context", "Render")
    /\ g_pd3dDevice' = TRUE
    /\ UNCHANGED <<menu, buffer, bufferSize, need, font, stateBlocks>>

\* ImGui's context and the back ends; setup is set last.
InitBackends ==
    /\ Goto("context", "Render")
    /\ g_pd3dDevice' = TRUE
    /\ setup' = TRUE
    /\ UNCHANGED <<show_overlay, threadStarted, window, buffer, bufferSize, need,
                   font, stateBlocks>>

SetupDone ==
    /\ Goto("EndScene", "Render")
    /\ setup
    /\ UNCHANGED <<menu, renderer>>

\* The overlay is hidden.
Hidden ==
    /\ Goto("Render", "game")
    /\ ~show_overlay
    /\ UNCHANGED <<menu, renderer>>

\* The first Render only starts the anti-cheat thread.
FirstRender ==
    /\ Goto("Render", "game")
    /\ show_overlay /\ ~threadStarted
    /\ threadStarted' = TRUE
    /\ UNCHANGED <<setup, show_overlay, window, renderer>>

\* Mutant: the texture is created once only.
NewFrameOnce ==
    /\ Goto("Render", "grow")
    /\ show_overlay /\ threadStarted
    /\ UNCHANGED font
    /\ need' \in [Kinds -> 1..MaxNeed]
    /\ show_overlay' \in BOOLEAN
    /\ UNCHANGED <<setup, threadStarted, window, g_pd3dDevice, buffer, bufferSize,
                   stateBlocks>>

\* ImGui_ImplDX9_NewFrame, and the frame ImGui builds, in which the user may
\* press CLOSE (module Menu).
NewFrame ==
    /\ Goto("Render", "grow")
    /\ show_overlay /\ threadStarted
    /\ IF g_FontTexture THEN UNCHANGED font
                        ELSE CreateDeviceObjects
    /\ need' \in [Kinds -> 1..MaxNeed]
    /\ show_overlay' \in BOOLEAN
    /\ UNCHANGED <<setup, threadStarted, window, g_pd3dDevice, buffer, bufferSize,
                   stateBlocks>>

\* The start of RenderDrawData: both buffers fit.
BuffersFit ==
    /\ Goto("grow", "lock")
    /\ \A k \in Kinds : ~TooSmall(k, need[k])
    /\ UNCHANGED <<menu, renderer>>

\* The next buffer that does not fit is replaced, the vertex buffer first.
\* When it cannot be created the frame is not drawn.
ReplaceBuffer(k) ==
    /\ rpc = "grow"
    /\ TooSmall(k, need[k])
    /\ k = "IB" => ~TooSmall("VB", need["VB"])
    /\ bufferSize' = [bufferSize EXCEPT ![k] = need[k] + Margin]
    /\ \/ /\ ~lost
          /\ buffer' = [buffer EXCEPT ![k] = need[k] + Margin]
          /\ Goto("grow", "grow")
       \/ /\ buffer' = [buffer EXCEPT ![k] = 0]
          /\ Goto("grow", "game")
    /\ UNCHANGED <<menu, g_pd3dDevice, need, font, stateBlocks>>

\* Minimized, or no state block: not drawn.
NotDrawn ==
    /\ Goto("grow", "game")
    /\ UNCHANGED <<menu, renderer>>

\* CreateStateBlock, then both buffers are locked and filled.
FillBuffers ==
    /\ Goto("lock", "draw")
    /\ stateBlocks' = IF stateBlocks = "none" THEN "used" ELSE stateBlocks
    /\ UNCHANGED <<menu, g_pd3dDevice, buffer, bufferSize, need, font>>

\* A buffer cannot be locked: the state block is not released.
LockFailure ==
    /\ Goto("lock", "game")
    /\ stateBlocks' = "left"
    /\ UNCHANGED <<menu, g_pd3dDevice, buffer, bufferSize, need, font>>

Draw ==
    /\ Goto("draw", "game")
    /\ stateBlocks' = IF stateBlocks = "used" THEN "none" ELSE stateBlocks
    /\ UNCHANGED <<menu, g_pd3dDevice, buffer, bufferSize, need, font>>

-----------------------------------------------------------------------------
(* The rendering thread: the game resets its device. *)

CallReset ==
    /\ Goto("game", "invalidate")
    /\ "Reset" \in enabled
    /\ UNCHANGED <<menu, renderer>>

Invalidate ==
    /\ Goto("invalidate", "ResetOrg")
    /\ InvalidateDeviceObjects
    /\ UNCHANGED <<menu, g_pd3dDevice, bufferSize, need, stateBlocks>>

\* Direct3D's Reset, which may fail for reasons of its own.
Released      == textures = 0 /\ \A k \in Kinds : buffer[k] = 0
ResetSucceeds == stateBlocks = "none" /\ Released

ResetOrg ==
    /\ rpc = "ResetOrg"
    /\ rpc' = "create"
    /\ \/ ResetSucceeds /\ lost' = FALSE
       \/ UNCHANGED lost
    /\ UNCHANGED <<injector, menu, renderer, endKey>>

\* CreateDeviceObjects, whatever Reset returned.
Recreate ==
    /\ Goto("create", "game")
    /\ CreateDeviceObjects
    /\ UNCHANGED <<menu, g_pd3dDevice, buffer, bufferSize, need, stateBlocks>>

\* Reset is not hooked: the game calls it directly.
ResetUnhooked ==
    /\ rpc = "game"
    /\ "Reset" \notin enabled
    /\ ResetSucceeds
    /\ lost' = FALSE
    /\ UNCHANGED <<injector, rpc, menu, renderer, endKey>>

RenderThread ==
    \/ CallEndScene \/ SetupMenu \/ AssignProc \/ InitBackends \/ SetupDone
    \/ Hidden \/ FirstRender \/ NewFrame \/ BuffersFit \/ (\E k \in Kinds : ReplaceBuffer(k))
    \/ NotDrawn \/ FillBuffers \/ LockFailure \/ Draw
    \/ CallReset \/ Invalidate \/ ResetOrg \/ Recreate \/ ResetUnhooked

-----------------------------------------------------------------------------
(* Messages, the device, the keyboard and the user. *)

\* WNDProc passes on the message that ImGui does not take.
WNDProc ==
    /\ wndproc = "menu"
    /\ SameThread => rpc = "game"
    /\ called' = org_wndproc
    /\ UNCHANGED <<injector, rpc, setup, show_overlay, threadStarted, wndproc,
                   org_wndproc, returned, renderer, lost, endKey>>

LoseDevice ==
    /\ lost' = TRUE
    /\ UNCHANGED <<injector, rpc, menu, renderer, endKey>>

PressEnd ==
    /\ endKey' = ~endKey
    /\ UNCHANGED <<injector, rpc, menu, renderer, lost>>

Next == InjectionThread \/ RenderThread \/ WNDProc \/ LoseDevice \/ PressEnd

Spec == Init /\ [][Next]_vars

\* The threads run, the game keeps drawing, it resets a lost device until it
\* succeeds, and a texture that can be created again and again is once.
Fairness ==
    /\ WF_vars(InjectionThread)
    /\ WF_vars(RenderThread)
    /\ SF_vars(CallEndScene)
    /\ SF_vars(lost /\ CallReset)
    /\ SF_vars(ResetOrg /\ ~lost')
    /\ SF_vars(NewFrame /\ g_FontTexture')

FairSpec == Spec /\ Fairness

-----------------------------------------------------------------------------
(* Properties. *)

\* A hooked Reset finds no buffer and no texture of the overlay: what the
\* pointers named was released, and no pointer was cleared over a live texture
\* after a failure to create or lock one.  Nor does it find a state block, unless
\* one was left behind when a buffer could not be locked.
ResetFindsNothing ==
    rpc = "ResetOrg" => Released /\ (ResetSucceeds \/ stateBlocks = "left")

\* What is locked and drawn from is large enough for the frame, after resets,
\* failures and growth: the noted size never stands for another buffer.
DrawsFit == rpc \in {"lock", "draw"} => \A k \in Kinds : buffer[k] >= need[k]

\* ImGui never draws with a released font texture.
NoDanglingTexture == texID => g_FontTexture /\ textures = 1

\* Every message ImGui leaves goes to the game's procedure, never to NULL or
\* back to WNDProc.
MessagesReachGame == called \in {"none", "game"}

\* Once EndScene is hooked the menu is set up.
MenuAppears == "EndScene" \in enabled ~> setup

\* With both hooks in place a lost device recovers, unless a buffer could not
\* be locked: the overlay holds nothing that makes Reset fail.
DeviceRecovers ==
    [](stateBlocks # "left") => (lost /\ enabled = Hooks ~> ~lost)

\* While the device is there and the overlay shown, a font texture that could
\* not be created is asked for again.
FontRestored == <>[](setup /\ show_overlay /\ ~lost) => []<>g_FontTexture

\* dllmain.cpp: with the END key held down the hooks are removed.
EndKeyDetaches == ipc = "loop" /\ []endKey ~> ipc = "gone"

\* imgui_impl_dx9.cpp: a frame that backs up the game's Direct3D state restores
\* it and lets go of the state block, also when it cannot be drawn.
StateRestored == rpc = "game" => stateBlocks = "none"

=============================================================================
