--------------------------- MODULE Overlay_proofs ---------------------------
(***************************************************************************)
(* Proofs about Overlay for every MaxNeed and Margin: its types, and that  *)
(* Reset, drawing, the font texture and the window's messages are safe.    *)
(* Each part of the inductive invariant has a lemma of its own, with the   *)
(* actions that change nothing of it in one step.                          *)
(***************************************************************************)
EXTENDS Overlay, TLAPS

\* In these points of a frame the menu is set up.
InRender == rpc \in {"Render", "grow", "lock", "draw"}

\* The back ends have their device as soon as the menu is set up, and the
\* renderer owns nothing without it.
DeviceInv ==
    /\ setup \/ InRender => g_pd3dDevice
    /\ ~g_pd3dDevice => ~g_FontTexture /\ \A k \in Kinds : buffer[k] = 0

\* The pointer is set exactly while one texture is alive, and nothing is left
\* once a Reset has invalidated it.
FontInv ==
    /\ textures = IF g_FontTexture THEN 1 ELSE 0
    /\ texID => g_FontTexture
    /\ rpc \in {"ResetOrg", "create"} => ~g_FontTexture

\* The noted size of a buffer is its own while there is one.
BufferInv ==
    /\ \A k \in Kinds : buffer[k] # 0 => buffer[k] = bufferSize[k]
    /\ rpc = "ResetOrg" => \A k \in Kinds : buffer[k] = 0
    /\ DrawsFit

\* A frame's state block is in use only while the frame draws.
BlockInv == stateBlocks = "used" => rpc = "draw"

\* Which procedure the window has, at each point of SetupMenu.
ProcInv ==
    /\ MessagesReachGame
    /\ setup => wndproc = "menu" /\ org_wndproc = "game"
    /\ InRender => setup
    /\ rpc \in {"assign", "context"} => ~setup
    /\ ~setup /\ rpc \notin {"assign", "context"} => wndproc = "game"
    /\ rpc \in {"assign", "context"} => wndproc = "menu"
    /\ rpc = "assign" => returned = "game"
    /\ rpc = "context" => org_wndproc = "game"

\* The injection thread, messages, the device and the keyboard touch nothing of
\* the renderer.
LEMMA Outside ==
    InjectionThread \/ WNDProc \/ LoseDevice \/ PressEnd =>
        UNCHANGED <<rpc, renderer, setup, show_overlay, threadStarted, wndproc,
                    org_wndproc, returned>>
  BY DEF InjectionThread, Inject, Core, setup_wnd_class, setup_hwnd, SetupDX,
         CloseWindow, Initialize, CreateHook, HookEndScene, HookReset,
         EnableHooks, DestroyDX, PollEndKey, WNDProc, LoseDevice, PressEnd,
         menu, renderer, window, font

\* CreateFontsTexture, when no texture is alive, leaves the pointer set to the
\* new one or to none.
LEMMA Created ==
    ASSUME textures = 0, texID = FALSE, CreateFontsTexture
    PROVE  /\ textures' = IF g_FontTexture' THEN 1 ELSE 0
           /\ texID' => g_FontTexture'
           /\ textures' \in Nat /\ g_FontTexture' \in BOOLEAN /\ texID' \in BOOLEAN
<1>1. CASE g_FontTexture' = FALSE /\ UNCHANGED <<texID, textures>>
  BY <1>1
<1>2. CASE textures' = textures + 1 /\ g_FontTexture' = TRUE /\ texID' = TRUE
  BY <1>2
<1>3. CASE textures' = textures + 1 /\ g_FontTexture' = TRUE /\ UNCHANGED texID
  <2>1. texID' = FALSE /\ textures' = 1 /\ g_FontTexture' = TRUE
    BY <1>3
  <2>2. textures' = IF g_FontTexture' THEN 1 ELSE 0
    BY <2>1
  <2>3. texID' => g_FontTexture'
    BY <2>1
  <2>4. textures' \in Nat /\ g_FontTexture' \in BOOLEAN /\ texID' \in BOOLEAN
    BY <2>1
  <2> QED
    BY <2>2, <2>3, <2>4, Zenon
<1> QED
  BY <1>1, <1>2, <1>3 DEF CreateFontsTexture

-----------------------------------------------------------------------------

LEMMA InitInv == Init => TypeOK /\ DeviceInv /\ FontInv /\ BufferInv /\ BlockInv /\ ProcInv
<1> SUFFICES ASSUME Init
             PROVE  TypeOK /\ DeviceInv /\ FontInv /\ BufferInv /\ BlockInv /\ ProcInv
  OBVIOUS
<1>1. TypeOK
  <2>1. 0 \in Sizes /\ Margin \in Sizes /\ 0 \in 0..MaxNeed
    BY OverlayAssumption DEF Sizes
  <2> QED
    BY <2>1 DEF Init, TypeOK, Helpers, Hooks, InjectorPoints, RenderPoints
<1>2. DeviceInv /\ FontInv /\ BufferInv /\ BlockInv /\ ProcInv
  BY DEF Init, DeviceInv, FontInv, BufferInv, BlockInv, ProcInv, InRender, DrawsFit,
         MessagesReachGame
<1> QED
  BY <1>1, <1>2

\* The renderer keeps its device.
LEMMA StepDevice == TypeOK /\ DeviceInv /\ [Next]_vars => DeviceInv'
<1> SUFFICES ASSUME TypeOK, DeviceInv, [Next]_vars PROVE DeviceInv'
  OBVIOUS
<1> USE DEF DeviceInv, InRender, Goto, menu, renderer, font, window
<1>1. CASE InjectionThread \/ WNDProc \/ LoseDevice \/ PressEnd
  BY <1>1, Outside
<1>2. CASE RenderThread
  <2>1. CASE \/ CallEndScene \/ SetupMenu \/ AssignProc \/ SetupDone \/ Hidden
             \/ FirstRender \/ BuffersFit \/ NotDrawn \/ FillBuffers
             \/ LockFailure \/ Draw \/ CallReset \/ ResetOrg \/ ResetUnhooked
    BY <2>1 DEF CallEndScene, SetupMenu, AssignProc, SetupDone, Hidden,
                FirstRender, BuffersFit, NotDrawn, FillBuffers, LockFailure,
                Draw, CallReset, ResetOrg, ResetUnhooked
  <2>2. CASE InitBackends
    BY <2>2 DEF InitBackends
  <2>3. CASE NewFrame
    BY <2>3 DEF NewFrame
  <2>4. ASSUME NEW k \in Kinds, ReplaceBuffer(k) PROVE DeviceInv'
    BY <2>4 DEF ReplaceBuffer
  <2>5. CASE Invalidate
    BY <2>5 DEF Invalidate, InvalidateDeviceObjects
  <2>6. CASE Recreate
    BY <2>6 DEF Recreate, CreateDeviceObjects
  <2> QED
    BY <1>2, <2>1, <2>2, <2>3, <2>4, <2>5, <2>6 DEF RenderThread
<1>3. CASE UNCHANGED vars
  BY <1>3 DEF vars
<1> QED
  BY <1>1, <1>2, <1>3 DEF Next

\* One texture at most is alive, and the pointer knows it.
LEMMA StepFont == TypeOK /\ DeviceInv /\ FontInv /\ [Next]_vars => FontInv'
<1> SUFFICES ASSUME TypeOK, DeviceInv, FontInv, [Next]_vars PROVE FontInv'
  OBVIOUS
<1> USE DEF FontInv, Goto, menu, renderer, font, window
<1>1. CASE InjectionThread \/ WNDProc \/ LoseDevice \/ PressEnd
  BY <1>1, Outside
<1>2. CASE RenderThread
  <2>1. CASE \/ CallEndScene \/ SetupMenu \/ AssignProc \/ InitBackends
             \/ SetupDone \/ Hidden \/ FirstRender \/ BuffersFit \/ NotDrawn
             \/ FillBuffers \/ LockFailure \/ Draw \/ CallReset \/ ResetOrg
             \/ ResetUnhooked
    BY <2>1 DEF CallEndScene, SetupMenu, AssignProc, InitBackends, SetupDone,
                Hidden, FirstRender, BuffersFit, NotDrawn, FillBuffers,
                LockFailure, Draw, CallReset, ResetOrg, ResetUnhooked
  <2>2. CASE NewFrame
    <3>1. rpc' = "grow"
      BY <2>2 DEF NewFrame
    <3>2. CASE g_FontTexture
      BY <2>2, <3>1, <3>2 DEF NewFrame
    <3>3. CASE ~g_FontTexture
      <4>1. textures = 0 /\ texID = FALSE
        BY <3>3 DEF TypeOK
      <4> QED
        BY <2>2, <3>1, <3>3, <4>1, Created DEF NewFrame, CreateDeviceObjects
    <3> QED
      BY <3>2, <3>3
  <2>3. ASSUME NEW k \in Kinds, ReplaceBuffer(k) PROVE FontInv'
    BY <2>3 DEF ReplaceBuffer
  <2>4. CASE Invalidate
    <3>1. CASE g_FontTexture
      <4>1. g_FontTexture = TRUE /\ textures = 1 /\ g_pd3dDevice
        BY <3>1 DEF TypeOK, DeviceInv
      <4>2. textures' = 0 /\ g_FontTexture' = FALSE /\ texID' = FALSE
        BY <2>4, <4>1 DEF Invalidate, InvalidateDeviceObjects
      <4> QED
        BY <4>2
    <3>2. CASE ~g_FontTexture
      <4>1. textures = 0 /\ texID = FALSE /\ g_FontTexture = FALSE
        BY <3>2 DEF TypeOK
      <4> QED
        BY <2>4, <4>1 DEF Invalidate, InvalidateDeviceObjects, DeviceInv
    <3> QED
      BY <3>1, <3>2
  <2>5. CASE Recreate
    <3>1. rpc' = "game" /\ textures = 0 /\ texID = FALSE /\ ~g_FontTexture
      BY <2>5 DEF Recreate, TypeOK
    <3> QED
      BY <2>5, <3>1, Created DEF Recreate, CreateDeviceObjects
  <2> QED
    BY <1>2, <2>1, <2>2, <2>3, <2>4, <2>5 DEF RenderThread
<1>3. CASE UNCHANGED vars
  BY <1>3 DEF vars
<1> QED
  BY <1>1, <1>2, <1>3 DEF Next

\* The noted sizes follow the buffers.
LEMMA StepBuffer == TypeOK /\ DeviceInv /\ BufferInv /\ [Next]_vars => BufferInv'
<1> SUFFICES ASSUME TypeOK, DeviceInv, BufferInv, [Next]_vars PROVE BufferInv'
  OBVIOUS
<1> USE DEF BufferInv, DrawsFit, Goto, menu, renderer, font, window
<1>1. CASE InjectionThread \/ WNDProc \/ LoseDevice \/ PressEnd
  BY <1>1, Outside
<1>2. CASE RenderThread
  <2>1. CASE \/ CallEndScene \/ SetupMenu \/ AssignProc \/ InitBackends
             \/ SetupDone \/ Hidden \/ FirstRender \/ NotDrawn
             \/ FillBuffers \/ LockFailure \/ Draw \/ CallReset \/ ResetOrg
             \/ ResetUnhooked \/ Recreate \/ NewFrame
    BY <2>1 DEF CallEndScene, SetupMenu, AssignProc, InitBackends, SetupDone,
                Hidden, FirstRender, NotDrawn, FillBuffers, LockFailure, Draw,
                CallReset, ResetOrg, ResetUnhooked, Recreate, NewFrame
  <2>2. CASE BuffersFit
    <3>1. ASSUME NEW k \in Kinds PROVE buffer[k] >= need[k]
      <4>1. buffer[k] # 0 /\ ~(bufferSize[k] < need[k])
        BY <2>2 DEF BuffersFit, TooSmall
      <4>2. bufferSize[k] \in Int /\ need[k] \in Int
        BY OverlayAssumption DEF TypeOK, Sizes
      <4> QED
        BY <4>1, <4>2
    <3> QED
      BY <2>2, <3>1 DEF BuffersFit
  <2>3. ASSUME NEW k \in Kinds, ReplaceBuffer(k) PROVE BufferInv'
    BY <2>3 DEF ReplaceBuffer, TypeOK
  <2>4. CASE Invalidate
    BY <2>4 DEF Invalidate, InvalidateDeviceObjects, DeviceInv
  <2> QED
    BY <1>2, <2>1, <2>2, <2>3, <2>4 DEF RenderThread
<1>3. CASE UNCHANGED vars
  BY <1>3 DEF vars
<1> QED
  BY <1>1, <1>2, <1>3 DEF Next

\* A state block is released by the frame that created it, or left for good.
LEMMA StepBlock == TypeOK /\ BlockInv /\ [Next]_vars => BlockInv'
<1> SUFFICES ASSUME TypeOK, BlockInv, [Next]_vars PROVE BlockInv'
  OBVIOUS
<1> USE DEF BlockInv, Goto, menu, renderer, font, window
<1>1. CASE InjectionThread \/ WNDProc \/ LoseDevice \/ PressEnd
  BY <1>1, Outside
<1>2. CASE RenderThread
  <2>1. CASE \/ CallEndScene \/ SetupMenu \/ AssignProc \/ InitBackends
             \/ SetupDone \/ Hidden \/ FirstRender \/ NewFrame \/ BuffersFit
             \/ NotDrawn \/ FillBuffers \/ LockFailure
    BY <2>1 DEF CallEndScene, SetupMenu, AssignProc, InitBackends, SetupDone,
                Hidden, FirstRender, NewFrame, BuffersFit, NotDrawn,
                FillBuffers, LockFailure
  <2>2. CASE Draw
    BY <2>2 DEF Draw, TypeOK
  <2>3. ASSUME NEW k \in Kinds, ReplaceBuffer(k) PROVE BlockInv'
    BY <2>3 DEF ReplaceBuffer
  <2>4. CASE CallReset \/ Invalidate \/ ResetOrg \/ Recreate \/ ResetUnhooked
    BY <2>4 DEF CallReset, Invalidate, ResetOrg, Recreate, ResetUnhooked
  <2> QED
    BY <1>2, <2>1, <2>2, <2>3, <2>4 DEF RenderThread
<1>3. CASE UNCHANGED vars
  BY <1>3 DEF vars
<1> QED
  BY <1>1, <1>2, <1>3 DEF Next

\* The procedures are exchanged once, and in an order no message can observe.
LEMMA StepProc == SameThread /\ TypeOK /\ ProcInv /\ [Next]_vars => ProcInv'
<1> SUFFICES ASSUME SameThread, TypeOK, ProcInv, [Next]_vars PROVE ProcInv'
  OBVIOUS
<1> USE DEF ProcInv, InRender, MessagesReachGame, Goto, menu, renderer, font,
            window
<1>1. CASE WNDProc
  BY <1>1 DEF WNDProc
<1>2. CASE InjectionThread \/ LoseDevice \/ PressEnd
  <2>1. called' = called
    BY <1>2 DEF InjectionThread, Inject, Core, setup_wnd_class, setup_hwnd,
                SetupDX, CloseWindow, Initialize, CreateHook, HookEndScene,
                HookReset, EnableHooks, DestroyDX, PollEndKey, LoseDevice,
                PressEnd
  <2> QED
    BY <1>2, <2>1, Outside
<1>3. CASE RenderThread
  <2>1. CASE \/ CallEndScene \/ SetupDone \/ Hidden \/ FirstRender \/ NewFrame
             \/ BuffersFit \/ NotDrawn \/ FillBuffers \/ LockFailure \/ Draw
    BY <2>1 DEF CallEndScene, SetupDone, Hidden, FirstRender, NewFrame,
                BuffersFit, NotDrawn, FillBuffers, LockFailure, Draw
  <2>2. CASE SetupMenu
    BY <2>2 DEF SetupMenu
  <2>3. CASE AssignProc
    BY <2>3 DEF AssignProc
  <2>4. CASE InitBackends
    BY <2>4 DEF InitBackends
  <2>5. ASSUME NEW k \in Kinds, ReplaceBuffer(k) PROVE ProcInv'
    BY <2>5 DEF ReplaceBuffer
  <2>6. CASE CallReset \/ Invalidate \/ ResetOrg \/ Recreate \/ ResetUnhooked
    BY <2>6 DEF CallReset, Invalidate, ResetOrg, Recreate, ResetUnhooked
  <2> QED
    BY <1>3, <2>1, <2>2, <2>3, <2>4, <2>5, <2>6 DEF RenderThread
<1>4. CASE UNCHANGED vars
  BY <1>4 DEF vars
<1> QED
  BY <1>1, <1>2, <1>3, <1>4 DEF Next

\* Every variable keeps its type.
LEMMA StepType == TypeOK /\ DeviceInv /\ FontInv /\ [Next]_vars => TypeOK'
<1> SUFFICES ASSUME TypeOK, DeviceInv, FontInv, [Next]_vars PROVE TypeOK'
  OBVIOUS
<1> USE DEF TypeOK, menu, renderer, font, window, injector
<1>1. CASE InjectionThread
  <2>1. /\ ipc' \in InjectorPoints /\ helpers' \subseteq Helpers
        /\ org' \subseteq Hooks /\ enabled' \subseteq Hooks
        /\ UNCHANGED <<rpc, menu, renderer, lost, endKey>>
    BY <1>1 DEF InjectionThread, Inject, Core, setup_wnd_class, setup_hwnd,
                SetupDX, CloseWindow, Initialize, CreateHook, HookEndScene,
                HookReset, EnableHooks, DestroyDX, PollEndKey, InjectorPoints,
                Helpers, Hooks
  <2> QED
    BY <2>1
<1>2. CASE WNDProc \/ LoseDevice \/ PressEnd
  <2>1. /\ called' \in {"none", "null", "game", "menu"}
        /\ lost' \in BOOLEAN /\ endKey' \in BOOLEAN
    BY <1>2, Zenon DEF WNDProc, LoseDevice, PressEnd
  <2>2. UNCHANGED <<injector, rpc, setup, show_overlay, threadStarted, wndproc,
                    org_wndproc, returned, renderer>>
    BY <1>2 DEF WNDProc, LoseDevice, PressEnd
  <2> QED
    BY <2>1, <2>2
<1>3. CASE RenderThread
  <2> USE DEF Goto, RenderPoints
  <2>1. CASE CallEndScene \/ SetupDone \/ Hidden \/ BuffersFit \/ NotDrawn \/ CallReset
    <3>1. rpc' \in RenderPoints /\ UNCHANGED <<injector, menu, renderer, lost, endKey>>
      BY <2>1 DEF CallEndScene, SetupDone, Hidden, BuffersFit, NotDrawn, CallReset
    <3> QED
      BY <3>1
  <2>6. CASE SetupMenu
    BY <2>6 DEF SetupMenu
  <2>7. CASE AssignProc
    BY <2>7 DEF AssignProc
  <2>8. CASE InitBackends
    BY <2>8 DEF InitBackends
  <2>9. CASE FirstRender
    BY <2>9 DEF FirstRender
  <2>10. CASE FillBuffers \/ LockFailure \/ Draw
    <3>1. stateBlocks' \in {"none", "used", "left"} /\ rpc' \in RenderPoints
      BY <2>10 DEF FillBuffers, LockFailure, Draw
    <3>2. UNCHANGED <<injector, menu, g_pd3dDevice, buffer, bufferSize, need, font,
                      lost, endKey>>
      BY <2>10 DEF FillBuffers, LockFailure, Draw
    <3> QED
      BY <3>1, <3>2
  <2>11. CASE ResetOrg \/ ResetUnhooked
    <3>1. lost' \in BOOLEAN
      BY <2>11, Zenon DEF ResetOrg, ResetUnhooked
    <3>2. rpc' \in RenderPoints /\ UNCHANGED <<injector, menu, renderer, endKey>>
      BY <2>11 DEF ResetOrg, ResetUnhooked
    <3> QED
      BY <3>1, <3>2
  <2>2. CASE NewFrame
    <3>1. /\ rpc' \in RenderPoints /\ show_overlay' \in BOOLEAN
          /\ need' \in [Kinds -> 0..MaxNeed]
      BY <2>2, OverlayAssumption DEF NewFrame
    <3>2. g_FontTexture' \in BOOLEAN /\ texID' \in BOOLEAN /\ textures' \in Nat
      <4>1. CASE UNCHANGED font
        BY <4>1
      <4>2. CASE ~g_FontTexture /\ CreateFontsTexture
        BY <4>2, Created DEF FontInv
      <4> QED
        BY <2>2, <4>1, <4>2 DEF NewFrame, CreateDeviceObjects
    <3> QED
      BY <2>2, <3>1, <3>2 DEF NewFrame
  <2>3. ASSUME NEW k \in Kinds, ReplaceBuffer(k) PROVE TypeOK'
    <3>1. need[k] + Margin \in Sizes /\ 0 \in Sizes
      BY OverlayAssumption DEF Sizes
    <3> QED
      BY <2>3, <3>1 DEF ReplaceBuffer
  <2>4. CASE Invalidate
    <3>1. 0 \in Sizes
      BY OverlayAssumption DEF Sizes
    <3>2. textures' \in Nat
      <4>1. g_FontTexture => textures = 1
        BY DEF FontInv
      <4>2. textures' = textures \/ (g_FontTexture /\ textures' = textures - 1)
        BY <2>4 DEF Invalidate, InvalidateDeviceObjects
      <4> QED
        BY <4>1, <4>2
    <3>3. /\ buffer' \in [Kinds -> Sizes]
          /\ g_FontTexture' \in BOOLEAN /\ texID' \in BOOLEAN
      BY <2>4, <3>1 DEF Invalidate, InvalidateDeviceObjects
    <3> QED
      BY <2>4, <3>2, <3>3 DEF Invalidate
  <2>5. CASE Recreate
    <3>1. g_FontTexture' \in BOOLEAN /\ texID' \in BOOLEAN /\ textures' \in Nat
      <4>1. CASE UNCHANGED font
        BY <4>1
      <4>2. CASE CreateFontsTexture
        BY <2>5, <4>2, Created DEF FontInv, Recreate
      <4> QED
        BY <2>5, <4>1, <4>2 DEF Recreate, CreateDeviceObjects
    <3> QED
      BY <2>5, <3>1 DEF Recreate
  <2> QED
    BY <1>3, <2>1, <2>2, <2>3, <2>4, <2>5, <2>6, <2>7, <2>8, <2>9, <2>10, <2>11
       DEF RenderThread
<1>4. CASE UNCHANGED vars
  BY <1>4 DEF vars
<1> QED
  BY <1>1, <1>2, <1>3, <1>4 DEF Next

-----------------------------------------------------------------------------

\* What the renderer keeps, whichever thread the window's messages arrive on.
OverlayInv == TypeOK /\ DeviceInv /\ FontInv /\ BufferInv /\ BlockInv

\* The invariant of the renderer holds for every MaxNeed and Margin.
THEOREM RendererInvariance == Spec => []OverlayInv
<1>1. Init => OverlayInv
  BY InitInv DEF OverlayInv
<1>2. OverlayInv /\ [Next]_vars => OverlayInv'
  BY StepType, StepDevice, StepFont, StepBuffer, StepBlock DEF OverlayInv
<1> QED
  BY <1>1, <1>2, PTL DEF Spec

\* Every variable of the overlay has its type; textures are never released
\* more often than they were created.
THEOREM OverlayTypes == Spec => []TypeOK
<1>1. OverlayInv => TypeOK
  BY DEF OverlayInv
<1> QED
  BY <1>1, RendererInvariance, PTL

\* A hooked Reset finds no buffer and no texture of the overlay, for any
\* interleaving of frames, failures and lost devices, and fails because of the
\* overlay only after a buffer could not be locked.
THEOREM ResetUnhindered == Spec => []ResetFindsNothing
<1>1. OverlayInv => ResetFindsNothing
  BY DEF OverlayInv, FontInv, BufferInv, BlockInv, TypeOK, ResetFindsNothing,
         ResetSucceeds, Released
<1> QED
  BY <1>1, RendererInvariance, PTL

\* What a frame locks and draws from is large enough for it, for any needs.
THEOREM DrawingFits == Spec => []DrawsFit
<1>1. OverlayInv => DrawsFit
  BY DEF OverlayInv, BufferInv
<1> QED
  BY <1>1, RendererInvariance, PTL

\* ImGui never has the identifier of a released font texture.
THEOREM TextureAlive == Spec => []NoDanglingTexture
<1>1. OverlayInv => NoDanglingTexture
  BY DEF OverlayInv, FontInv, NoDanglingTexture
<1> QED
  BY <1>1, RendererInvariance, PTL

\* If the window's messages arrive on the rendering thread, each one is passed
\* to the game's procedure.
THEOREM MessagesPassedOn ==
    ASSUME SameThread
    PROVE  Spec => []MessagesReachGame
<1>1. Init => ProcInv
  BY InitInv
<1>2. OverlayInv /\ ProcInv /\ [Next]_vars => ProcInv'
  BY StepProc DEF OverlayInv
<1>3. ProcInv => MessagesReachGame
  BY DEF ProcInv
<1> QED
  BY <1>1, <1>2, <1>3, RendererInvariance, PTL DEF Spec

=============================================================================
