------------------------------- MODULE Input --------------------------------
(***************************************************************************)
(* imgui_impl_win32.cpp and WNDProc on the mouse buttons: the messages of  *)
(* the game's window, the buttons ImGui believes to be down, and the mouse *)
(* capture the handler takes so that it sees a button go up outside of the *)
(* window.                                                                 *)
(*                                                                         *)
(* The window gets a button's message when the mouse is over it or it has  *)
(* the capture.  The capture may be lost at any time, to another window or *)
(* because the game releases it; no message about that is handled.         *)
(***************************************************************************)
EXTENDS Integers, FiniteSets

CONSTANT Buttons    \* the mouse buttons, 0 is the left one

VARIABLES
    held,       \* buttons the user holds down
    over,       \* the mouse is over the window
    MouseDown,  \* io.MouseDown, the buttons that are TRUE
    capture,    \* the window has the capture
    robbed      \* the capture was lost, and a button has been down since

inputVars == <<held, over, MouseDown, capture, robbed>>

\* Buttons may be down when the handler is installed.
InputInit ==
    /\ held \in SUBSET Buttons
    /\ over = TRUE
    /\ MouseDown = {}
    /\ capture = FALSE
    /\ robbed = FALSE

Delivered == capture \/ over

\* Mutant: the capture is not taken.
ButtonDownUncaptured(button) ==
    /\ MouseDown' = MouseDown \cup {button}
    /\ UNCHANGED capture

\* The messages ..BUTTONDOWN and ..BUTTONDBLCLK.
ButtonDown(button) ==
    /\ MouseDown' = MouseDown \cup {button}
    /\ capture' = (capture \/ MouseDown = {})

\* Mutant: the capture is released with the first button that goes up.
ButtonUpReleasing(button) ==
    /\ MouseDown' = MouseDown \ {button}
    /\ capture' = FALSE

\* Mutant: the capture is never released.
ButtonUpKeeping(button) ==
    /\ MouseDown' = MouseDown \ {button}
    /\ UNCHANGED capture

\* The messages ..BUTTONUP.
ButtonUp(button) ==
    /\ MouseDown' = MouseDown \ {button}
    /\ capture' = (capture /\ MouseDown' # {})

Press(button) ==
    /\ button \notin held
    /\ held' = held \cup {button}
    /\ IF Delivered THEN ButtonDown(button) ELSE UNCHANGED <<MouseDown, capture>>
    /\ UNCHANGED <<over, robbed>>

Release(button) ==
    /\ button \in held
    /\ held' = held \ {button}
    /\ IF Delivered THEN ButtonUp(button) ELSE UNCHANGED <<MouseDown, capture>>
    /\ robbed' = (robbed /\ MouseDown' # {})
    /\ UNCHANGED over

\* The mouse leaves the window or comes back.
Move ==
    /\ over' = ~over
    /\ UNCHANGED <<held, MouseDown, capture, robbed>>

LoseCapture ==
    /\ capture
    /\ capture' = FALSE
    /\ robbed' = TRUE
    /\ UNCHANGED <<held, over, MouseDown>>

-----------------------------------------------------------------------------

\* The buttons of the window procedure: one that went up was seen to go up,
\* wherever the mouse was then, unless the capture was lost; and a loss is made
\* good once all buttons have been seen up.
ReleasesSeen == ~robbed => MouseDown \subseteq held

\* The mouse capture: it ends with the last button that ImGui saw go down, and
\* those that were down when the handler was installed do not keep it.
CaptureReleased == capture => MouseDown # {}

=============================================================================
