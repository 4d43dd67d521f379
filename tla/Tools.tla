------------------------------- MODULE Tools --------------------------------
(***************************************************************************)
(* Form2 of main.cpp, the form with the tools, from the frame in which the *)
(* user is let in: the tabs, the check boxes, the hotkeys, the auto pilot, *)
(* and the thread that BooleanFunct starts, composed with the window's     *)
(* input, the notifications and the patches.                               *)
(*                                                                         *)
(* A frame runs from one EndScene to the next on the rendering thread; the *)
(* user's keys and the mouse change between frames.  Everything happens in *)
(* the tab MAIN: in the tab INFO nothing of it is called.  What kind of    *)
(* user, and of game, it is is the scenario, chosen at the start.          *)
(***************************************************************************)
EXTENDS Input, Notifications, Patches

CONSTANTS
    Scenarios,          \* records: images, earlier, widgets, keys, mouse,
                        \* roams, gameCells, busy
    GameSlots,          \* slots a busy game writes
    Listed,             \* values the thread of ANTI ASO replaces
    Unlisted,           \* other values of the slots
    Skills,             \* what the entries of the list of skills stand for
    MaxNotifications    \* the user presses no key while there are more

VARIABLES
    scenario,
    keys,           \* the keys the user holds down
    head,           \* head_selected
    flags,          \* the check boxes that are on
    clicking,       \* the left button was down in the last frame
    lastState,      \* lastAltState, lastF8State, lastF9State: those TRUE
    wasPressed, isToggled, skillBytes,
    due,            \* more than 100 ms since lastUpdate
    started,        \* the thread of ANTI ASO runs
    slots,          \* what the game keeps at the addresses it watches
    position,       \* where in its list of addresses it is
    buffer,         \* what it has read there
    answers         \* how often each key or chord has toggled since pressed

pilotVars == <<lastState, wasPressed, isToggled, skillBytes, due>>
threadVars == <<started, slots, position, buffer>>
toolVars == <<scenario, keys, head, flags, clicking, pilotVars, threadVars, answers>>
vars == <<inputVars, notificationVars, patchVars, toolVars>>

\* The hotkeys and the boxes they toggle, in the order they are looked at.  The
\* tab INFO names the left Alt key for AUTO SPACE; Form2 asks for the right one.
HotKeys == << <<"RMENU", "space">>, <<"F8", "autored">>, <<"F9", "vend">> >>

ASSUME SubjectsAssumption == {"space", "autored", "vend", "pilot"} \subseteq Subjects

Nothing == "nothing"

\* The slots are \hA8 bytes apart; the list has one of them twice and the next
\* one not at all.
Slots == 1..15
Addresses == <<1, 2, 3, 4, 5, 6, 7, 7, 9, 10, 11, 12, 13, 14, 15>>
Replacement == "ffffffff"

Off32 == <<\hFF, \hFF, \hFF, \hFF>>

Init ==
    /\ scenario \in Scenarios
    /\ InputInit /\ held \subseteq scenario.mouse
    /\ NotificationsInit(scenario.earlier)
    /\ PatchesInit(scenario.images)
    /\ keys = {}
    /\ head = "INFO"
    /\ flags = {}
    /\ clicking = FALSE
    /\ lastState = {} /\ wasPressed = FALSE /\ isToggled = FALSE
    /\ skillBytes = <<>> /\ due = FALSE
    /\ started = FALSE
    /\ slots = [s \in Slots |-> Unlisted]
    /\ position = 1
    /\ buffer = Nothing
    /\ answers = [k \in {"RMENU", "F8", "F9", "chord"} |-> 0]

-----------------------------------------------------------------------------
(* The frame *)

Chord(down) == down \cap {"LMENU", "RMENU"} # {} /\ "Z" \in down

Flip(set, x) == IF x \in set THEN set \ {x} ELSE set \cup {x}

\* A widget is clicked when the left button goes up over it.
Clicked == {Nothing} \cup
    IF clicking /\ 0 \notin MouseDown THEN scenario.widgets ELSE {}

\* The entries of HotKeys whose key has gone down since the last frame.
\* Mutant: the state of the last frame is not compared.
EdgesHeld == {h \in Range(HotKeys) : h[1] \in keys}

Edges == {h \in Range(HotKeys) : h[1] \in keys /\ h[1] \notin lastState}

ChordEdge == Chord(keys) /\ ~wasPressed

\* The cells after the periodic writes of the auto pilot.
\* Mutant: nothing is written when it is off.
PilotWritesOnlyOn(cs, on, skill) ==
    IF on THEN [cs EXCEPT !["SKILLHEX"] = Written(@, skill),
                          !["aba8"] = Written(@, <<1>>),
                          !["abac"] = Written(@, <<1>>),
                          !["abb0"] = <<100, 0, 0, 0>>,
                          !["abb8"] = <<231, 3, 0, 0>>,
                          !["abbc"] = <<100, 0, 0, 0>>]
    ELSE cs

PilotWrites(cs, on, skill) ==
    IF on THEN [cs EXCEPT !["SKILLHEX"] = Written(@, skill),
                          !["aba8"] = Written(@, <<1>>),
                          !["abac"] = Written(@, <<1>>),
                          !["abb0"] = <<100, 0, 0, 0>>,
                          !["abb8"] = <<231, 3, 0, 0>>,
                          !["abbc"] = <<100, 0, 0, 0>>]
    ELSE [cs EXCEPT !["aba8"] = Written(@, <<0>>),
                    !["abac"] = Off32, !["abb0"] = Off32,
                    !["abb8"] = Off32, !["abbc"] = Off32]

\* A toggle is counted for its key, up to 2.
Answer(toggled) ==
    answers' = [k \in DOMAIN answers |->
                  IF k \in toggled /\ answers[k] < 2 THEN answers[k] + 1
                                                     ELSE answers[k]]

\* BooleanFunct, with the flags as the last frame has left them.  Other code
\* of the frame writes cells behind it: see Main.
BooleanFunct ==
    /\ started' = (started \/ "antingongo" \in flags)
    /\ image' = PatchedImage(flags)

\* The rest of the tab MAIN, where w is clicked.
Main(w) == \E skill \in IF w = "combo" THEN Skills ELSE {skillBytes} :
    LET cs      == PatchedCells(flags)
        clicked == IF w \in Boxes THEN Flip(flags, w) ELSE flags
        toggled == {h[2] : h \in Edges}
        flipped == (clicked \ toggled) \cup (toggled \ clicked)
        chorded == ChordEdge # isToggled
        on      == (w = "pilot") # chorded
        chosen  == IF w = "combo" THEN [cs EXCEPT !["SKILLHEX"] = Written(@, skill)]
                                  ELSE cs
        drawn   == RenderNotifications(notifications)
        tell(l, h) == IF h \in Edges THEN ShowNotification(l, h[2]) ELSE l
        told    == tell(tell(tell(drawn, HotKeys[1]), HotKeys[2]), HotKeys[3])
    IN  /\ BooleanFunct
        /\ shown' = drawn
        /\ notifications' = IF ChordEdge THEN ShowNotification(told, "pilot") ELSE told
        /\ flags' = flipped
        /\ lastState' = keys \cap {h[1] : h \in Range(HotKeys)}
        /\ skillBytes' = skill
        /\ wasPressed' = Chord(keys)
        /\ isToggled' = on
        /\ Answer({h[1] : h \in Edges} \cup IF ChordEdge THEN {"chord"} ELSE {})
        /\ due' = FALSE
        /\ cells' = IF due THEN PilotWrites(chosen, on, skill) ELSE chosen
        /\ UNCHANGED <<address, line, crashed, slots, position, buffer>>

\* BooleanFunct writes to an address that was not found.
Crash ==
    /\ crashed' = TRUE
    /\ UNCHANGED <<image, address, line, cells, notificationVars, flags,
                   pilotVars, threadVars, answers>>

Frame ==
    /\ ScriptDone
    /\ \E w \in Clicked :
         /\ w \notin {"MAIN", "INFO"} /\ w # Nothing => head = "MAIN"
         /\ head' = IF w \in {"MAIN", "INFO"} THEN w ELSE head
         /\ \/ head' = "MAIN" /\ AllFound /\ Main(w)
            \/ head' = "MAIN" /\ ~AllFound /\ Crash
            \/ /\ head' = "INFO"
               /\ UNCHANGED <<patchVars, notificationVars, flags, pilotVars,
                              threadVars, answers>>
    /\ clicking' = (0 \in MouseDown)
    /\ UNCHANGED <<scenario, keys, inputVars>>

\* The frame in which the user is let in calls ScriptCaving.
ScriptCaving ==
    /\ Search \/ BypassSkills
    /\ UNCHANGED <<inputVars, notificationVars, toolVars>>

\* GetTickCount moves on.
Tick ==
    /\ ScriptDone /\ ~due
    /\ due' = TRUE
    /\ UNCHANGED <<inputVars, notificationVars, patchVars, scenario, keys, head,
                   flags, clicking, lastState, wasPressed, isToggled, skillBytes,
                   threadVars, answers>>

NotificationExpires ==
    /\ ScriptDone
    /\ Expire
    /\ UNCHANGED <<inputVars, patchVars, toolVars>>

-----------------------------------------------------------------------------
(* The thread of ANTI ASO *)

Advance == position' = (position % Len(Addresses)) + 1

\* memcpy and the comparisons.
Read ==
    /\ started /\ ~crashed /\ buffer = Nothing
    /\ LET value == slots[Addresses[position]]
       IN  IF value \in Listed THEN buffer' = value /\ UNCHANGED position
                               ELSE Advance /\ UNCHANGED buffer
    /\ UNCHANGED <<started, slots>>

\* The slot is replaced, whatever it holds by now.
\* Mutant: only the first of the values is looked for.
ReplaceFirst ==
    /\ started /\ ~crashed /\ buffer # Nothing
    /\ slots' = IF buffer = CHOOSE v \in Listed : TRUE
                  THEN [slots EXCEPT ![Addresses[position]] = Replacement] ELSE slots
    /\ buffer' = Nothing
    /\ Advance
    /\ UNCHANGED started

Replace ==
    /\ started /\ ~crashed /\ buffer # Nothing
    /\ slots' = [slots EXCEPT ![Addresses[position]] = Replacement]
    /\ buffer' = Nothing
    /\ Advance
    /\ UNCHANGED started

Watch ==
    /\ Read \/ Replace
    /\ UNCHANGED <<inputVars, notificationVars, patchVars, scenario, keys, head,
                   flags, clicking, pilotVars, answers>>

-----------------------------------------------------------------------------
(* The user and the game *)

Mouse ==
    /\ ScriptDone
    /\ \/ \E b \in scenario.mouse : Press(b) \/ Release(b)
       \/ scenario.roams /\ (Move \/ LoseCapture)
    /\ UNCHANGED <<notificationVars, patchVars, toolVars>>

\* A key, or the chord it completes, has no answer yet when it goes down.
PressKey(k) ==
    /\ k \notin keys
    /\ keys' = keys \cup {k}
    /\ answers' = [a \in DOMAIN answers |->
                     IF a = k \/ (a = "chord" /\ Chord(keys') /\ ~Chord(keys))
                       THEN 0 ELSE answers[a]]

ReleaseKey(k) ==
    /\ k \in keys
    /\ keys' = keys \ {k}
    /\ UNCHANGED answers

Keyboard ==
    /\ ScriptDone
    /\ \E k \in scenario.keys :
         \/ Len(notifications) <= MaxNotifications /\ PressKey(k)
         \/ ReleaseKey(k)
    /\ UNCHANGED <<inputVars, notificationVars, patchVars, scenario, head, flags,
                   clicking, pilotVars, threadVars>>

\* The game writes its own data: a cell, or a slot.
GameWritesCell ==
    /\ ScriptDone
    /\ \E c \in scenario.gameCells :
         cells' = [cells EXCEPT ![c] = <<Game, Game, Game, Game>>]
    /\ UNCHANGED <<inputVars, notificationVars, image, address, line, crashed, toolVars>>

GameWritesSlot ==
    /\ ScriptDone
    /\ scenario.busy
    /\ \E s \in GameSlots, v \in Listed \cup {Unlisted} :
         slots' = [slots EXCEPT ![s] = v]
    /\ UNCHANGED <<inputVars, notificationVars, patchVars, scenario, keys, head,
                   flags, clicking, pilotVars, started, position, buffer, answers>>

Next ==
    \/ ScriptCaving \/ Frame \/ Tick \/ NotificationExpires \/ Watch
    \/ Mouse \/ Keyboard \/ GameWritesCell \/ GameWritesSlot

\* The game renders, time passes, and the thread is scheduled.
Fairness ==
    /\ WF_vars(ScriptCaving) /\ WF_vars(Frame) /\ WF_vars(Tick) /\ WF_vars(Watch)

Spec == Init /\ [][Next]_vars /\ Fairness

-----------------------------------------------------------------------------

\* The notifications of the tab MAIN: a frame draws those whose time has not
\* passed, in their order; erasing one neither hides nor keeps another.
NotificationsRendered ==
    [][Frame /\ head' = "MAIN" /\ ~crashed' => Rendered(notifications, shown')]_vars

\* The hotkeys and the chord of Form2: a key held down over many frames, and
\* over changes of the tab, toggles once at most.
OnePressOneToggle == \A k \in DOMAIN answers : answers[k] <= 1

\* BooleanFunct: if the tab MAIN stays open and the boxes are left alone, every
\* place comes to hold what its box says, and a place of a box that is off
\* what the game had there.
PatchesFollow ==
    \/ []<>(head # "MAIN" \/ crashed)
    \/ []<><<flags' # flags>>_vars
    \/ []<>PlacesFollow(flags)

PilotSet ==
    IF isToggled
      THEN /\ cells["aba8"][1] = 1 /\ cells["abac"][1] = 1
           /\ cells["abb0"] = <<100, 0, 0, 0>> /\ cells["abb8"] = <<231, 3, 0, 0>>
           /\ cells["abbc"] = <<100, 0, 0, 0>>
           /\ SubSeq(cells["SKILLHEX"], 1, Len(skillBytes)) = skillBytes
      ELSE /\ cells["aba8"][1] = 0
           /\ \A c \in {"abac", "abb0", "abb8", "abbc"} : cells[c] = Off32

\* The auto pilot of Form2: if the tab MAIN stays open and the auto pilot is
\* left alone, its cells come to say so, and the skill chosen last with them,
\* whatever the game writes in between.
PilotFollows ==
    \/ []<>(head # "MAIN" \/ crashed)
    \/ []<><<isToggled' # isToggled>>_vars
    \/ []<>PilotSet

\* The thread of ANTI ASO, from the time it is started: a value of its list
\* does not stay in a slot.  The slot that is missing from its addresses, 8, is
\* left out.
ListedValueReplaced ==
    \A s \in GameSlots \ {8} :
        (started /\ ~crashed /\ slots[s] \in Listed) ~> (crashed \/ slots[s] \notin Listed)

=============================================================================
