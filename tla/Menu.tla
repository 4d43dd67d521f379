-------------------------------- MODULE Menu --------------------------------
(***************************************************************************)
(* The activation screens of main.cpp.  The game's render thread draws one *)
(* frame per EndScene (Menu::Render) and in it Form4, then one of Form3,   *)
(* Form2 and Form1.  Forms 4, 3 and 1 each launch a validator thread with  *)
(* std::async the first time they are drawn; the validators and the render *)
(* thread share two atomics and the plain flag of authenticator.h.         *)
(*                                                                         *)
(* A condition that reads isHWIDValidationCompleted and then isHWIDValid   *)
(* is one step: the first flag is never cleared, so reading it TRUE early  *)
(* or at the second read gives the same result.                            *)
(***************************************************************************)
EXTENDS Naturals

CONSTANTS
    MaxClicks,  \* maxClicks of Form3
    ClickCap    \* bound of clickCounter, which a failing MessageBox lets grow

ASSUME ClickAssumption ==
    /\ MaxClicks \in Nat \ {0}
    /\ ClickCap \in Nat
    /\ MaxClicks <= ClickCap

VARIABLES
    isHWIDValidationCompleted, isHWIDValid,     \* the two atomics
    isHWIDValidated,    \* authenticator.h's cache of a positive answer
    Form1Show, Form2Show, Form3Show, Form4Show, \* which forms to draw
    show_overlay,       \* EndScene calls Menu::Render
    threadStarted,      \* the first call of Menu::Render was made
    clickCounter,       \* Send clicks with acceptable fields
    activated, deactivated,     \* Form3's notifications already given
    notice,             \* the last notification shown
    caves,              \* calls of ScriptCaving
    rpc,                \* where the render thread is in its frame
    vpc,                \* where each validator thread is
    found,              \* what each validator's IsHWIDValid returned
    listed,             \* the published list holds this computer's SID
    antiCheat,          \* the thread of StartAntiCheatCheck
    phase               \* the process

flags == <<isHWIDValidationCompleted, isHWIDValid, isHWIDValidated>>
forms == <<Form1Show, Form2Show, Form3Show, Form4Show>>
told  == <<activated, deactivated, notice>>
vars  == <<flags, forms, told, show_overlay, threadStarted, clickCounter,
           caves, rpc, vpc, found, listed, antiCheat, phase>>

\* The form that launches a validator names it.
Validators == {"Form4", "Form3", "Form1"}
\* Form4 launches ValidateHWID itself, the others ValidateHWIDPeriodically.
Periodic   == {"Form3", "Form1"}

Notices == {"none", "HWID Valid!", "HWID Invalid!", "Error", "Message sent!",
            "Message Failed! Try again!", "Invalid User"}

ClicksOK == clickCounter \in 0..ClickCap

FlagsOK ==
    /\ isHWIDValidationCompleted \in BOOLEAN
    /\ isHWIDValid \in BOOLEAN
    /\ isHWIDValidated \in BOOLEAN
    /\ Form1Show \in BOOLEAN
    /\ Form2Show \in BOOLEAN
    /\ Form3Show \in BOOLEAN
    /\ Form4Show \in BOOLEAN
    /\ show_overlay \in BOOLEAN
    /\ threadStarted \in BOOLEAN
    /\ activated \in BOOLEAN
    /\ deactivated \in BOOLEAN
    /\ listed \in BOOLEAN

ThreadsOK ==
    /\ rpc \in {"idle", "Form4", "Form3", "Form3Buttons", "Form2", "Form1"}
    /\ vpc \in [Validators -> {"new", "loop", "cache", "download", "store",
                               "complete", "sleep", "done"}]
    /\ found \in [Validators -> BOOLEAN]
    /\ antiCheat \in {"new", "checking", "done"}
    /\ phase \in {"run", "exited", "terminated"}

TypeOK ==
    /\ FlagsOK
    /\ ThreadsOK
    /\ ClicksOK
    /\ notice \in Notices
    /\ caves \in {0, 1}

Init ==
    /\ isHWIDValidationCompleted = FALSE
    /\ isHWIDValid = FALSE
    /\ isHWIDValidated = FALSE
    /\ Form1Show = FALSE
    /\ Form2Show = FALSE
    /\ Form3Show = FALSE
    /\ Form4Show = TRUE
    /\ show_overlay = TRUE
    /\ threadStarted = FALSE
    /\ clickCounter = 0
    /\ activated = FALSE
    /\ deactivated = FALSE
    /\ notice = "none"
    /\ caves = 0
    /\ rpc = "idle"
    /\ vpc = [v \in Validators |-> "new"]
    /\ found = [v \in Validators |-> FALSE]
    /\ listed \in BOOLEAN
    /\ antiCheat = "new"
    /\ phase = "run"

Running == phase = "run"

-----------------------------------------------------------------------------
(* The render thread. *)

\* Entering a form launches its validator unless an earlier frame did: the
\* future is a function-local static.
EnterForm(f) ==
    /\ rpc' = f
    /\ vpc' = IF f \in Validators /\ vpc[f] = "new"
              THEN [vpc EXCEPT ![f] = IF f \in Periodic THEN "loop" ELSE "cache"]
              ELSE vpc

\* Mutant: the welcome screen is tested before the tools.
SelectedWelcomeFirst(form3, form2, form1) ==
    CASE form3                          -> "Form3"
      [] ~form3 /\ form1                -> "Form1"
      [] ~form3 /\ ~form1 /\ form2      -> "Form2"
      [] ~form3 /\ ~form1 /\ ~form2     -> "idle"

\* Menu::Render's choice after Form4.
Selected(form3, form2, form1) ==
    CASE form3                          -> "Form3"
      [] ~form3 /\ form2                -> "Form2"
      [] ~form3 /\ ~form2 /\ form1      -> "Form1"
      [] ~form3 /\ ~form2 /\ ~form1     -> "idle"

\* The first call only starts the anti-cheat thread.
FirstCall ==
    /\ Running
    /\ show_overlay
    /\ ~threadStarted
    /\ threadStarted' = TRUE
    /\ antiCheat' = "checking"
    /\ UNCHANGED <<flags, forms, told, show_overlay, clickCounter, caves, rpc,
                   vpc, found, listed, phase>>

\* Mutant: EndScene does not look at show_overlay.
StartFrameAlways ==
    /\ Running
    /\ threadStarted
    /\ rpc = "idle"
    /\ EnterForm(IF Form4Show THEN "Form4"
                 ELSE Selected(Form3Show, Form2Show, Form1Show))
    /\ UNCHANGED <<flags, forms, told, show_overlay, threadStarted,
                   clickCounter, caves, found, listed, antiCheat, phase>>

StartFrame ==
    /\ Running
    /\ show_overlay
    /\ threadStarted
    /\ rpc = "idle"
    /\ EnterForm(IF Form4Show THEN "Form4"
                 ELSE Selected(Form3Show, Form2Show, Form1Show))
    /\ UNCHANGED <<flags, forms, told, show_overlay, threadStarted,
                   clickCounter, caves, found, listed, antiCheat, phase>>

Form4Wait ==
    /\ Running
    /\ rpc = "Form4"
    /\ ~isHWIDValidationCompleted
    /\ Form4Show' = TRUE
    /\ Form3Show' = FALSE
    /\ Form2Show' = FALSE
    /\ EnterForm(Selected(FALSE, FALSE, Form1Show))
    /\ UNCHANGED <<flags, told, Form1Show, show_overlay, threadStarted,
                   clickCounter, caves, found, listed, antiCheat, phase>>

Form4Valid ==
    /\ Running
    /\ rpc = "Form4"
    /\ isHWIDValidationCompleted
    /\ isHWIDValid
    /\ Form1Show' = TRUE
    /\ Form3Show' = FALSE
    /\ Form4Show' = FALSE
    /\ EnterForm(Selected(FALSE, Form2Show, TRUE))
    /\ UNCHANGED <<flags, told, Form2Show, show_overlay, threadStarted,
                   clickCounter, caves, found, listed, antiCheat, phase>>

\* Mutant: the verdict is taken before the validation has completed.
Form4InvalidEarly ==
    /\ Running
    /\ rpc = "Form4"
    /\ ~isHWIDValid
    /\ Form3Show' = TRUE
    /\ Form4Show' = FALSE
    /\ EnterForm("Form3")
    /\ UNCHANGED <<flags, told, Form1Show, Form2Show, show_overlay,
                   threadStarted, clickCounter, caves, found, listed,
                   antiCheat, phase>>

Form4Invalid ==
    /\ Running
    /\ rpc = "Form4"
    /\ isHWIDValidationCompleted
    /\ ~isHWIDValid
    /\ Form3Show' = TRUE
    /\ Form4Show' = FALSE
    /\ EnterForm("Form3")
    /\ UNCHANGED <<flags, told, Form1Show, Form2Show, show_overlay,
                   threadStarted, clickCounter, caves, found, listed,
                   antiCheat, phase>>

\* Form3 shows the status and gives each notification about it once.
Form3Status ==
    /\ Running
    /\ rpc = "Form3"
    /\ LET valid   == isHWIDValidationCompleted /\ isHWIDValid
           invalid == isHWIDValidationCompleted /\ ~isHWIDValid
       IN  /\ notice' = IF valid /\ ~activated THEN "HWID Valid!"
                        ELSE IF invalid /\ ~deactivated THEN "HWID Invalid!"
                        ELSE notice
           /\ activated' = (valid \/ (~invalid /\ activated))
           /\ deactivated' = (deactivated \/ invalid)
    /\ rpc' = "Form3Buttons"
    /\ UNCHANGED <<flags, forms, show_overlay, threadStarted, clickCounter,
                   caves, vpc, found, listed, antiCheat, phase>>

\* No button pressed, or Send pressed with empty or unacceptable fields.
Form3NoSend ==
    /\ Running
    /\ rpc = "Form3Buttons"
    /\ notice' \in {notice, "Error"}
    /\ rpc' = "idle"
    /\ UNCHANGED <<flags, forms, activated, deactivated, show_overlay,
                   threadStarted, clickCounter, caves, vpc, found, listed,
                   antiCheat, phase>>

\* The message box at the last click is answered (it only has OK): exit(-1).
Form3Exit ==
    /\ Running
    /\ rpc = "Form3Buttons"
    /\ clickCounter < ClickCap
    /\ clickCounter' = clickCounter + 1
    /\ clickCounter' >= MaxClicks
    /\ phase' = "exited"
    /\ UNCHANGED <<flags, forms, told, show_overlay, threadStarted, caves, rpc,
                   vpc, found, listed, antiCheat>>

\* SendLoginRequest, below the limit or when the message box could not be
\* shown.  A runtime_error leaves the noexcept Menu::Render: terminate().
Form3Send ==
    /\ Running
    /\ rpc = "Form3Buttons"
    /\ clickCounter < ClickCap
    /\ clickCounter' = clickCounter + 1
    /\ \/ /\ notice' \in {"Message sent!", "Message Failed! Try again!"}
          /\ rpc' = "idle"
          /\ phase' = phase
       \/ /\ phase' = "terminated"
          /\ UNCHANGED <<notice, rpc>>
    /\ UNCHANGED <<flags, forms, activated, deactivated, show_overlay,
                   threadStarted, caves, vpc, found, listed, antiCheat>>

\* Mutant: Proceed only asks whether the validation has completed.
Form3ProceedUnchecked ==
    /\ Running
    /\ rpc = "Form3Buttons"
    /\ isHWIDValidationCompleted
    /\ Form3Show' = FALSE
    /\ Form1Show' = TRUE
    /\ Form4Show' = FALSE
    /\ rpc' = "idle"
    /\ UNCHANGED <<flags, told, Form2Show, show_overlay, threadStarted,
                   clickCounter, caves, vpc, found, listed, antiCheat, phase>>

Form3Proceed ==
    /\ Running
    /\ rpc = "Form3Buttons"
    /\ isHWIDValidationCompleted
    /\ isHWIDValid
    /\ Form3Show' = FALSE
    /\ Form1Show' = TRUE
    /\ Form4Show' = FALSE
    /\ rpc' = "idle"
    /\ UNCHANGED <<flags, told, Form2Show, show_overlay, threadStarted,
                   clickCounter, caves, vpc, found, listed, antiCheat, phase>>

\* Form2 and a Form1 without a click end the frame.
EndFrame ==
    /\ Running
    /\ rpc \in {"Form2", "Form1"}
    /\ rpc' = "idle"
    /\ UNCHANGED <<flags, forms, told, show_overlay, threadStarted,
                   clickCounter, caves, vpc, found, listed, antiCheat, phase>>

Form1Close ==
    /\ Running
    /\ rpc = "Form1"
    /\ show_overlay' = FALSE
    /\ rpc' = "idle"
    /\ UNCHANGED <<flags, forms, told, threadStarted, clickCounter, caves, vpc,
                   found, listed, antiCheat, phase>>

Form1Success ==
    /\ Running
    /\ rpc = "Form1"
    /\ IF isHWIDValidationCompleted /\ isHWIDValid
       THEN /\ caves' = caves + 1
            /\ Form2Show' = TRUE
            /\ notice' = notice
       ELSE /\ notice' = "Invalid User"
            /\ UNCHANGED <<caves, Form2Show>>
    /\ rpc' = "idle"
    /\ UNCHANGED <<flags, Form1Show, Form3Show, Form4Show, activated,
                   deactivated, show_overlay, threadStarted, clickCounter, vpc,
                   found, listed, antiCheat, phase>>

Render ==
    \/ FirstCall \/ StartFrame
    \/ Form4Wait \/ Form4Valid \/ Form4Invalid
    \/ Form3Status \/ Form3NoSend \/ Form3Exit \/ Form3Send \/ Form3Proceed
    \/ Form1Close \/ Form1Success \/ EndFrame

-----------------------------------------------------------------------------
(* The validator threads. *)

frameVars == <<forms, told, show_overlay, threadStarted, clickCounter, caves,
               rpc, listed, antiCheat, phase>>

Goto(v, label) == vpc' = [vpc EXCEPT ![v] = label]

\* while (!isHWIDValid)
LoopTest(v) ==
    /\ Running
    /\ vpc[v] = "loop"
    /\ Goto(v, IF isHWIDValid THEN "done" ELSE "cache")
    /\ UNCHANGED <<flags, frameVars, found>>

\* IsHWIDValid answers TRUE at once when an earlier call found the SID.
CheckCache(v) ==
    /\ Running
    /\ vpc[v] = "cache"
    /\ IF isHWIDValidated
       THEN /\ found' = [found EXCEPT ![v] = TRUE]
            /\ Goto(v, "store")
       ELSE /\ Goto(v, "download")
            /\ UNCHANGED found
    /\ UNCHANGED <<flags, frameVars>>

\* IsHWIDPresent and the rest of IsHWIDValid, with its answer.
Answer(v, present) ==
    /\ Running
    /\ vpc[v] = "download"
    /\ found' = [found EXCEPT ![v] = present]
    /\ isHWIDValidated' = (isHWIDValidated \/ present)
    /\ Goto(v, "store")
    /\ UNCHANGED <<isHWIDValidationCompleted, isHWIDValid, frameVars>>

\* The list was downloaded and holds the SID.
DownloadHit(v) == listed /\ Answer(v, TRUE)

\* The SID was not available: the search for the empty string succeeds.
EmptySidHit(v) == Answer(v, TRUE)

\* The list does not hold the SID, or the download failed and left "".
DownloadMiss(v) == Answer(v, FALSE)

StoreValid(v) ==
    /\ Running
    /\ vpc[v] = "store"
    /\ isHWIDValid' = found[v]
    /\ Goto(v, "complete")
    /\ UNCHANGED <<isHWIDValidationCompleted, isHWIDValidated, frameVars, found>>

\* Mutant: only a positive answer completes the validation.
StoreCompletedIfFound(v) ==
    /\ Running
    /\ vpc[v] = "complete"
    /\ isHWIDValidationCompleted' = (isHWIDValidationCompleted \/ found[v])
    /\ Goto(v, IF v \in Periodic THEN "sleep" ELSE "done")
    /\ UNCHANGED <<isHWIDValid, isHWIDValidated, frameVars, found>>

\* Mutant: no validator tries again.
StoreCompletedOnce(v) ==
    /\ Running
    /\ vpc[v] = "complete"
    /\ isHWIDValidationCompleted' = TRUE
    /\ Goto(v, "done")
    /\ UNCHANGED <<isHWIDValid, isHWIDValidated, frameVars, found>>

StoreCompleted(v) ==
    /\ Running
    /\ vpc[v] = "complete"
    /\ isHWIDValidationCompleted' = TRUE
    /\ Goto(v, IF v \in Periodic THEN "sleep" ELSE "done")
    /\ UNCHANGED <<isHWIDValid, isHWIDValidated, frameVars, found>>

Wake(v) ==
    /\ Running
    /\ vpc[v] = "sleep"
    /\ Goto(v, "loop")
    /\ UNCHANGED <<flags, frameVars, found>>

Validate(v) ==
    \/ LoopTest(v) \/ CheckCache(v)
    \/ DownloadHit(v) \/ EmptySidHit(v) \/ DownloadMiss(v)
    \/ StoreValid(v) \/ StoreCompleted(v) \/ Wake(v)

-----------------------------------------------------------------------------
(* The environment: the developer edits the list; AntiCheat::Check runs    *)
(* once and may terminate the process.                                     *)

EditList ==
    /\ Running
    /\ listed' = ~listed
    /\ UNCHANGED <<flags, forms, told, show_overlay, threadStarted,
                   clickCounter, caves, rpc, vpc, found, antiCheat, phase>>

AntiCheatCheck ==
    /\ Running
    /\ antiCheat = "checking"
    /\ antiCheat' = "done"
    /\ phase' \in {"run", "terminated"}
    /\ UNCHANGED <<flags, forms, told, show_overlay, threadStarted,
                   clickCounter, caves, rpc, vpc, found, listed>>

Next == Render \/ (\E v \in Validators : Validate(v)) \/ EditList \/ AntiCheatCheck

Spec == Init /\ [][Next]_vars

\* The game keeps rendering, threads keep running, and a download that can
\* succeed again and again does so once.
Fairness ==
    /\ WF_vars(Render)
    /\ \A v \in Validators : WF_vars(Validate(v)) /\ SF_vars(DownloadHit(v))

FairSpec == Spec /\ Fairness

-----------------------------------------------------------------------------
(* Properties. *)

\* SUCCESS on the welcome screen is never answered "Invalid User": every way
\* to Form1 leads through a stored positive answer, and no validator that
\* still runs then stores a negative one over it.
NeverRefused == notice # "Invalid User"

\* The game code is patched (ScriptCaving) at most once, and the tools of
\* Form2 are shown exactly when it was: Menu::Render prefers Form2 to Form1.
UnlockedOnce == caves = IF Form2Show THEN 1 ELSE 0

\* isHWIDValidated is a plain bool: no validator may write it (the end of a
\* download) while another one reads or writes it.
NoRaceOnCache ==
    \A v, w \in Validators :
        v # w => ~(vpc[v] = "download" /\ vpc[w] \in {"cache", "download"})

\* An answer stored as valid is never overwritten by the answer of another
\* validator that started its download earlier.
GrantNotRevoked == [][isHWIDValid => isHWIDValid']_vars

\* The request form appears only when the first validation has ended and its
\* answer was negative, never because it has not ended yet.
RequestOnlyAfterDenial ==
    [][~Form3Show /\ Form3Show' => vpc["Form4"] = "done" /\ ~found["Form4"]]_vars

\* The four flags, two atomics and validators keep the promise of Activation.
Stage ==
    CASE Form4Show                               -> "checking"
      [] ~Form4Show /\ Form3Show                 -> "request"
      [] ~Form4Show /\ ~Form3Show /\ Form2Show   -> "tools"
      [] ~Form4Show /\ ~Form3Show /\ ~Form2Show  -> "welcome"

Abs == INSTANCE Activation WITH
    stage <- Stage, granted <- isHWIDValid, hidden <- ~show_overlay,
    unlocks <- caves

\* Every step of the menu is a step of Activation or leaves it unchanged.
ImplementsActivation == Abs!Spec

\* The check of the list ends: Form4 does not stay on the screen.
VerdictReached == Form4Show ~> (~Form4Show \/ ~Running)

\* A user on the request form whose SID stays on the list is admitted without
\* pressing Send again: the validator keeps polling.
ActivationArrives ==
    (Form3Show /\ []listed) ~> (isHWIDValid \/ ~Running)

-----------------------------------------------------------------------------
(* The inductive invariant of the proofs in Menu_proofs. *)

\* Which forms can be on together, and what each of them presupposes.
Screens ==
    /\ Form1Show => isHWIDValid /\ isHWIDValidationCompleted
    /\ Form2Show => Form1Show
    /\ Form3Show => isHWIDValidationCompleted
    /\ Form4Show => ~Form3Show
    /\ (Form4Show \/ Form3Show) <=> ~Form1Show

\* What the render thread knows at each point of a frame.
FramePoints ==
    /\ rpc # "idle" => show_overlay
    /\ rpc = "Form4" => Form4Show
    /\ rpc \in {"Form3", "Form3Buttons"} => Form3Show
    /\ rpc = "Form1" => Form1Show /\ ~Form2Show

\* The validators run one after the other, so their answers agree with the
\* cache and a stored grant is final.
Validation ==
    /\ isHWIDValidationCompleted => vpc["Form4"] = "done"
    /\ vpc["Form4"] \notin {"loop", "sleep"}
    /\ vpc["Form3"] # "new" => isHWIDValidationCompleted
    /\ vpc["Form1"] \in {"new", "loop", "done"}
    /\ vpc["Form1"] # "new" => isHWIDValid
    /\ isHWIDValid => isHWIDValidated
    /\ \A v \in Validators :
         /\ vpc[v] = "download" => ~isHWIDValidated
         /\ vpc[v] = "store" => found[v] = isHWIDValidated
    /\ vpc["Form4"] \in {"complete", "done"} /\ found["Form4"] => isHWIDValid

IInv ==
    TypeOK /\ UnlockedOnce /\ NeverRefused /\ Screens /\ FramePoints /\ Validation

=============================================================================
