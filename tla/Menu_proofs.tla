---------------------------- MODULE Menu_proofs -----------------------------
(***************************************************************************)
(* Proofs about Menu for every MaxClicks and ClickCap: the inductive       *)
(* invariant IInv, the safety properties it implies, and that Menu         *)
(* implements Activation.  There is one lemma per part of IInv, with one   *)
(* step per action that can disturb that part.                             *)
(***************************************************************************)
EXTENDS Menu, TLAPS

\* The invariant holds before the first frame.
LEMMA InitIInv == Init => IInv
<1> SUFFICES ASSUME Init PROVE IInv
  OBVIOUS
<1>1. ClicksOK
  BY ClickAssumption DEF Init, ClicksOK
<1>2. TypeOK
  BY <1>1 DEF Init, TypeOK, FlagsOK, ThreadsOK, Validators, Notices
<1>3. Screens /\ FramePoints /\ Validation
  BY DEF Init, Screens, FramePoints, Validation, Validators
<1>4. UnlockedOnce /\ NeverRefused
  BY DEF Init, UnlockedOnce, NeverRefused
<1> QED
  BY <1>2, <1>3, <1>4 DEF IInv

\* Clicks are counted up to the bound.
LEMMA StepClicks == TypeOK /\ [Next]_vars => ClicksOK'
<1> SUFFICES ASSUME TypeOK, [Next]_vars PROVE ClicksOK'
  OBVIOUS
<1>1. clickCounter \in 0..ClickCap
  BY DEF TypeOK, ClicksOK
<1>2. ASSUME clickCounter' = clickCounter PROVE ClicksOK'
  BY <1>1, <1>2 DEF ClicksOK
<1>3. ASSUME clickCounter < ClickCap, clickCounter' = clickCounter + 1
      PROVE  ClicksOK'
  BY <1>1, <1>3, ClickAssumption DEF ClicksOK
<1>4. CASE Render
  BY <1>2, <1>3, <1>4
     DEF Render, FirstCall, StartFrame, Form4Wait, Form4Valid, Form4Invalid,
         Form3Status, Form3NoSend, Form3Exit, Form3Send, Form3Proceed,
         Form1Close, Form1Success, EndFrame
<1>5. ASSUME NEW v \in Validators, Validate(v) PROVE ClicksOK'
  BY <1>2, <1>5
     DEF Validate, LoopTest, CheckCache, DownloadHit, EmptySidHit,
         DownloadMiss, Answer, StoreValid, StoreCompleted, Wake, frameVars
<1>6. CASE EditList \/ AntiCheatCheck \/ UNCHANGED vars
  BY <1>2, <1>6 DEF EditList, AntiCheatCheck, vars
<1> QED
  BY <1>4, <1>5, <1>6 DEF Next

\* The Boolean variables keep their type.
LEMMA StepFlags == IInv /\ [Next]_vars => FlagsOK'
<1> SUFFICES ASSUME IInv, [Next]_vars PROVE FlagsOK'
  OBVIOUS
<1> USE DEF FlagsOK, flags, forms, told, frameVars
<1>1. FlagsOK /\ ThreadsOK
  BY DEF IInv, TypeOK
<1>2. CASE FirstCall
  BY <1>1, <1>2 DEF FirstCall
<1>3. CASE StartFrame
  BY <1>1, <1>3 DEF StartFrame
<1>4. CASE Form4Wait
  BY <1>1, <1>4 DEF Form4Wait
<1>5. CASE Form4Valid
  BY <1>1, <1>5 DEF Form4Valid
<1>6. CASE Form4Invalid
  BY <1>1, <1>6 DEF Form4Invalid
<1>7. CASE Form3Status
  BY <1>1, <1>7 DEF Form3Status
<1>8. CASE Form3NoSend
  BY <1>1, <1>8 DEF Form3NoSend
<1>9. CASE Form3Exit
  BY <1>1, <1>9 DEF Form3Exit
<1>10. CASE Form3Send
  BY <1>1, <1>10 DEF Form3Send
<1>11. CASE Form3Proceed
  BY <1>1, <1>11 DEF Form3Proceed
<1>12. CASE Form1Close
  BY <1>1, <1>12 DEF Form1Close
<1>13. CASE Form1Success
  BY <1>1, <1>13 DEF Form1Success
<1>14. CASE EndFrame
  BY <1>1, <1>14 DEF EndFrame
<1>15. ASSUME NEW v \in Validators, Validate(v) PROVE FlagsOK'
  <2>1. CASE LoopTest(v)
    BY <1>1, <2>1 DEF LoopTest
  <2>2. CASE CheckCache(v)
    BY <1>1, <2>2 DEF CheckCache
  <2>3. CASE DownloadHit(v)
    BY <1>1, <2>3 DEF DownloadHit, Answer
  <2>4. CASE EmptySidHit(v)
    BY <1>1, <2>4 DEF EmptySidHit, Answer
  <2>5. CASE DownloadMiss(v)
    BY <1>1, <2>5 DEF DownloadMiss, Answer
  <2>6. CASE StoreValid(v)
    BY <1>1, <2>6 DEF StoreValid, ThreadsOK
  <2>7. CASE StoreCompleted(v)
    BY <1>1, <2>7 DEF StoreCompleted
  <2>8. CASE Wake(v)
    BY <1>1, <2>8 DEF Wake
  <2> QED
    BY <1>15, <2>1, <2>2, <2>3, <2>4, <2>5, <2>6, <2>7, <2>8
       DEF Validate
<1>16. CASE EditList
  BY <1>1, <1>16 DEF EditList
<1>17. CASE AntiCheatCheck
  BY <1>1, <1>17 DEF AntiCheatCheck
<1>18. CASE UNCHANGED vars
  BY <1>1, <1>18 DEF vars
<1> QED
  BY <1>2, <1>3, <1>4, <1>5, <1>6, <1>7, <1>8, <1>9, <1>10, <1>11, <1>12,
     <1>13, <1>14, <1>15, <1>16, <1>17, <1>18 DEF Next, Render

\* The threads stay at the points of their code.
LEMMA StepThreads == IInv /\ [Next]_vars => ThreadsOK'
<1> SUFFICES ASSUME IInv, [Next]_vars PROVE ThreadsOK'
  OBVIOUS
<1> USE DEF ThreadsOK, frameVars
<1>1. ThreadsOK
  BY DEF IInv, TypeOK
<1>2. ASSUME NEW f \in {"idle", "Form4", "Form3", "Form2", "Form1"},
             EnterForm(f), UNCHANGED <<found, antiCheat, phase>>
      PROVE  ThreadsOK'
  BY <1>1, <1>2 DEF EnterForm, Validators, Periodic
<1>3. ASSUME NEW a, NEW b, NEW c
      PROVE  Selected(a, b, c) \in {"idle", "Form3", "Form2", "Form1"}
  BY DEF Selected
<1>4. CASE StartFrame
  BY <1>2, <1>3, <1>4 DEF StartFrame
<1>5. CASE Form4Wait \/ Form4Valid \/ Form4Invalid
  BY <1>2, <1>3, <1>5 DEF Form4Wait, Form4Valid, Form4Invalid
<1>6. CASE FirstCall \/ Form3Status \/ Form3NoSend \/ Form3Exit \/ Form3Send
  BY <1>1, <1>6 DEF FirstCall, Form3Status, Form3NoSend, Form3Exit, Form3Send
<1>7. CASE Form3Proceed \/ Form1Close \/ Form1Success \/ EndFrame
  BY <1>1, <1>7 DEF Form3Proceed, Form1Close, Form1Success, EndFrame
<1>8. ASSUME NEW v \in Validators, Validate(v) PROVE ThreadsOK'
  BY <1>1, <1>8
     DEF Validate, LoopTest, CheckCache, DownloadHit, EmptySidHit,
         DownloadMiss, Answer, StoreValid, StoreCompleted, Wake, Goto
<1>9. CASE EditList \/ AntiCheatCheck \/ UNCHANGED vars
  BY <1>1, <1>9 DEF EditList, AntiCheatCheck, vars
<1> QED
  BY <1>4, <1>5, <1>6, <1>7, <1>8, <1>9 DEF Next, Render

\* No notification "Invalid User": at Form1 both flags are set.
LEMMA StepNotice ==
  IInv /\ [Next]_vars => NeverRefused' /\ (notice \in Notices)'
<1> SUFFICES ASSUME IInv, [Next]_vars
             PROVE  NeverRefused' /\ (notice \in Notices)'
  OBVIOUS
<1> USE DEF NeverRefused, Notices
<1>1. NeverRefused /\ notice \in Notices
  BY DEF IInv, TypeOK
<1>2. ASSUME notice' = notice PROVE NeverRefused' /\ (notice \in Notices)'
  BY <1>1, <1>2
<1>3. CASE Form3Status \/ Form3NoSend \/ Form3Send
  BY <1>1, <1>3 DEF Form3Status, Form3NoSend, Form3Send
<1>4. CASE Form1Success
  BY <1>1, <1>4 DEF Form1Success, IInv, FramePoints, Screens
<1>5. CASE Render /\ ~(Form3Status \/ Form3NoSend \/ Form3Send \/ Form1Success)
  BY <1>2, <1>5
     DEF Render, FirstCall, StartFrame, Form4Wait, Form4Valid, Form4Invalid,
         Form3Exit, Form3Proceed, Form1Close, EndFrame, told
<1>6. ASSUME NEW v \in Validators, Validate(v)
      PROVE  NeverRefused' /\ (notice \in Notices)'
  BY <1>2, <1>6
     DEF Validate, LoopTest, CheckCache, DownloadHit, EmptySidHit,
         DownloadMiss, Answer, StoreValid, StoreCompleted, Wake, frameVars, told
<1>7. CASE EditList \/ AntiCheatCheck \/ UNCHANGED vars
  BY <1>2, <1>7 DEF EditList, AntiCheatCheck, vars, told
<1> QED
  BY <1>3, <1>4, <1>5, <1>6, <1>7 DEF Next

\* ScriptCaving runs at Form1, which is not drawn once Form2Show is set; and
\* Form4, which clears Form2Show, runs only before it was ever set.
LEMMA StepUnlock ==
  IInv /\ [Next]_vars => UnlockedOnce' /\ (caves \in {0, 1})'
<1> SUFFICES ASSUME IInv, [Next]_vars PROVE UnlockedOnce'
  BY DEF UnlockedOnce
<1> USE DEF UnlockedOnce
<1>1. UnlockedOnce /\ FlagsOK
  BY DEF IInv, TypeOK
<1>2. ASSUME caves' = caves, Form2Show' = Form2Show PROVE UnlockedOnce'
  BY <1>1, <1>2
<1>3. CASE Form4Wait
  <2>1. ~Form2Show
    BY <1>1, <1>3 DEF Form4Wait, IInv, FramePoints, Screens
  <2> QED
    BY <1>1, <1>3, <2>1 DEF Form4Wait
<1>4. CASE Form1Success
  <2>1. ~Form2Show /\ caves = 0
    BY <1>1, <1>4 DEF Form1Success, IInv, FramePoints
  <2>2. isHWIDValidationCompleted /\ isHWIDValid
    BY <1>4 DEF Form1Success, IInv, FramePoints, Screens
  <2> QED
    BY <1>4, <2>1, <2>2 DEF Form1Success
<1>5. CASE Render /\ ~(Form4Wait \/ Form1Success)
  BY <1>2, <1>5
     DEF Render, FirstCall, StartFrame, Form4Valid, Form4Invalid, Form3Status,
         Form3NoSend, Form3Exit, Form3Send, Form3Proceed, Form1Close, EndFrame,
         forms
<1>6. ASSUME NEW v \in Validators, Validate(v) PROVE UnlockedOnce'
  BY <1>2, <1>6
     DEF Validate, LoopTest, CheckCache, DownloadHit, EmptySidHit,
         DownloadMiss, Answer, StoreValid, StoreCompleted, Wake, frameVars,
         forms
<1>7. CASE EditList \/ AntiCheatCheck \/ UNCHANGED vars
  BY <1>2, <1>7 DEF EditList, AntiCheatCheck, vars, forms
<1> QED
  BY <1>3, <1>4, <1>5, <1>6, <1>7 DEF Next

\* A validator that stores its answer does not overwrite a grant: the cache is
\* set then, and an answer about to be stored agrees with the cache.
LEMMA StoreKeepsGrant ==
  ASSUME IInv, NEW v \in Validators, StoreValid(v)
  PROVE  isHWIDValid => isHWIDValid'
BY DEF IInv, TypeOK, FlagsOK, StoreValid, Validation, Screens, Validators

\* No step takes a stored grant back.
LEMMA StepGrant == IInv /\ [Next]_vars => (isHWIDValid => isHWIDValid')
<1> SUFFICES ASSUME IInv, [Next]_vars, isHWIDValid PROVE isHWIDValid'
  OBVIOUS
<1>1. CASE Render
  BY <1>1
     DEF Render, FirstCall, StartFrame, Form4Wait, Form4Valid, Form4Invalid,
         Form3Status, Form3NoSend, Form3Exit, Form3Send, Form3Proceed,
         Form1Close, Form1Success, EndFrame, flags
<1>2. ASSUME NEW v \in Validators, Validate(v) PROVE isHWIDValid'
  BY <1>2, StoreKeepsGrant
     DEF Validate, LoopTest, CheckCache, DownloadHit, EmptySidHit,
         DownloadMiss, Answer, StoreCompleted, Wake, flags
<1>3. CASE EditList \/ AntiCheatCheck \/ UNCHANGED vars
  BY <1>3 DEF EditList, AntiCheatCheck, vars, flags
<1> QED
  BY <1>1, <1>2, <1>3 DEF Next

\* The forms that are on together.
LEMMA StepScreens == IInv /\ [Next]_vars => Screens'
<1> SUFFICES ASSUME IInv, [Next]_vars PROVE Screens'
  OBVIOUS
<1> USE DEF Screens, flags, forms, frameVars
<1>1. Screens /\ FlagsOK
  BY DEF IInv, TypeOK
<1>2. ASSUME UNCHANGED <<forms, isHWIDValidationCompleted, isHWIDValid>>
      PROVE  Screens'
  BY <1>1, <1>2
<1>3. CASE Form4Wait
  BY <1>1, <1>3 DEF Form4Wait, IInv, FramePoints
<1>4. CASE Form4Valid
  BY <1>1, <1>4 DEF Form4Valid, IInv, FramePoints
<1>5. CASE Form4Invalid
  BY <1>1, <1>5 DEF Form4Invalid, IInv, FramePoints
<1>6. CASE Form3Proceed
  BY <1>1, <1>6 DEF Form3Proceed, IInv, FramePoints
<1>7. CASE Form1Success
  BY <1>1, <1>7 DEF Form1Success, IInv, FramePoints
<1>8. CASE Render /\ ~(Form4Wait \/ Form4Valid \/ Form4Invalid
                         \/ Form3Proceed \/ Form1Success)
  BY <1>2, <1>8
     DEF Render, FirstCall, StartFrame, Form3Status, Form3NoSend, Form3Exit,
         Form3Send, Form1Close, EndFrame
<1>9. ASSUME NEW v \in Validators, Validate(v) PROVE Screens'
  <2>1. CASE StoreValid(v)
    BY <1>1, <2>1, StoreKeepsGrant DEF StoreValid
  <2>2. CASE StoreCompleted(v)
    BY <1>1, <2>2 DEF StoreCompleted
  <2>3. CASE LoopTest(v) \/ CheckCache(v) \/ Wake(v)
    BY <1>2, <2>3 DEF LoopTest, CheckCache, Wake
  <2>4. CASE DownloadHit(v) \/ EmptySidHit(v) \/ DownloadMiss(v)
    BY <1>2, <2>4 DEF DownloadHit, EmptySidHit, DownloadMiss, Answer
  <2> QED
    BY <1>9, <2>1, <2>2, <2>3, <2>4 DEF Validate
<1>10. CASE EditList \/ AntiCheatCheck \/ UNCHANGED vars
  BY <1>2, <1>10 DEF EditList, AntiCheatCheck, vars
<1> QED
  BY <1>3, <1>4, <1>5, <1>6, <1>7, <1>8, <1>9, <1>10 DEF Next

\* What the render thread knows at the points of its frame.
LEMMA StepFramePoints == IInv /\ [Next]_vars => FramePoints'
<1> SUFFICES ASSUME IInv, [Next]_vars PROVE FramePoints'
  OBVIOUS
<1> USE DEF FramePoints, forms, frameVars
<1>1. FramePoints /\ FlagsOK
  BY DEF IInv, TypeOK
<1>2. ASSUME rpc' = "idle" PROVE FramePoints'
  BY <1>2
<1>3. ASSUME UNCHANGED <<forms, show_overlay, rpc>> PROVE FramePoints'
  BY <1>1, <1>3
<1>4. CASE StartFrame
  BY <1>1, <1>4 DEF StartFrame, EnterForm, Selected
<1>5. CASE Form4Wait
  BY <1>1, <1>5 DEF Form4Wait, EnterForm, Selected
<1>6. CASE Form4Valid
  BY <1>1, <1>6 DEF Form4Valid, EnterForm, Selected, FlagsOK
<1>7. CASE Form4Invalid
  BY <1>1, <1>7 DEF Form4Invalid, EnterForm
<1>8. CASE Form3Status
  BY <1>1, <1>8 DEF Form3Status
<1>9. CASE Form3Send
  BY <1>1, <1>9 DEF Form3Send
<1>10. CASE FirstCall \/ Form3Exit
  BY <1>3, <1>10 DEF FirstCall, Form3Exit
<1>11. CASE Form3NoSend \/ Form3Proceed \/ Form1Close \/ Form1Success \/ EndFrame
  BY <1>2, <1>11
     DEF Form3NoSend, Form3Proceed, Form1Close, Form1Success, EndFrame
<1>12. ASSUME NEW v \in Validators, Validate(v) PROVE FramePoints'
  BY <1>3, <1>12
     DEF Validate, LoopTest, CheckCache, DownloadHit, EmptySidHit,
         DownloadMiss, Answer, StoreValid, StoreCompleted, Wake
<1>13. CASE EditList \/ AntiCheatCheck \/ UNCHANGED vars
  BY <1>3, <1>13 DEF EditList, AntiCheatCheck, vars
<1> QED
  BY <1>4, <1>5, <1>6, <1>7, <1>8, <1>9, <1>10, <1>11, <1>12, <1>13
     DEF Next, Render

\* Where the validators are, and that their answers agree with the cache.
LEMMA StepValidation == IInv /\ [Next]_vars => Validation'
<1> SUFFICES ASSUME IInv, [Next]_vars PROVE Validation'
  OBVIOUS
<1> USE DEF Validation, flags, frameVars, Goto, Periodic
<1>1. Validation /\ FlagsOK /\ ThreadsOK
  BY DEF IInv, TypeOK
<1>2. ASSUME UNCHANGED <<flags, vpc, found>> PROVE Validation'
  BY <1>1, <1>2
<1>3. CASE StartFrame
  BY <1>1, <1>3
     DEF StartFrame, EnterForm, Selected, ThreadsOK, Validators, IInv, Screens
<1>4. CASE Form4Wait
  BY <1>1, <1>4
     DEF Form4Wait, EnterForm, Selected, ThreadsOK, Validators, IInv, Screens,
         FramePoints
<1>5. CASE Form4Valid
  BY <1>1, <1>5
     DEF Form4Valid, EnterForm, Selected, ThreadsOK, Validators
<1>6. CASE Form4Invalid
  BY <1>1, <1>6 DEF Form4Invalid, EnterForm, ThreadsOK, Validators
<1>7. CASE Render /\ ~(StartFrame \/ Form4Wait \/ Form4Valid \/ Form4Invalid)
  BY <1>2, <1>7
     DEF Render, FirstCall, Form3Status, Form3NoSend, Form3Exit, Form3Send,
         Form3Proceed, Form1Close, Form1Success, EndFrame
<1>8. ASSUME NEW v \in Validators, Validate(v) PROVE Validation'
  <2> USE DEF Validators, ThreadsOK
  <2>1. CASE LoopTest(v)
    BY <1>1, <2>1 DEF LoopTest
  <2>2. CASE CheckCache(v)
    <3>1. CASE isHWIDValidated
      <4>1. isHWIDValidated = TRUE
        BY <1>1, <3>1 DEF FlagsOK
      <4>2. found' = [found EXCEPT ![v] = TRUE] /\ vpc' = [vpc EXCEPT ![v] = "store"]
        BY <2>2, <3>1 DEF CheckCache
      <4> QED
        BY <1>1, <2>2, <4>1, <4>2 DEF CheckCache
    <3>2. CASE ~isHWIDValidated
      BY <1>1, <2>2, <3>2 DEF CheckCache
    <3> QED
      BY <3>1, <3>2
  <2>3. CASE DownloadHit(v) \/ EmptySidHit(v)
    <3>1. /\ vpc[v] = "download"
          /\ found' = [found EXCEPT ![v] = TRUE]
          /\ vpc' = [vpc EXCEPT ![v] = "store"]
          /\ UNCHANGED <<isHWIDValidationCompleted, isHWIDValid>>
      BY <2>3 DEF DownloadHit, EmptySidHit, Answer
    <3>2. isHWIDValidated' = TRUE
      BY <2>3 DEF DownloadHit, EmptySidHit, Answer
    <3> QED
      BY <1>1, <3>1, <3>2
  <2>4. CASE DownloadMiss(v)
    BY <1>1, <2>4 DEF DownloadMiss, Answer
  <2>5. CASE StoreValid(v)
    BY <1>1, <2>5, StoreKeepsGrant DEF StoreValid
  <2>6. CASE StoreCompleted(v)
    BY <1>1, <2>6 DEF StoreCompleted
  <2>7. CASE Wake(v)
    BY <1>1, <2>7 DEF Wake
  <2> QED
    BY <1>8, <2>1, <2>2, <2>3, <2>4, <2>5, <2>6, <2>7 DEF Validate
<1>9. CASE EditList \/ AntiCheatCheck \/ UNCHANGED vars
  BY <1>2, <1>9 DEF EditList, AntiCheatCheck, vars
<1> QED
  BY <1>3, <1>4, <1>5, <1>6, <1>7, <1>8, <1>9 DEF Next

\* Every step keeps the invariant.
LEMMA NextIInv == IInv /\ [Next]_vars => IInv'
<1> SUFFICES ASSUME IInv, [Next]_vars PROVE IInv'
  OBVIOUS
<1>1. TypeOK'
  BY StepFlags, StepThreads, StepClicks, StepNotice, StepUnlock
     DEF IInv, TypeOK
<1> QED
  BY <1>1, StepNotice, StepUnlock, StepScreens, StepFramePoints, StepValidation
     DEF IInv

-----------------------------------------------------------------------------
\* IInv holds in every reachable state.
THEOREM Invariance == Spec => []IInv
<1>1. Init => IInv
  BY InitIInv
<1>2. IInv /\ [Next]_vars => IInv'
  BY NextIInv
<1> QED
  BY <1>1, <1>2, PTL DEF Spec

\* Every variable keeps its type.
THEOREM TypeCorrect == Spec => []TypeOK
<1>1. IInv => TypeOK
  BY DEF IInv
<1> QED
  BY <1>1, Invariance, PTL

\* No user on the welcome screen is refused.
THEOREM NoRefusal == Spec => []NeverRefused
<1>1. IInv => NeverRefused
  BY DEF IInv
<1> QED
  BY <1>1, Invariance, PTL

\* The game code is patched at most once, and exactly when Form2 is on.
THEOREM OneUnlock == Spec => []UnlockedOnce
<1>1. IInv => UnlockedOnce
  BY DEF IInv
<1> QED
  BY <1>1, Invariance, PTL

\* The plain flag isHWIDValidated is never accessed by one validator while
\* another one writes it: at most one is past its loop test at a time.
THEOREM NoRace == Spec => []NoRaceOnCache
<1>1. IInv => NoRaceOnCache
  BY DEF IInv, TypeOK, Validation, NoRaceOnCache, Validators
<1> QED
  BY <1>1, Invariance, PTL

\* A stored grant is final.
THEOREM GrantFinal == Spec => GrantNotRevoked
<1>1. IInv /\ [Next]_vars => [isHWIDValid => isHWIDValid']_vars
  BY StepGrant
<1> QED
  BY <1>1, Invariance, PTL DEF Spec, GrantNotRevoked

\* Form3 comes up only after Form4's validator ended with a negative answer.
THEOREM DenialFirst == Spec => RequestOnlyAfterDenial
<1>1. IInv /\ [Next]_vars =>
        [~Form3Show /\ Form3Show' => vpc["Form4"] = "done" /\ ~found["Form4"]]_vars
  <2> SUFFICES ASSUME IInv, Next, ~Form3Show, Form3Show'
               PROVE  vpc["Form4"] = "done" /\ ~found["Form4"]
    OBVIOUS
  <2>1. Form4Invalid
    <3>1. CASE Render
      BY <3>1
         DEF Render, FirstCall, StartFrame, Form4Wait, Form4Valid, Form3Status,
             Form3NoSend, Form3Exit, Form3Send, Form3Proceed, Form1Close,
             Form1Success, EndFrame, forms
    <3>2. ASSUME NEW v \in Validators, Validate(v) PROVE FALSE
      BY <3>2
         DEF Validate, LoopTest, CheckCache, DownloadHit, EmptySidHit,
             DownloadMiss, Answer, StoreValid, StoreCompleted, Wake, frameVars,
             forms
    <3>3. CASE EditList \/ AntiCheatCheck
      BY <3>3 DEF EditList, AntiCheatCheck, forms
    <3> QED
      BY <3>1, <3>2, <3>3 DEF Next
  <2> QED
    BY <2>1 DEF Form4Invalid, IInv, Validation
<1> QED
  BY <1>1, Invariance, PTL DEF Spec, RequestOnlyAfterDenial

-----------------------------------------------------------------------------
\* Validators only grant, and only before the welcome screen.
LEMMA ValidateRefines ==
  ASSUME IInv, NEW v \in Validators, Validate(v)
  PROVE  Abs!Grant \/ UNCHANGED <<forms, isHWIDValid, show_overlay, caves>>
<1>1. CASE StoreValid(v) /\ isHWIDValid' # isHWIDValid
  <2>1. ~isHWIDValid /\ isHWIDValid' = TRUE
    BY <1>1, StoreKeepsGrant
       DEF StoreValid, IInv, TypeOK, FlagsOK, ThreadsOK
  <2>2. Stage \in {"checking", "request"} /\ UNCHANGED Stage
    BY <1>1, <2>1
       DEF Stage, IInv, Screens, StoreValid, frameVars, forms
  <2> QED
    BY <1>1, <2>1, <2>2 DEF Abs!Grant, StoreValid, frameVars
<1>2. CASE ~(StoreValid(v) /\ isHWIDValid' # isHWIDValid)
  BY <1>2
     DEF Validate, LoopTest, CheckCache, DownloadHit, EmptySidHit,
         DownloadMiss, Answer, StoreValid, StoreCompleted, Wake, frameVars,
         flags, forms
<1> QED
  BY <1>1, <1>2

\* The forms the render thread turns on and off are the stages of Activation.
LEMMA RenderRefines ==
  ASSUME IInv, Render
  PROVE  Abs!Next \/ UNCHANGED <<Stage, isHWIDValid, show_overlay, caves>>
<1> USE DEF IInv, Screens, FramePoints, Stage, flags, forms
<1>1. CASE Form4Wait
  BY <1>1 DEF Form4Wait, TypeOK, FlagsOK
<1>2. CASE Form4Valid
  <2>1. Abs!Admit
    BY <1>2 DEF Form4Valid, Abs!Admit
  <2> QED
    BY <2>1 DEF Abs!Next
<1>3. CASE Form4Invalid
  <2>1. Abs!Deny
    BY <1>3 DEF Form4Invalid, Abs!Deny
  <2> QED
    BY <2>1 DEF Abs!Next
<1>4. CASE Form3Proceed
  <2>1. Abs!Admit
    BY <1>4 DEF Form3Proceed, Abs!Admit
  <2> QED
    BY <2>1 DEF Abs!Next
<1>5. CASE Form1Close
  <2>1. Abs!Close
    BY <1>5 DEF Form1Close, Abs!Close
  <2> QED
    BY <2>1 DEF Abs!Next
<1>6. CASE Form1Success
  <2>1. Abs!Unlock
    BY <1>6 DEF Form1Success, Abs!Unlock
  <2> QED
    BY <2>1 DEF Abs!Next
<1>7. CASE Render /\ ~(Form4Wait \/ Form4Valid \/ Form4Invalid \/ Form3Proceed
                         \/ Form1Close \/ Form1Success)
  <2>1. UNCHANGED <<forms, isHWIDValid, show_overlay, caves>>
    BY <1>7
       DEF Render, FirstCall, StartFrame, Form3Status, Form3NoSend, Form3Exit,
           Form3Send, EndFrame
  <2> QED
    BY <2>1
<1> QED
  BY <1>1, <1>2, <1>3, <1>4, <1>5, <1>6, <1>7

\* Menu keeps the promise of Activation.
THEOREM Refinement == Spec => ImplementsActivation
<1>1. Init => Abs!Init
  BY DEF Init, Abs!Init, Stage
<1>2. IInv /\ [Next]_vars => [Abs!Next]_(Abs!vars)
  <2> SUFFICES ASSUME IInv, [Next]_vars
               PROVE  Abs!Next \/ UNCHANGED Abs!vars
    OBVIOUS
  <2>1. ASSUME UNCHANGED <<forms, isHWIDValid, show_overlay, caves>>
        PROVE  UNCHANGED Abs!vars
    BY <2>1 DEF Abs!vars, Stage, forms
  <2>2. CASE Render
    BY <2>2, RenderRefines DEF Abs!vars
  <2>3. ASSUME NEW v \in Validators, Validate(v)
        PROVE  Abs!Next \/ UNCHANGED Abs!vars
    BY <2>1, <2>3, ValidateRefines DEF Abs!Next
  <2>4. CASE EditList \/ AntiCheatCheck \/ UNCHANGED vars
    BY <2>1, <2>4 DEF EditList, AntiCheatCheck, vars, flags, forms
  <2> QED
    BY <2>2, <2>3, <2>4 DEF Next
<1> QED
  BY <1>1, <1>2, Invariance, PTL DEF Spec, ImplementsActivation, Abs!Spec

=============================================================================
