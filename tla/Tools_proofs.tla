---------------------------- MODULE Tools_proofs ----------------------------
(***************************************************************************)
(* Proofs about Tools for every scenario, set of buttons and choice of     *)
(* skills: the mouse of the window, and the hotkeys of Form2.              *)
(***************************************************************************)
EXTENDS Tools, WellFoundedInduction, SequenceTheorems, TLAPS

\* While the capture was not lost it is held as long as a button is believed
\* down, so no release is missed.
MouseInv ==
    /\ ReleasesSeen
    /\ CaptureReleased
    /\ ~robbed /\ MouseDown # {} => capture

\* A key that is down and has toggled is remembered by the frame it did in.
KeyInv ==
    /\ answers \in [{"RMENU", "F8", "F9", "chord"} -> 0..1]
    /\ \A k \in {"RMENU", "F8", "F9"} : k \in keys /\ answers[k] = 1 => k \in lastState
    /\ Chord(keys) /\ answers["chord"] = 1 => wasPressed

LEMMA InitTools == Init => MouseInv /\ KeyInv
<1> SUFFICES ASSUME Init PROVE MouseInv /\ KeyInv
  OBVIOUS
<1>1. MouseInv
  BY DEF Init, InputInit, MouseInv, ReleasesSeen, CaptureReleased
<1>2. KeyInv
  BY DEF Init, KeyInv
<1> QED
  BY <1>1, <1>2

\* Only the mouse changes what the input handler knows.
LEMMA StepMouse == MouseInv /\ [Next]_vars => MouseInv'
<1> SUFFICES ASSUME MouseInv, [Next]_vars PROVE MouseInv'
  OBVIOUS
<1> USE DEF MouseInv, ReleasesSeen, CaptureReleased
<1>1. CASE Mouse
  <2>1. ASSUME NEW b, Press(b) PROVE MouseInv'
    BY <2>1 DEF Press, ButtonDown, Delivered
  <2>2. ASSUME NEW b, Release(b) PROVE MouseInv'
    <3>1. CASE Delivered
      BY <2>2, <3>1 DEF Release, ButtonUp
    <3>2. CASE ~Delivered
      BY <2>2, <3>2 DEF Release, Delivered
    <3> QED
      BY <3>1, <3>2
  <2>3. CASE Move
    BY <2>3 DEF Move
  <2>4. CASE LoseCapture
    BY <2>4 DEF LoseCapture
  <2> QED
    BY <1>1, <2>1, <2>2, <2>3, <2>4 DEF Mouse
<1>2. CASE UNCHANGED inputVars
  BY <1>2 DEF inputVars
<1>3. CASE \/ ScriptCaving \/ Frame \/ Tick \/ NotificationExpires \/ Watch
           \/ Keyboard \/ GameWritesCell \/ GameWritesSlot
  <2>1. UNCHANGED inputVars
    BY <1>3 DEF ScriptCaving, Frame, Tick, NotificationExpires, Watch, Keyboard,
                GameWritesCell, GameWritesSlot
  <2> QED
    BY <1>2, <2>1
<1>4. CASE UNCHANGED vars
  BY <1>2, <1>4 DEF vars
<1> QED
  BY <1>1, <1>3, <1>4 DEF Next

\* A frame of the tab MAIN counts what goes down and remembers what is down.
LEMMA MainKeys ==
    ASSUME KeyInv, NEW w, Main(w), UNCHANGED keys
    PROVE  KeyInv'
<1> DEFINE toggled == {h[1] : h \in Edges} \cup IF ChordEdge THEN {"chord"} ELSE {}
<1>1. /\ answers' = [k \in DOMAIN answers |->
                       IF k \in toggled /\ answers[k] < 2 THEN answers[k] + 1
                                                          ELSE answers[k]]
      /\ lastState' = keys \cap {h[1] : h \in Range(HotKeys)}
      /\ wasPressed' = Chord(keys)
  BY DEF Main, Answer
<1>2. {h[1] : h \in Range(HotKeys)} = {"RMENU", "F8", "F9"}
  <2>1. Range(HotKeys) = { <<"RMENU", "space">>, <<"F8", "autored">>, <<"F9", "vend">> }
    BY DEF Range, HotKeys
  <2> QED
    BY <2>1
<1>3. \A k \in {"RMENU", "F8", "F9"} : k \in toggled <=> k \in keys /\ k \notin lastState
  BY <1>2 DEF Edges
<1>4. "chord" \in toggled <=> ChordEdge
  BY <1>2 DEF Edges
<1> HIDE DEF toggled
<1>5. DOMAIN answers = {"RMENU", "F8", "F9", "chord"}
  BY DEF KeyInv
<1>6. ASSUME NEW k \in {"RMENU", "F8", "F9"}
      PROVE  answers'[k] \in 0..1 /\ (k \in keys' /\ answers'[k] = 1 => k \in lastState')
  <2>1. k \in toggled => answers[k] = 0
    BY <1>3 DEF KeyInv
  <2>2. answers[k] \in 0..1
    BY DEF KeyInv
  <2> QED
    BY <1>1, <1>2, <1>5, <2>1, <2>2
<1>7. answers'["chord"] \in 0..1
  <2>1. "chord" \in toggled => answers["chord"] = 0
    BY <1>4 DEF KeyInv, ChordEdge
  <2>2. answers["chord"] \in 0..1
    BY DEF KeyInv
  <2> QED
    BY <1>1, <1>5, <2>1, <2>2
<1>8. answers' \in [{"RMENU", "F8", "F9", "chord"} -> 0..1]
  BY <1>1, <1>5, <1>6, <1>7
<1> QED
  BY <1>1, <1>6, <1>8 DEF KeyInv

LEMMA StepKeys == KeyInv /\ [Next]_vars => KeyInv'
<1> SUFFICES ASSUME KeyInv, [Next]_vars PROVE KeyInv'
  OBVIOUS
<1>1. CASE Keyboard
  <2>1. UNCHANGED <<lastState, wasPressed>>
    BY <1>1 DEF Keyboard, pilotVars
  <2>2. ASSUME NEW k, PressKey(k) PROVE KeyInv'
    <3>1. /\ k \notin keys /\ keys' = keys \cup {k}
          /\ answers' = [a \in DOMAIN answers |->
                           IF a = k \/ (a = "chord" /\ Chord(keys') /\ ~Chord(keys))
                             THEN 0 ELSE answers[a]]
      BY <2>2 DEF PressKey
    <3>2. answers' \in [{"RMENU", "F8", "F9", "chord"} -> 0..1]
      BY <3>1 DEF KeyInv
    <3>3. \A a \in {"RMENU", "F8", "F9"} : a \in keys' /\ answers'[a] = 1 => a \in lastState'
      BY <2>1, <3>1 DEF KeyInv
    <3>4. Chord(keys') /\ answers'["chord"] = 1 => wasPressed'
      BY <2>1, <3>1 DEF KeyInv
    <3> QED
      BY <3>2, <3>3, <3>4 DEF KeyInv
  <2>3. ASSUME NEW k, ReleaseKey(k) PROVE KeyInv'
    <3>1. keys' = keys \ {k} /\ UNCHANGED answers
      BY <2>3 DEF ReleaseKey
    <3>2. Chord(keys') => Chord(keys)
      BY <3>1 DEF Chord
    <3> QED
      BY <2>1, <3>1, <3>2 DEF KeyInv
  <2> QED
    BY <1>1, <2>2, <2>3 DEF Keyboard
<1>2. CASE UNCHANGED <<keys, lastState, wasPressed, answers>>
  BY <1>2 DEF KeyInv
<1>3. CASE Frame
  <2>1. UNCHANGED keys
    BY <1>3 DEF Frame
  <2>2. \/ \E w : Main(w)
        \/ UNCHANGED <<lastState, wasPressed, answers>>
    BY <1>3 DEF Frame, Crash, pilotVars
  <2> QED
    BY <1>2, <2>1, <2>2, MainKeys
<1>4. CASE ScriptCaving \/ Tick \/ NotificationExpires \/ Watch \/ Mouse
           \/ GameWritesCell \/ GameWritesSlot \/ UNCHANGED vars
  <2>1. UNCHANGED <<keys, lastState, wasPressed, answers>>
    BY <1>4 DEF ScriptCaving, Tick, NotificationExpires, Watch, Mouse,
                GameWritesCell, GameWritesSlot, vars, toolVars, pilotVars
  <2> QED
    BY <1>2, <2>1
<1> QED
  BY <1>1, <1>3, <1>4 DEF Next

-----------------------------------------------------------------------------
\* A non-empty set of naturals has a least element.
LEMMA LeastNat ==
    ASSUME NEW S \in SUBSET Nat, S # {}
    PROVE  \E x \in S : \A y \in S : x <= y
<1> DEFINE R == {ss \in Nat \X Nat : ss[1] < ss[2]}
<1>1. IsWellFoundedOn(R, Nat)
  BY NatLessThanWellFounded DEF OpToRel
<1> HIDE DEF R
<1>2. PICK x \in S : \A y \in S : ~(<<y, x>> \in R)
  BY <1>1, WFMin
<1>3. \A y \in S : x <= y
  <2> TAKE y \in S
  <2>1. ~(y < x)
    <3>1. <<y, x>> \in R <=> y < x
      BY DEF R
    <3> QED
      BY <1>2, <3>1
  <2> QED
    BY <2>1
<1> QED
  BY <1>3

-----------------------------------------------------------------------------
(* RenderNotifications *)

Lists == Seq(NotificationSet)

\* f computes what the loop of RenderNotifications leaves of a list when it
\* goes on at an index.
IsLoop(f) ==
    f = [at \in Lists \X Nat |->
            LET l == at[1] i == at[2]
            IN  IF i > Len(l) THEN l
                ELSE IF l[i].expired THEN f[<<RemoveAt(l, i), i>>]
                ELSE f[<<l, i + 1>>]]

\* r is l without those that have expired, from index i on; from says where
\* each one was.
Leaves(l, i, r, from) ==
    /\ from \in [DOMAIN r -> DOMAIN l]
    /\ \A j, k \in DOMAIN r : j < k => from[j] < from[k]
    /\ \A k \in DOMAIN r : from[k] < i \/ ~l[from[k]].expired
    /\ \A j \in DOMAIN l : j < i \/ ~l[j].expired => \E k \in DOMAIN r : from[k] = j
    /\ \A k \in DOMAIN r : r[k] = l[from[k]]
    /\ \A j \in DOMAIN l : j < i => j \in DOMAIN r /\ from[j] = j

Left(l, i, r) == r \in Lists /\ \E from : Leaves(l, i, r, from)

LEMMA LeftAtEnd ==
    ASSUME NEW l \in Lists, NEW i \in Nat, i > Len(l), NEW r
    PROVE  Left(l, i, r) <=> r = l
<1>0. DOMAIN l = 1..Len(l) /\ Len(l) \in Nat
  BY DEF Lists
<1>1. Left(l, i, l)
  <2> DEFINE from == [k \in DOMAIN l |-> k]
  <2>1. Leaves(l, i, l, from)
    BY <1>0 DEF Leaves
  <2> HIDE DEF from
  <2> QED
    BY <2>1 DEF Left
<1>2. ASSUME Left(l, i, r) PROVE r = l
  <2>1. PICK from : Leaves(l, i, r, from)
    BY <1>2 DEF Left
  <2>2. r \in Lists /\ DOMAIN r = 1..Len(r) /\ Len(r) \in Nat
    BY <1>2 DEF Left, Lists
  <2>3. \A j \in DOMAIN l : j \in DOMAIN r /\ from[j] = j /\ r[j] = l[j]
    BY <1>0, <2>1 DEF Leaves
  <2>4. Len(r) <= Len(l)
    <3> SUFFICES ASSUME Len(r) > Len(l) PROVE FALSE
      BY <1>0, <2>2
    <3>1. Len(r) \in DOMAIN r /\ from[Len(r)] \in 1..Len(l)
      BY <1>0, <2>1, <2>2 DEF Leaves
    <3>2. from[from[Len(r)]] = from[Len(r)] /\ from[Len(r)] \in DOMAIN r
      BY <1>0, <2>3, <3>1
    <3>3. from[Len(r)] < Len(r)
      BY <1>0, <2>2, <3>1
    <3>4. from[from[Len(r)]] < from[Len(r)]
      BY <2>1, <3>1, <3>2, <3>3 DEF Leaves
    <3> QED
      BY <1>0, <3>1, <3>2, <3>4
  <2>5. Len(l) <= Len(r)
    <3>1. CASE Len(l) = 0
      BY <2>2, <3>1
    <3>2. CASE Len(l) # 0
      <4>1. Len(l) \in DOMAIN l
        BY <1>0, <3>2
      <4> QED
        BY <2>2, <2>3, <4>1
    <3> QED
      BY <3>1, <3>2
  <2>6. Len(r) = Len(l)
    <3>1. Len(l) \in Nat /\ Len(r) \in Nat
      BY <1>0, <2>2
    <3> QED
      BY <2>4, <2>5, <3>1
  <2>7. \A j \in 1..Len(r) : r[j] = l[j]
    BY <1>0, <2>3, <2>6
  <2>8. r \in Seq(NotificationSet) /\ l \in Seq(NotificationSet)
    BY <2>2 DEF Lists
  <2> QED
    BY <2>6, <2>7, <2>8, SeqEqual
<1> QED
  BY <1>1, <1>2

\* A notification that is still drawn stays where it is.
LEMMA LeftAlive ==
    ASSUME NEW l \in Lists, NEW i \in 1..Len(l), ~l[i].expired, NEW r
    PROVE  Left(l, i, r) <=> Left(l, i + 1, r)
<1>0. DOMAIN l = 1..Len(l) /\ Len(l) \in Nat /\ i \in DOMAIN l
  BY DEF Lists
<1>1. ASSUME Left(l, i + 1, r) PROVE Left(l, i, r)
  <2>1. PICK from : Leaves(l, i + 1, r, from)
    BY <1>1 DEF Left
  <2>2. DOMAIN r \subseteq Nat
    BY <1>1 DEF Left, Lists
  <2>3. \A j \in DOMAIN l : j < i + 1 <=> j < i \/ j = i
    BY <1>0
  <2>4. Leaves(l, i, r, from)
    BY <1>0, <2>1, <2>2, <2>3 DEF Leaves
  <2> QED
    BY <1>1, <2>4 DEF Left
<1>2. ASSUME Left(l, i, r) PROVE Left(l, i + 1, r)
  <2>1. PICK from : Leaves(l, i, r, from)
    BY <1>2 DEF Left
  <2>2. DOMAIN r = 1..Len(r) /\ Len(r) \in Nat
    BY <1>2 DEF Left, Lists
  <2>3. \A j \in DOMAIN l : j < i + 1 <=> j < i \/ j = i
    BY <1>0
  <2>4. PICK k \in DOMAIN r : from[k] = i
    BY <1>0, <2>1 DEF Leaves
  <2>5. ~(k < i)
    BY <1>0, <2>1, <2>2, <2>4 DEF Leaves
  <2>6. ~(k > i)
    <3> SUFFICES ASSUME k > i PROVE FALSE
      OBVIOUS
    <3>1. i \in DOMAIN r /\ from[i] < i
      BY <1>0, <2>1, <2>2, <2>4 DEF Leaves
    <3>2. from[i] \in DOMAIN l
      BY <2>1, <3>1 DEF Leaves
    <3>3. from[i] \in DOMAIN r /\ from[from[i]] = from[i]
      BY <2>1, <3>1, <3>2 DEF Leaves
    <3>4. from[from[i]] < from[i]
      BY <2>1, <3>1, <3>3 DEF Leaves
    <3> QED
      BY <1>0, <3>2, <3>3, <3>4
  <2>7. k = i
    BY <1>0, <2>2, <2>5, <2>6
  <2>8. Leaves(l, i + 1, r, from)
    BY <1>0, <2>1, <2>3, <2>4, <2>7 DEF Leaves
  <2> QED
    BY <1>2, <2>8 DEF Left
<1> QED
  BY <1>1, <1>2

LEMMA Removed ==
    ASSUME NEW l \in Lists, NEW i \in 1..Len(l)
    PROVE  LET m == RemoveAt(l, i)
           IN  /\ m \in Lists /\ Len(m) = Len(l) - 1
               /\ \A j \in 1..Len(m) : m[j] = IF j < i THEN l[j] ELSE l[j + 1]
<1> DEFINE a == SubSeq(l, 1, i - 1)
           b == SubSeq(l, i + 1, Len(l))
<1>1. a \in Lists /\ Len(a) = i - 1 /\ \A j \in 1..(i - 1) : a[j] = l[j]
  BY SubSeqProperties DEF Lists
<1>2. b \in Lists /\ Len(b) = Len(l) - i /\ \A j \in 1..(Len(l) - i) : b[j] = l[i + j]
  BY SubSeqProperties DEF Lists
<1>3. RemoveAt(l, i) = a \o b
  BY DEF RemoveAt
<1> HIDE DEF a, b
<1>4. /\ a \o b \in Lists /\ Len(a \o b) = Len(l) - 1
      /\ \A j \in 1..Len(a \o b) : (a \o b)[j] = IF j <= i - 1 THEN a[j] ELSE b[j - (i - 1)]
  <2>1. /\ a \o b \in Seq(NotificationSet) /\ Len(a \o b) = Len(a) + Len(b)
        /\ \A j \in 1..(Len(a) + Len(b)) :
             (a \o b)[j] = IF j <= Len(a) THEN a[j] ELSE b[j - Len(a)]
    BY <1>1, <1>2, ConcatProperties DEF Lists
  <2>2. Len(a) + Len(b) = Len(l) - 1
    BY <1>1, <1>2 DEF Lists
  <2> QED
    BY <1>1, <2>1, <2>2 DEF Lists
<1>5. ASSUME NEW j \in 1..(Len(l) - 1)
      PROVE  (a \o b)[j] = IF j < i THEN l[j] ELSE l[j + 1]
  <2>1. CASE j < i
    BY <1>1, <1>4, <2>1 DEF Lists
  <2>2. CASE ~(j < i)
    <3>1. j - (i - 1) \in 1..(Len(l) - i) /\ i + (j - (i - 1)) = j + 1
      BY <2>2 DEF Lists
    <3>2. (a \o b)[j] = b[j - (i - 1)]
      BY <1>4, <2>2 DEF Lists
    <3> QED
      BY <1>2, <2>2, <3>1, <3>2
  <2> QED
    BY <2>1, <2>2
<1> QED
  BY <1>3, <1>4, <1>5

\* One whose time has passed makes room for the next.
LEMMA LeftExpired ==
    ASSUME NEW l \in Lists, NEW i \in 1..Len(l), l[i].expired, NEW r
    PROVE  Left(l, i, r) <=> Left(RemoveAt(l, i), i, r)
<1> DEFINE m == RemoveAt(l, i)
<1>1. /\ DOMAIN l = 1..Len(l) /\ Len(l) \in Nat /\ i \in Nat
      /\ m \in Lists /\ DOMAIN m = 1..(Len(l) - 1)
      /\ \A j \in DOMAIN m : m[j] = IF j < i THEN l[j] ELSE l[j + 1]
  <2>1. /\ m \in Lists /\ Len(m) = Len(l) - 1
        /\ \A j \in 1..Len(m) : m[j] = IF j < i THEN l[j] ELSE l[j + 1]
    BY Removed
  <2>2. DOMAIN l = 1..Len(l) /\ Len(l) \in Nat /\ i \in Nat
    BY DEF Lists
  <2> HIDE DEF m
  <2>3. DOMAIN m = 1..Len(m)
    BY <2>1 DEF Lists
  <2> QED
    BY <2>1, <2>2, <2>3
<1> HIDE DEF m
<1>2. ASSUME Left(l, i, r) PROVE Left(m, i, r)
  <2>1. PICK from : Leaves(l, i, r, from)
    BY <1>2 DEF Left
  <2>2. DOMAIN r = 1..Len(r) /\ Len(r) \in Nat
    BY <1>2 DEF Left, Lists
  <2> DEFINE f == [k \in DOMAIN r |-> IF from[k] < i THEN from[k] ELSE from[k] - 1]
  <2>3. \A k \in DOMAIN r : from[k] \in 1..Len(l) /\ from[k] # i
    BY <1>1, <2>1 DEF Leaves
  <2>4. \A k \in DOMAIN r : f[k] \in DOMAIN m /\ (f[k] < i <=> from[k] < i)
                              /\ (~(from[k] < i) => f[k] = from[k] - 1 /\ m[f[k]] = l[from[k]])
                              /\ (from[k] < i => f[k] = from[k] /\ m[f[k]] = l[from[k]])
    BY <1>1, <2>3
  <2>5. f \in [DOMAIN r -> DOMAIN m]
    BY <2>4
  <2> HIDE DEF f
  <2>6. \A j, k \in DOMAIN r : j < k => f[j] < f[k]
    <3> SUFFICES ASSUME NEW j \in DOMAIN r, NEW k \in DOMAIN r, j < k PROVE f[j] < f[k]
      OBVIOUS
    <3>1. from[j] < from[k]
      BY <2>1 DEF Leaves
    <3> QED
      BY <1>1, <2>3, <2>4, <3>1
  <2>7. \A k \in DOMAIN r : (f[k] < i \/ ~m[f[k]].expired) /\ r[k] = m[f[k]]
    BY <2>1, <2>4 DEF Leaves
  <2>8. ASSUME NEW j \in DOMAIN m, j < i \/ ~m[j].expired
        PROVE  \E k \in DOMAIN r : f[k] = j
    <3>1. CASE j < i
      <4>1. j \in DOMAIN l
        BY <1>1
      <4>2. j \in DOMAIN r /\ from[j] = j
        BY <2>1, <3>1, <4>1 DEF Leaves
      <4> QED
        BY <2>4, <3>1, <4>2
    <3>2. CASE ~(j < i)
      <4>1. j + 1 \in DOMAIN l /\ ~l[j + 1].expired
        BY <1>1, <2>8, <3>2
      <4>2. PICK k \in DOMAIN r : from[k] = j + 1
        BY <2>1, <4>1 DEF Leaves
      <4>3. ~(from[k] < i) /\ from[k] - 1 = j
        BY <1>1, <3>2, <4>2
      <4> QED
        BY <2>4, <4>3
    <3> QED
      BY <3>1, <3>2
  <2>9. ASSUME NEW j \in DOMAIN m, j < i PROVE j \in DOMAIN r /\ f[j] = j
    <3>1. j \in DOMAIN l
      BY <1>1
    <3>2. j \in DOMAIN r /\ from[j] = j
      BY <2>1, <2>9, <3>1 DEF Leaves
    <3> QED
      BY <2>4, <2>9, <3>2
  <2>10. Leaves(m, i, r, f)
    BY <2>5, <2>6, <2>7, <2>8, <2>9 DEF Leaves
  <2> QED
    BY <1>2, <2>10 DEF Left
<1>3. ASSUME Left(m, i, r) PROVE Left(l, i, r)
  <2>1. PICK from : Leaves(m, i, r, from)
    BY <1>3 DEF Left
  <2>2. DOMAIN r = 1..Len(r) /\ Len(r) \in Nat
    BY <1>3 DEF Left, Lists
  <2> DEFINE f == [k \in DOMAIN r |-> IF from[k] < i THEN from[k] ELSE from[k] + 1]
  <2>3. \A k \in DOMAIN r : from[k] \in 1..(Len(l) - 1)
    BY <1>1, <2>1 DEF Leaves
  <2>4. \A k \in DOMAIN r : f[k] \in DOMAIN l /\ f[k] # i /\ (f[k] < i <=> from[k] < i)
                              /\ (~(from[k] < i) => f[k] = from[k] + 1 /\ l[f[k]] = m[from[k]])
                              /\ (from[k] < i => f[k] = from[k] /\ l[f[k]] = m[from[k]])
    BY <1>1, <2>1, <2>3 DEF Leaves
  <2>5. f \in [DOMAIN r -> DOMAIN l]
    BY <2>4
  <2> HIDE DEF f
  <2>6. \A j, k \in DOMAIN r : j < k => f[j] < f[k]
    <3> SUFFICES ASSUME NEW j \in DOMAIN r, NEW k \in DOMAIN r, j < k PROVE f[j] < f[k]
      OBVIOUS
    <3>1. from[j] < from[k]
      BY <2>1 DEF Leaves
    <3> QED
      BY <1>1, <2>3, <2>4, <3>1
  <2>7. \A k \in DOMAIN r : (f[k] < i \/ ~l[f[k]].expired) /\ r[k] = l[f[k]]
    BY <2>1, <2>4 DEF Leaves
  <2>8. ASSUME NEW j \in DOMAIN l, j < i \/ ~l[j].expired
        PROVE  \E k \in DOMAIN r : f[k] = j
    <3>1. CASE j < i
      <4>1. j \in DOMAIN m
        BY <1>1, <3>1
      <4>2. j \in DOMAIN r /\ from[j] = j
        BY <2>1, <3>1, <4>1 DEF Leaves
      <4> QED
        BY <2>4, <3>1, <4>2
    <3>2. CASE ~(j < i)
      <4>0. j # i
        BY <2>8, <3>2
      <4>1. j - 1 \in DOMAIN m /\ ~(j - 1 < i) /\ j - 1 + 1 = j
        BY <1>1, <3>2, <4>0
      <4>2. m[j - 1] = l[j]
        BY <1>1, <4>1
      <4>3. PICK k \in DOMAIN r : from[k] = j - 1
        BY <2>1, <2>8, <3>2, <4>1, <4>2 DEF Leaves
      <4> QED
        BY <2>4, <4>1, <4>3
    <3> QED
      BY <3>1, <3>2
  <2>9. ASSUME NEW j \in DOMAIN l, j < i PROVE j \in DOMAIN r /\ f[j] = j
    <3>1. j \in DOMAIN m
      BY <1>1, <2>9
    <3>2. j \in DOMAIN r /\ from[j] = j
      BY <2>1, <2>9, <3>1 DEF Leaves
    <3> QED
      BY <2>4, <2>9, <3>2
  <2>10. Leaves(l, i, r, f)
    BY <2>5, <2>6, <2>7, <2>8, <2>9 DEF Leaves
  <2> QED
    BY <1>3, <2>10 DEF Left
<1> QED
  BY <1>2, <1>3 DEF m

\* The loop as the relation Left describes it.
LEMMA LoopExists == \E f : IsLoop(f)
<1> DEFINE G(l, i) == CHOOSE r : Left(l, i, r)
           f == [at \in Lists \X Nat |-> G(at[1], at[2])]
<1>1. ASSUME NEW l \in Lists, NEW i \in Nat
      PROVE  f[<<l, i>>] = G(l, i)
  OBVIOUS
<1>2. ASSUME NEW l \in Lists, NEW i \in Nat, i > Len(l)
      PROVE  G(l, i) = l
  BY <1>2, LeftAtEnd
<1>3. ASSUME NEW l \in Lists, NEW i \in 1..Len(l), l[i].expired
      PROVE  G(l, i) = G(RemoveAt(l, i), i)
  BY <1>3, LeftExpired
<1>4. ASSUME NEW l \in Lists, NEW i \in 1..Len(l), ~l[i].expired
      PROVE  G(l, i) = G(l, i + 1)
  BY <1>4, LeftAlive
<1>5. ASSUME NEW l \in Lists
      PROVE  RemoveAt(l, 0) = l /\ G(l, 0) = G(l, 1)
  <2>1. RemoveAt(l, 0) = l
    <3>1. SubSeq(l, 1, 0 - 1) = <<>> /\ SubSeq(l, 0 + 1, Len(l)) = l
      BY SubSeqEmpty, SubSeqFull DEF Lists
    <3> QED
      BY <3>1, ConcatEmptySeq DEF RemoveAt, Lists
  <2>2. \A r : Left(l, 0, r) <=> Left(l, 1, r)
    <3>1. \A j \in DOMAIN l : ~(j < 0) /\ ~(j < 1)
      BY DEF Lists
    <3>2. \A r, from : Leaves(l, 0, r, from) <=> Leaves(l, 1, r, from)
      BY <3>1 DEF Leaves
    <3> QED
      BY <3>2 DEF Left
  <2> QED
    BY <2>1, <2>2
<1>6. ASSUME NEW l \in Lists, NEW i \in 1..Len(l) PROVE RemoveAt(l, i) \in Lists
  BY Removed
<1>7. ASSUME NEW l \in Lists, NEW i \in Nat
      PROVE  f[<<l, i>>] = IF i > Len(l) THEN l
                           ELSE IF l[i].expired THEN f[<<RemoveAt(l, i), i>>]
                           ELSE f[<<l, i + 1>>]
  <2> HIDE DEF f, G
  <2>1. CASE i > Len(l)
    BY <1>1, <1>2, <2>1
  <2>2. CASE i = 0
    BY <1>1, <1>5, <2>2 DEF Lists
  <2>3. CASE ~(i > Len(l)) /\ i # 0
    <3>1. i \in 1..Len(l)
      BY <2>3 DEF Lists
    <3> QED
      BY <1>1, <1>3, <1>4, <1>6, <2>3, <3>1
  <2> QED
    BY <2>1, <2>2, <2>3
<1>8. f = [at \in Lists \X Nat |-> f[<<at[1], at[2]>>]]
  OBVIOUS
<1> HIDE DEF f, G
<1>9. IsLoop(f)
  <2> DEFINE body(l, i) == IF i > Len(l) THEN l
                           ELSE IF l[i].expired THEN f[<<RemoveAt(l, i), i>>]
                           ELSE f[<<l, i + 1>>]
  <2>1. \A at \in Lists \X Nat : f[<<at[1], at[2]>>] = body(at[1], at[2])
    BY <1>7
  <2>2. f = [at \in Lists \X Nat |-> body(at[1], at[2])]
    BY <1>8, <2>1
  <2> QED
    BY <2>2 DEF IsLoop
<1> QED
  BY <1>9

\* Erasing ends, and leaves what Left says.
LEMMA LoopLeaves ==
    ASSUME NEW f, IsLoop(f), NEW l \in Lists, NEW i \in Nat \ {0}
    PROVE  Left(l, i, f[<<l, i>>])
<1> DEFINE steps(m, j) == IF j > Len(m) THEN 0 ELSE Len(m) + 1 - j
           Bad == {n \in Nat : \E m \in Lists, j \in Nat \ {0} :
                     n = steps(m, j) /\ ~Left(m, j, f[<<m, j>>])}
<1>1. \A m \in Lists, j \in Nat : steps(m, j) \in Nat /\ Len(m) \in Nat
  BY DEF Lists
<1>2. \A m \in Lists, j \in Nat :
        f[<<m, j>>] = IF j > Len(m) THEN m
                      ELSE IF m[j].expired THEN f[<<RemoveAt(m, j), j>>]
                      ELSE f[<<m, j + 1>>]
  BY DEF IsLoop
<1>3. Bad = {}
  <2> SUFFICES ASSUME Bad # {} PROVE FALSE
    OBVIOUS
  <2>1. PICK n \in Bad : \A k \in Bad : n <= k
    BY LeastNat
  <2>2. PICK m \in Lists, j \in Nat \ {0} : n = steps(m, j) /\ ~Left(m, j, f[<<m, j>>])
    BY <2>1
  <2>3. CASE j > Len(m)
    BY <1>2, <2>2, <2>3, LeftAtEnd
  <2>4. CASE ~(j > Len(m)) /\ m[j].expired
    <3>1. j \in 1..Len(m)
      BY <1>1, <2>4
    <3> DEFINE x == RemoveAt(m, j)
    <3>2. x \in Lists /\ Len(x) = Len(m) - 1
      BY <3>1, Removed
    <3>3. f[<<m, j>>] = f[<<x, j>>]
      BY <1>2, <2>4
    <3>4. Left(m, j, f[<<x, j>>]) <=> Left(x, j, f[<<x, j>>])
      BY <2>4, <3>1, LeftExpired
    <3> HIDE DEF x
    <3>5. steps(x, j) \in Nat /\ steps(x, j) < n
      BY <1>1, <2>2, <2>4, <3>1, <3>2
    <3>6. steps(x, j) \in Bad
      BY <2>2, <3>2, <3>3, <3>4, <3>5
    <3>7. n \in Nat /\ n <= steps(x, j)
      BY <2>1, <3>6
    <3> HIDE DEF Bad, steps
    <3> QED
      BY <3>5, <3>7
  <2>5. CASE ~(j > Len(m)) /\ ~m[j].expired
    <3>1. j \in 1..Len(m)
      BY <1>1, <2>5
    <3>3. f[<<m, j>>] = f[<<m, j + 1>>]
      BY <1>2, <2>5
    <3>4. Left(m, j, f[<<m, j + 1>>]) <=> Left(m, j + 1, f[<<m, j + 1>>])
      BY <2>5, <3>1, LeftAlive
    <3>5. steps(m, j + 1) \in Nat /\ steps(m, j + 1) < n
      BY <1>1, <2>2, <2>5, <3>1
    <3>6. steps(m, j + 1) \in Bad
      <4>1. j + 1 \in Nat \ {0} /\ ~Left(m, j + 1, f[<<m, j + 1>>])
        BY <2>2, <3>3, <3>4
      <4> HIDE DEF steps
      <4> QED
        BY <3>5, <4>1
    <3>7. n \in Nat /\ n <= steps(m, j + 1)
      BY <2>1, <3>6
    <3> HIDE DEF Bad, steps
    <3> QED
      BY <3>5, <3>7
  <2> QED
    BY <2>3, <2>4, <2>5
<1>4. steps(l, i) \in Nat
  BY <1>1
<1> HIDE DEF steps
<1> QED
  BY <1>3, <1>4

\* What RenderNotifications leaves of any list.
LEMMA RenderedAll ==
    ASSUME NEW list \in Lists
    PROVE  /\ RenderNotifications(list) \in Lists
           /\ Rendered(list, RenderNotifications(list))
<1> DEFINE f == CHOOSE g : IsLoop(g)
           r == f[<<list, 1>>]
<1>1. IsLoop(f)
  BY LoopExists
<1>2. RenderNotifications(list) = r
  BY DEF RenderNotifications, IsLoop, Lists
<1> HIDE DEF f
<1>3. Left(list, 1, r)
  BY <1>1, LoopLeaves
<1> HIDE DEF r
<1>4. PICK from : Leaves(list, 1, r, from)
  BY <1>3 DEF Left
<1>5. \A j \in DOMAIN list : ~(j < 1)
  BY DEF Lists
<1>6. Range(from) = {j \in DOMAIN list : ~list[j].expired}
  BY <1>4, <1>5 DEF Leaves, Range
<1>7. Rendered(list, r)
  BY <1>4, <1>6 DEF Leaves, Rendered
<1> QED
  BY <1>2, <1>3, <1>7 DEF Left

-----------------------------------------------------------------------------
(* SigScan *)

\* The search of a signature in an image, each of a size a DWORD can hold.
Fits(image0, pattern) ==
    /\ image0 \in Seq(Int) /\ Len(image0) < DWORDSize
    /\ pattern \in Seq(Int) /\ Len(pattern) < DWORDSize

\* f computes what the loop of SigScan comes to from a position on.
IsScan(f, bytes, pattern) ==
    f = [i \in 0..ScanEnd(bytes, pattern) |->
            IF /\ i # ScanEnd(bytes, pattern)
               /\ i + Len(pattern) <= Len(bytes)
               /\ ~MatchesAt(bytes, pattern, i)
              THEN f[i + 1]
            ELSE IF i = ScanEnd(bytes, pattern) THEN NotFound
            ELSE IF i + Len(pattern) > Len(bytes) THEN Fault
            ELSE i]

\* r is the first place of the pattern from position i on.
From(i, bytes, pattern) ==
    {k \in i..(ScanEnd(bytes, pattern) - 1) : MatchesAt(bytes, pattern, k)}

IsFirst(r, i, bytes, pattern) ==
    IF From(i, bytes, pattern) = {} THEN r = NotFound
    ELSE r \in From(i, bytes, pattern) /\ \A k \in From(i, bytes, pattern) : r <= k

\* The unsigned difference wraps around when the image is the shorter one.
LEMMA ScanEndIs ==
    ASSUME NEW bytes, NEW pattern, Fits(bytes, pattern)
    PROVE  /\ Len(bytes) \in Nat /\ Len(pattern) \in Nat
           /\ Len(bytes) >= Len(pattern) =>
                ScanEnd(bytes, pattern) = Len(bytes) - Len(pattern)
           /\ Len(bytes) < Len(pattern) =>
                ScanEnd(bytes, pattern) \in Nat \ {0}
<1>1. Len(bytes) \in Nat /\ Len(pattern) \in Nat
  BY DEF Fits
<1>2. ASSUME NEW n \in Int, n >= 0, n < DWORDSize PROVE n % DWORDSize = n
  BY <1>2, DWORDAssumption
<1>3. ASSUME NEW n \in Int, n < 0, n > -DWORDSize PROVE n % DWORDSize = n + DWORDSize
  BY <1>3, DWORDAssumption
<1> DEFINE d == Len(bytes) - Len(pattern)
<1>4. d \in Int /\ d < DWORDSize /\ d > -DWORDSize
  BY <1>1, DWORDAssumption DEF Fits
<1>5. ScanEnd(bytes, pattern) = d % DWORDSize
  BY DEF ScanEnd, Wrap
<1>6. (d >= 0 <=> Len(bytes) >= Len(pattern)) /\ (d < 0 <=> Len(bytes) < Len(pattern))
  BY <1>1
<1> HIDE DEF d
<1>7. d >= 0 => ScanEnd(bytes, pattern) = d
  BY <1>2, <1>4, <1>5
<1>8. d < 0 => ScanEnd(bytes, pattern) \in Nat \ {0}
  BY <1>3, <1>4, <1>5, DWORDAssumption
<1> QED
  BY <1>1, <1>6, <1>7, <1>8 DEF d

\* A loop from a position where the pattern is, or is not.
LEMMA FirstIs ==
    ASSUME NEW bytes, NEW pattern, Fits(bytes, pattern), Len(bytes) >= Len(pattern),
           NEW i \in 0..ScanEnd(bytes, pattern), NEW r
    PROVE  /\ i = ScanEnd(bytes, pattern) => (IsFirst(r, i, bytes, pattern) <=> r = NotFound)
           /\ i < ScanEnd(bytes, pattern) /\ MatchesAt(bytes, pattern, i)
                => (IsFirst(r, i, bytes, pattern) <=> r = i)
           /\ i < ScanEnd(bytes, pattern) /\ ~MatchesAt(bytes, pattern, i)
                => (IsFirst(r, i, bytes, pattern) <=> IsFirst(r, i + 1, bytes, pattern))
<1> DEFINE E == ScanEnd(bytes, pattern)
<1>1. E \in Nat
  BY ScanEndIs
<1>2. i = E => From(i, bytes, pattern) = {}
  BY <1>1 DEF From
<1>3. i < E /\ MatchesAt(bytes, pattern, i) =>
        /\ i \in From(i, bytes, pattern)
        /\ \A k \in From(i, bytes, pattern) : k \in Nat /\ i <= k
  BY <1>1 DEF From
<1>4. i < E /\ ~MatchesAt(bytes, pattern, i) =>
        From(i, bytes, pattern) = From(i + 1, bytes, pattern)
  <2> SUFFICES ASSUME i < E, ~MatchesAt(bytes, pattern, i)
               PROVE  From(i, bytes, pattern) = From(i + 1, bytes, pattern)
    OBVIOUS
  <2>1. \A k \in i..(E - 1) : k = i \/ k \in (i + 1)..(E - 1)
    BY <1>1
  <2>2. (i + 1)..(E - 1) \subseteq i..(E - 1)
    BY <1>1
  <2> QED
    BY <2>1, <2>2 DEF From
<1>5. i < E /\ MatchesAt(bytes, pattern, i) => (IsFirst(r, i, bytes, pattern) <=> r = i)
  <2> SUFFICES ASSUME i < E, MatchesAt(bytes, pattern, i)
               PROVE  IsFirst(r, i, bytes, pattern) <=> r = i
    OBVIOUS
  <2>1. ASSUME IsFirst(r, i, bytes, pattern) PROVE r = i
    <3>1. r \in From(i, bytes, pattern) /\ r <= i
      BY <1>3, <2>1 DEF IsFirst
    <3> QED
      BY <1>1, <1>3, <3>1
  <2>2. ASSUME r = i PROVE IsFirst(r, i, bytes, pattern)
    BY <1>3, <2>2 DEF IsFirst
  <2> QED
    BY <2>1, <2>2
<1> QED
  BY <1>2, <1>4, <1>5 DEF IsFirst

LEMMA ScanExists ==
    ASSUME NEW bytes, NEW pattern, Fits(bytes, pattern)
    PROVE  \E f : IsScan(f, bytes, pattern)
<1> DEFINE E == ScanEnd(bytes, pattern)
<1>1. E \in Nat /\ Len(bytes) \in Nat /\ Len(pattern) \in Nat
  BY ScanEndIs
<1>2. CASE Len(bytes) < Len(pattern)
  <2> DEFINE f == [i \in 0..E |-> IF i = E THEN NotFound ELSE Fault]
  <2>1. \A i \in 0..E : (i = E \/ i < E) /\ i + Len(pattern) > Len(bytes)
    BY <1>1, <1>2
  <2>2. IsScan(f, bytes, pattern)
    BY <1>1, <2>1 DEF IsScan
  <2> HIDE DEF f
  <2> QED
    BY <2>2
<1>3. CASE Len(bytes) >= Len(pattern)
  <2> DEFINE G(i) == CHOOSE r : IsFirst(r, i, bytes, pattern)
             f == [i \in 0..E |-> G(i)]
  <2>1. E = Len(bytes) - Len(pattern)
    BY <1>3, ScanEndIs
  <2>2. ASSUME NEW i \in 0..E
        PROVE  /\ i + Len(pattern) <= Len(bytes)
               /\ i = E => G(i) = NotFound
               /\ i < E /\ MatchesAt(bytes, pattern, i) => G(i) = i
               /\ i < E /\ ~MatchesAt(bytes, pattern, i) => G(i) = G(i + 1)
    <3>1. i + Len(pattern) <= Len(bytes)
      BY <1>1, <2>1
    <3>2. i = E => G(i) = NotFound
      BY <1>3, FirstIs
    <3>3. i < E /\ MatchesAt(bytes, pattern, i) => G(i) = i
      BY <1>3, FirstIs
    <3>4. i < E /\ ~MatchesAt(bytes, pattern, i) => G(i) = G(i + 1)
      <4> SUFFICES ASSUME i < E, ~MatchesAt(bytes, pattern, i) PROVE G(i) = G(i + 1)
        OBVIOUS
      <4>1. \A r : IsFirst(r, i, bytes, pattern) <=> IsFirst(r, i + 1, bytes, pattern)
        BY <1>3, FirstIs
      <4> QED
        BY <4>1
    <3> QED
      BY <3>1, <3>2, <3>3, <3>4
  <2>3. \A i \in 0..E : f[i] = G(i) /\ (i < E => i + 1 \in 0..E)
    BY <1>1
  <2>4. f = [i \in 0..E |-> f[i]]
    OBVIOUS
  <2> HIDE DEF f, G
  <2>5. \A i \in 0..E :
          f[i] = IF /\ i # E /\ i + Len(pattern) <= Len(bytes)
                    /\ ~MatchesAt(bytes, pattern, i)
                   THEN f[i + 1]
                 ELSE IF i = E THEN NotFound
                 ELSE IF i + Len(pattern) > Len(bytes) THEN Fault
                 ELSE i
    BY <1>1, <2>2, <2>3
  <2>6. IsScan(f, bytes, pattern)
    BY <2>4, <2>5 DEF IsScan
  <2> QED
    BY <2>6
<1> QED
  BY <1>1, <1>2, <1>3

\* The loop comes to the first place, or to none.
LEMMA ScanFinds ==
    ASSUME NEW bytes, NEW pattern, Fits(bytes, pattern), Len(bytes) >= Len(pattern),
           NEW f, IsScan(f, bytes, pattern)
    PROVE  \A i \in 0..ScanEnd(bytes, pattern) : IsFirst(f[i], i, bytes, pattern)
<1> DEFINE E == ScanEnd(bytes, pattern)
           Bad == {n \in Nat : \E i \in 0..E : n = E - i /\ ~IsFirst(f[i], i, bytes, pattern)}
<1>1. E \in Nat /\ E = Len(bytes) - Len(pattern) /\ Len(bytes) \in Nat /\ Len(pattern) \in Nat
  BY ScanEndIs
<1>2. \A i \in 0..E : f[i] = IF /\ i # E /\ i + Len(pattern) <= Len(bytes)
                    /\ ~MatchesAt(bytes, pattern, i)
                   THEN f[i + 1]
                 ELSE IF i = E THEN NotFound
                 ELSE IF i + Len(pattern) > Len(bytes) THEN Fault
                 ELSE i
  BY DEF IsScan
<1>3. \A i \in 0..E : /\ i = E => f[i] = NotFound
                      /\ i < E /\ MatchesAt(bytes, pattern, i) => f[i] = i
                      /\ i < E /\ ~MatchesAt(bytes, pattern, i) => f[i] = f[i + 1]
  BY <1>1, <1>2
<1>4. Bad = {}
  <2> SUFFICES ASSUME Bad # {} PROVE FALSE
    OBVIOUS
  <2>1. PICK n \in Bad : \A k \in Bad : n <= k
    BY LeastNat
  <2>2. PICK i \in 0..E : n = E - i /\ ~IsFirst(f[i], i, bytes, pattern)
    BY <2>1
  <2>3. i < E /\ ~MatchesAt(bytes, pattern, i) /\ f[i] = f[i + 1]
    <3>1. ~(i = E)
      BY <1>3, <2>2, FirstIs
    <3>2. i < E
      BY <1>1, <3>1
    <3>3. ~MatchesAt(bytes, pattern, i)
      BY <1>3, <2>2, <3>2, FirstIs
    <3> QED
      BY <1>3, <3>2, <3>3
  <2>4. ~IsFirst(f[i + 1], i + 1, bytes, pattern)
    BY <2>2, <2>3, FirstIs
  <2>5. i + 1 \in 0..E /\ E - (i + 1) \in Nat /\ E - (i + 1) < n
    BY <1>1, <2>2, <2>3
  <2>6. E - (i + 1) \in Bad
    BY <2>4, <2>5
  <2>7. n \in Nat /\ n <= E - (i + 1)
    BY <2>1, <2>6
  <2> QED
    BY <2>5, <2>7
<1>5. \A i \in 0..E : E - i \in Nat
  BY <1>1
<1> QED
  BY <1>4, <1>5

\* What SigScan comes to for any image and signature.
LEMMA ScanResult ==
    ASSUME NEW bytes, NEW pattern, Fits(bytes, pattern)
    PROVE  IsResult(SigScan(bytes, pattern), bytes, pattern)
<1> DEFINE E == ScanEnd(bytes, pattern)
           f == CHOOSE g : IsScan(g, bytes, pattern)
<1>1. E \in Nat /\ Len(bytes) \in Nat /\ Len(pattern) \in Nat
  BY ScanEndIs
<1>2. IsScan(f, bytes, pattern)
  BY ScanExists
<1>3. SigScan(bytes, pattern) = f[0]
  BY DEF SigScan, IsScan
<1> HIDE DEF f
<1>4. CASE Len(bytes) < Len(pattern)
  <2>1. E # 0 /\ 0 < E /\ 0 + Len(pattern) > Len(bytes)
    BY <1>1, <1>4, ScanEndIs
  <2>2. f[0] = Fault
    BY <1>1, <1>2, <2>1 DEF IsScan
  <2> QED
    BY <1>3, <1>4, <2>2 DEF IsResult
<1>5. CASE ~(Len(bytes) < Len(pattern))
  <2>1. Len(bytes) >= Len(pattern) /\ E = Len(bytes) - Len(pattern)
    BY <1>1, <1>5, ScanEndIs
  <2>2. IsFirst(f[0], 0, bytes, pattern)
    BY <1>1, <1>2, <2>1, ScanFinds
  <2>3. From(0, bytes, pattern) = Seen(bytes, pattern)
    <3>1. \A k : k \in 0..(E - 1) <=> k \in 0..E /\ k # E
      BY <1>1
    <3> QED
      BY <2>1, <3>1 DEF From, Seen, Occurrences
  <2> QED
    BY <1>3, <1>5, <2>2, <2>3 DEF IsResult, IsFirst
<1> QED
  BY <1>4, <1>5

-----------------------------------------------------------------------------
(* ScriptCaving *)

LEMMA Joined ==
    \A s, t \in Seq(Int) : s \o t \in Seq(Int) /\ Len(s \o t) = Len(s) + Len(t)
  BY ConcatProperties

LEMMA WrittenKeepsLength ==
    ASSUME NEW bs \in Seq(Int), NEW bytes \in Seq(Int), NEW a \in Nat,
           a + Len(bytes) <= Len(bs)
    PROVE  WrittenAt(bs, a, bytes) \in Seq(Int) /\ Len(WrittenAt(bs, a, bytes)) = Len(bs)
<1> DEFINE first == SubSeq(bs, 1, a)
           rest  == SubSeq(bs, a + Len(bytes) + 1, Len(bs))
<1>0. Len(bs) \in Nat /\ Len(bytes) \in Nat
  OBVIOUS
<1>1. first \in Seq(Int) /\ Len(first) = a
  <2>1. \A i \in 1..a : bs[i] \in Int
    BY <1>0
  <2> QED
    BY <2>1, SubSeqProperties
<1>2. rest \in Seq(Int) /\ Len(rest) = Len(bs) - (a + Len(bytes))
  <2>1. \A i \in (a + Len(bytes) + 1)..Len(bs) : bs[i] \in Int
    BY <1>0
  <2>2. a + Len(bytes) + 1 \in Int /\ Len(bs) \in Int
    BY <1>0
  <2>3. /\ rest \in Seq(Int)
        /\ Len(rest) = IF a + Len(bytes) + 1 <= Len(bs)
                         THEN Len(bs) - (a + Len(bytes) + 1) + 1 ELSE 0
    BY <2>1, <2>2, SubSeqProperties
  <2> HIDE DEF rest
  <2> QED
    BY <1>0, <2>3
<1> HIDE DEF first, rest
<1> DEFINE both == first \o bytes
<1>3. both \in Seq(Int) /\ Len(both) = a + Len(bytes)
  BY <1>1, Joined
<1>4. WrittenAt(bs, a, bytes) = both \o rest
  BY DEF WrittenAt, first, rest
<1> HIDE DEF both
<1>5. both \o rest \in Seq(Int) /\ Len(both \o rest) = a + Len(bytes) + Len(rest)
  BY <1>2, <1>3, Joined
<1> QED
  BY <1>0, <1>2, <1>4, <1>5

\* Every signature is of a handful of bytes.
Sized(s) ==
    Signature[s] \in Seq(Int) /\ 6 <= Len(Signature[s]) /\ Len(Signature[s]) <= 17

LEMMA SignatureIs == \A s \in Scanned : Sized(s)
<1>1. Scanned = {"lraddr", "as1addr", "drones", "wallnames", "lawak1", "lawak2", "lawak3",
              "fscrolls", "fogs", "invibypass1", "nocdrevive", "nocdrevive2", "tagos1",
              "tagos2", "TAXIHACK", "PYTELEHACK", "SPBPHACK", "lrbuss", "petcdbyps",
              "bankcdbyps", "bikecdbyps", "slotcdbyps"}
  BY DEF Scanned, Signature
<1>2. Sized("lawak2")
  <2> DEFINE gap == [i \in 1..12 |-> \hCC]
             first == <<\h33, \hC0, \hC3>>
             rest == <<\h83, \hEC>>
             both == first \o gap
  <2>1. gap \in Seq(Int) /\ Len(gap) = 12
    OBVIOUS
  <2>2. first \in Seq(Int) /\ Len(first) = 3 /\ rest \in Seq(Int) /\ Len(rest) = 2
    OBVIOUS
  <2>3. Signature["lawak2"] = both \o rest
    BY DEF Signature
  <2> HIDE DEF gap, first, rest
  <2>4. both \in Seq(Int) /\ Len(both) = 15
    <3>1. both \in Seq(Int) /\ Len(both) = Len(first) + Len(gap)
      BY <2>1, <2>2, Joined
    <3>2. Len(first) + Len(gap) = 3 + 12
      BY <2>1, <2>2
    <3> QED
      BY <3>1, <3>2
  <2> HIDE DEF both
  <2>5. both \o rest \in Seq(Int) /\ Len(both \o rest) = 17
    <3>1. both \o rest \in Seq(Int) /\ Len(both \o rest) = Len(both) + Len(rest)
      BY <2>2, <2>4, Joined
    <3>2. Len(both) + Len(rest) = 15 + 2
      BY <2>2, <2>4
    <3> QED
      BY <3>1, <3>2
  <2> QED
    BY <2>3, <2>5 DEF Sized
<1>3. Sized("lraddr") /\ Sized("as1addr") /\ Sized("drones") /\ Sized("wallnames") /\
      Sized("lawak1") /\ Sized("lawak3") /\ Sized("fscrolls")
  BY DEF Sized, Signature
<1>4. Sized("fogs") /\ Sized("invibypass1") /\ Sized("nocdrevive") /\
      Sized("nocdrevive2") /\ Sized("tagos1") /\ Sized("tagos2") /\ Sized("TAXIHACK")
  BY DEF Sized, Signature
<1>5. Sized("PYTELEHACK") /\ Sized("SPBPHACK") /\ Sized("lrbuss") /\ Sized("petcdbyps") /\
      Sized("bankcdbyps") /\ Sized("bikecdbyps") /\ Sized("slotcdbyps")
  BY DEF Sized, Signature
<1> QED
  BY <1>1, <1>2, <1>3, <1>4, <1>5

\* No step of ScriptCaving writes more than the six bytes of a jump.
LEMMA ScriptIs ==
    /\ Len(Script) = 22
    /\ \A i \in 1..22 : /\ Script[i][1] \in Scanned
                        /\ Script[i][2] \in Seq(Int) /\ Len(Script[i][2]) <= 6
<1> DEFINE Writes == {<<>>, Jump, Cooldown, <<\h00>>}
<1>1. Game \in Int
  BY DEF Game
<1>2. \A bytes \in Writes : bytes \in Seq(Int) /\ Len(bytes) <= 6
  <2>1. Jump \in Seq(Int) /\ Len(Jump) <= 6
    BY <1>1 DEF Jump
  <2>2. Cooldown \in Seq(Int) /\ Len(Cooldown) <= 6
    BY DEF Cooldown
  <2>3. /\ <<>> \in Seq(Int) /\ Len(<<>>) <= 6
        /\ <<\h00>> \in Seq(Int) /\ Len(<<\h00>>) <= 6
    OBVIOUS
  <2> QED
    BY <2>1, <2>2, <2>3
<1> DEFINE Good(i) == Script[i][1] \in Scanned /\ Script[i][2] \in Writes
<1>3. Good(1) /\ Good(2) /\ Good(3) /\ Good(4) /\ Good(5) /\ Good(6) /\
      Good(7) /\ Good(8) /\ Good(9) /\ Good(10) /\ Good(11)
  BY DEF Script, Scanned, Signature
<1>4. Good(12) /\ Good(13) /\ Good(14) /\ Good(15) /\ Good(16) /\ Good(17) /\
      Good(18) /\ Good(19) /\ Good(20) /\ Good(21) /\ Good(22)
  BY DEF Script, Scanned, Signature
<1>5. Len(Script) = 22
  BY DEF Script
<1> HIDE DEF Good, Writes
<1>6. \A i \in 1..22 : Good(i)
  BY <1>3, <1>4
<1> USE DEF Good
<1> QED
  BY <1>2, <1>5, <1>6

\* The lists and the images a scenario starts with, in the range of the types
\* the code keeps them in.
ScenariosFit ==
    /\ DWORDSize > 17
    /\ \A sc \in Scenarios :
         /\ sc.earlier \in Lists
         /\ \A im \in sc.images : im \in Seq(Int) /\ Len(im) < DWORDSize

\* What is searched keeps its size until the last search.
ImageInv ==
    /\ line \in Nat
    /\ DOMAIN address = Scanned
    /\ line < Len(Script) => image \in Seq(Int) /\ Len(image) < DWORDSize

ListInv == notifications \in Lists

LEMMA InitForm == ScenariosFit /\ Init => ImageInv /\ ListInv
  BY DEF ScenariosFit, Init, ImageInv, ListInv, NotificationsInit, PatchesInit

\* A search that found its signature leaves room for what is written over it.
LEMMA FoundIs ==
    ASSUME ScenariosFit, ImageInv, line < Len(Script)
    PROVE  LET s == Script[line + 1][1]
               a == SigScan(image, Signature[s])
           IN  /\ s \in Scanned
               /\ IsResult(a, image, Signature[s])
               /\ a # Fault /\ a # NotFound =>
                    a \in Nat /\ a + Len(Script[line + 1][2]) <= Len(image)
<1> DEFINE s == Script[line + 1][1]
           bytes == Script[line + 1][2]
           pattern == Signature[s]
           a == SigScan(image, pattern)
<1>1. line + 1 \in 1..22
  BY ScriptIs DEF ImageInv
<1>2. s \in Scanned /\ bytes \in Seq(Int) /\ Len(bytes) <= 6
  BY <1>1, ScriptIs
<1>3. pattern \in Seq(Int) /\ 6 <= Len(pattern) /\ Len(pattern) <= 17
  BY <1>2, SignatureIs DEF Sized
<1> HIDE DEF pattern, bytes
<1>4. Fits(image, pattern)
  <2>1. image \in Seq(Int) /\ Len(image) < DWORDSize
    BY DEF ImageInv
  <2>2. Len(pattern) < DWORDSize
    BY <1>3, DWORDAssumption DEF ScenariosFit
  <2> QED
    BY <1>3, <2>1, <2>2 DEF Fits
<1>5. IsResult(a, image, pattern)
  BY <1>4, ScanResult
<1> HIDE DEF a
<1>6. ASSUME a # Fault, a # NotFound
      PROVE  a \in Nat /\ a + Len(bytes) <= Len(image)
  <2>1. a \in Seen(image, pattern)
    BY <1>5, <1>6 DEF IsResult
  <2>2. a \in 0..(Len(image) - Len(pattern))
    BY <2>1 DEF Seen, Occurrences
  <2>3. Len(image) \in Nat /\ Len(bytes) \in Nat /\ Len(bytes) <= 6
    BY <1>2 DEF ImageInv
  <2>4. Len(pattern) \in Nat /\ 6 <= Len(pattern)
    BY <1>3
  <2> HIDE DEF s
  <2> QED
    BY <2>2, <2>3, <2>4
<1> QED
  BY <1>2, <1>5, <1>6 DEF a, pattern, bytes

LEMMA StepImage == ScenariosFit /\ ImageInv /\ [Next]_vars => ImageInv'
<1> SUFFICES ASSUME ScenariosFit, ImageInv, [Next]_vars PROVE ImageInv'
  OBVIOUS
<1>1. CASE Search
  <2> DEFINE s == Script[line + 1][1]
             bytes == Script[line + 1][2]
             a == SigScan(image, Signature[s])
  <2>1. /\ line < Len(Script)
        /\ line' = line + 1
        /\ address' = [address EXCEPT ![s] = a]
        /\ \/ image' = image
           \/ a # Fault /\ a # NotFound /\ image' = WrittenAt(image, a, bytes)
    BY <1>1 DEF Search
  <2>2. /\ s \in Scanned
        /\ a # Fault /\ a # NotFound => a \in Nat /\ a + Len(bytes) <= Len(image)
    BY <2>1, FoundIs
  <2>3. image \in Seq(Int) /\ Len(image) < DWORDSize
    BY <2>1 DEF ImageInv
  <2>4. bytes \in Seq(Int)
    <3>1. line + 1 \in 1..22
      BY <2>1, ScriptIs DEF ImageInv
    <3> QED
      BY <3>1, ScriptIs
  <2> HIDE DEF s, bytes, a
  <2>5. image' \in Seq(Int) /\ Len(image') = Len(image)
    BY <2>1, <2>2, <2>3, <2>4, WrittenKeepsLength
  <2>6. DOMAIN address' = Scanned
    BY <2>1 DEF ImageInv
  <2> QED
    BY <2>1, <2>3, <2>5, <2>6 DEF ImageInv
<1>2. CASE BypassSkills
  BY <1>2, ScriptIs DEF BypassSkills, ImageInv
<1>3. CASE Frame
  <2>1. line > Len(Script) /\ UNCHANGED <<address, line>>
    BY <1>3 DEF Frame, ScriptDone, Main, Crash, patchVars
  <2> QED
    BY <2>1, ScriptIs DEF ImageInv
<1>4. CASE \/ Tick \/ NotificationExpires \/ Watch \/ Mouse \/ Keyboard
           \/ GameWritesCell \/ GameWritesSlot \/ UNCHANGED vars
  <2>1. UNCHANGED <<image, address, line>>
    BY <1>4 DEF Tick, NotificationExpires, Watch, Mouse, Keyboard, GameWritesCell,
                GameWritesSlot, vars, patchVars
  <2> QED
    BY <2>1 DEF ImageInv
<1> QED
  BY <1>1, <1>2, <1>3, <1>4 DEF Next, ScriptCaving

LEMMA ToldIs ==
    ASSUME NEW list \in Lists, NEW what \in Subjects
    PROVE  ShowNotification(list, what) \in Lists
<1>1. [about |-> what, expired |-> FALSE] \in NotificationSet
  BY DEF NotificationSet
<1> QED
  BY <1>1 DEF Lists, ShowNotification

LEMMA MainTells ==
    ASSUME ListInv, NEW w, Main(w)
    PROVE  /\ shown' = RenderNotifications(notifications)
           /\ ListInv'
<1> DEFINE drawn == RenderNotifications(notifications)
           tell(l, h) == IF h \in Edges THEN ShowNotification(l, h[2]) ELSE l
           one   == tell(drawn, HotKeys[1])
           two   == tell(one, HotKeys[2])
           three == tell(two, HotKeys[3])
<1>1. /\ shown' = drawn
      /\ \/ notifications' = ShowNotification(three, "pilot")
         \/ notifications' = three
  BY DEF Main
<1>2. drawn \in Lists
  BY RenderedAll DEF ListInv
<1>3. /\ HotKeys[1][2] = "space" /\ HotKeys[2][2] = "autored"
      /\ HotKeys[3][2] = "vend"
  BY DEF HotKeys
<1>4. \A l \in Lists : /\ ShowNotification(l, "space") \in Lists
                      /\ ShowNotification(l, "autored") \in Lists
                      /\ ShowNotification(l, "vend") \in Lists
                      /\ ShowNotification(l, "pilot") \in Lists
  BY SubjectsAssumption, ToldIs
<1> HIDE DEF drawn
<1>5. one \in Lists
  BY <1>2, <1>3, <1>4
<1> HIDE DEF one
<1>6. two \in Lists
  BY <1>3, <1>4, <1>5
<1> HIDE DEF two
<1>7. three \in Lists
  BY <1>3, <1>4, <1>6
<1> HIDE DEF three
<1>8. notifications' \in Lists
  BY <1>1, <1>4, <1>7
<1> QED
  BY <1>1, <1>8 DEF drawn, ListInv

LEMMA StepList == ListInv /\ [Next]_vars => ListInv'
<1> SUFFICES ASSUME ListInv, [Next]_vars PROVE ListInv'
  OBVIOUS
<1>1. CASE NotificationExpires
  <2>1. PICK i \in DOMAIN notifications :
          notifications' = [notifications EXCEPT ![i].expired = TRUE]
    BY <1>1 DEF NotificationExpires, Expire
  <2>2. notifications \in Seq(NotificationSet) /\ i \in 1..Len(notifications)
    BY DEF ListInv, Lists
  <2> DEFINE n == notifications[i]
  <2>3. n \in NotificationSet
    BY <2>2
  <2> HIDE DEF n
  <2>4. [n EXCEPT !.expired = TRUE] \in [about : Subjects, expired : BOOLEAN]
    BY <2>3 DEF NotificationSet
  <2>5. notifications' = [notifications EXCEPT ![i] = [n EXCEPT !.expired = TRUE]]
    BY <2>1 DEF n
  <2> QED
    BY <2>2, <2>4, <2>5 DEF ListInv, Lists, NotificationSet
<1>2. CASE Frame
  <2>1. (\E w : Main(w)) \/ UNCHANGED notifications
    BY <1>2 DEF Frame, Crash, notificationVars
  <2> QED
    BY <2>1, MainTells DEF ListInv
<1>3. CASE \/ ScriptCaving \/ Tick \/ Watch \/ Mouse \/ Keyboard
           \/ GameWritesCell \/ GameWritesSlot \/ UNCHANGED vars
  <2>1. UNCHANGED notifications
    BY <1>3 DEF ScriptCaving, Tick, Watch, Mouse, Keyboard, GameWritesCell,
                GameWritesSlot, vars, notificationVars
  <2> QED
    BY <2>1 DEF ListInv
<1> QED
  BY <1>1, <1>2, <1>3 DEF Next

-----------------------------------------------------------------------------

\* The mouse and the keys, for every scenario.
THEOREM ToolsInvariance == Spec => [](MouseInv /\ KeyInv)
<1>1. Init => MouseInv /\ KeyInv
  BY InitTools
<1>2. MouseInv /\ KeyInv /\ [Next]_vars => MouseInv' /\ KeyInv'
  BY StepMouse, StepKeys
<1> QED
  BY <1>1, <1>2, PTL DEF Spec

\* No button stays down for ImGui that the user has let go, wherever the mouse
\* was then, unless the capture was lost.
THEOREM EveryReleaseSeen == Spec => []ReleasesSeen
<1>1. MouseInv => ReleasesSeen
  BY DEF MouseInv
<1> QED
  BY <1>1, ToolsInvariance, PTL

\* The capture ends with the last button, for any order of the buttons.
THEOREM CaptureEnds == Spec => []CaptureReleased
<1>1. MouseInv => CaptureReleased
  BY DEF MouseInv
<1> QED
  BY <1>1, ToolsInvariance, PTL

\* One press of a hotkey or of the chord toggles once at most, whatever tabs
\* are opened while it is down.
THEOREM PressTogglesOnce == Spec => []OnePressOneToggle
<1>1. KeyInv => OnePressOneToggle
  BY DEF KeyInv, OnePressOneToggle
<1> QED
  BY <1>1, ToolsInvariance, PTL

\* Every search of ScriptCaving ends at the first place of its signature that
\* the loop reaches, for every image and whatever was written over it before.
THEOREM SearchesExact == ASSUME ScenariosFit PROVE Spec => ScanExact
<1>1. Init => ImageInv
  BY ScenariosFit, InitForm
<1>2. ImageInv /\ [Next]_vars => ImageInv'
  BY ScenariosFit, StepImage
<1>3. ASSUME ImageInv, [Next]_vars, line < Len(Script), line' # line
      PROVE  LET s == Script[line + 1][1]
             IN  IsResult(address'[s], image, Signature[s])
  <2> DEFINE s == Script[line + 1][1]
             a == SigScan(image, Signature[s])
  <2>1. s \in Scanned /\ IsResult(a, image, Signature[s])
    BY ScenariosFit, <1>3, FoundIs
  <2>2. Search
    <3>1. ~BypassSkills
      BY <1>3 DEF BypassSkills, ImageInv
    <3>2. ~ScriptCaving => UNCHANGED line
      BY <1>3, ScriptIs
         DEF Next, Frame, ScriptDone, ImageInv, Tick, NotificationExpires, Watch, Mouse,
             Keyboard, GameWritesCell, GameWritesSlot, vars, patchVars
    <3> QED
      BY <1>3, <3>1, <3>2 DEF ScriptCaving
  <2>3. address' = [address EXCEPT ![s] = a]
    BY <2>2 DEF Search
  <2>4. DOMAIN address = Scanned
    BY <1>3 DEF ImageInv
  <2> HIDE DEF s, a
  <2>5. address'[s] = a
    BY <2>1, <2>3, <2>4
  <2> QED
    BY <2>1, <2>5 DEF s, a
<1>4. ImageInv /\ [Next]_vars =>
        [line < Len(Script) /\ line' # line =>
           LET s == Script[line + 1][1]
           IN  IsResult(address'[s], image, Signature[s])]_patchVars
  BY <1>3
<1> QED
  BY <1>1, <1>2, <1>4, PTL DEF Spec, ScanExact

\* A frame draws the notifications that have not expired, in their order, for
\* every list and every order in which they expire.
THEOREM FramesRender == ASSUME ScenariosFit PROVE Spec => NotificationsRendered
<1>1. Init => ListInv
  BY ScenariosFit, InitForm
<1>2. ListInv /\ [Next]_vars => ListInv'
  BY StepList
<1>3. ASSUME ListInv, [Next]_vars, Frame, head' = "MAIN", ~crashed'
      PROVE  Rendered(notifications, shown')
  <2>1. \E w : Main(w)
    BY <1>3 DEF Frame, Crash
  <2>2. shown' = RenderNotifications(notifications)
    BY <1>3, <2>1, MainTells
  <2> QED
    BY <1>3, <2>2, RenderedAll DEF ListInv
<1>4. ListInv /\ [Next]_vars =>
        [Frame /\ head' = "MAIN" /\ ~crashed' => Rendered(notifications, shown')]_vars
  BY <1>3
<1> QED
  BY <1>1, <1>2, <1>4, PTL DEF Spec, NotificationsRendered

=============================================================================
