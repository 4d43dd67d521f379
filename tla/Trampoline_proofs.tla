-------------------------- MODULE Trampoline_proofs -------------------------
(***************************************************************************)
(* Proofs about Trampoline for every size of the buffer, of the table of   *)
(* positions and of the instructions: nothing is written behind them, the  *)
(* code moved leaves the trampoline behind the patch, and the jumps copied *)
(* without their destination lead where they led.                          *)
(***************************************************************************)
EXTENDS Trampoline, TLAPS

Kinds == {"plain", "ret", "call", "jmp", "jcc", "loop", "back"}

Instruction == [from : Nat, to : Nat, len : Nat, size : Nat,
                dest : {Outside} \cup 0..(JMP_REL - 1), kind : Kinds]

\* The instructions moved so far, one behind the other.
MovedInv ==
    /\ moved \in Seq(Instruction)
    /\ TypeOK
    /\ \A i \in 1..Len(moved) :
         /\ moved[i].from < oldPos
         /\ moved[i].dest <= jmpDest
         /\ \A j \in 1..Len(moved) : i < j => moved[i].from < moved[j].from

\* Before its last instruction code does not leave the trampoline, so all
\* destinations are within what has been moved.
LastInv ==
    status \in {"checking", "done"} =>
        /\ Len(moved) > 0
        /\ moved[Len(moved)].kind \in {"back", "jmp", "ret"}
        /\ moved[Len(moved)].kind = "back" => moved[Len(moved)].from >= JMP_REL
        /\ \A i \in 1..Len(moved) : moved[i].dest <= moved[Len(moved)].from

\* From a copied jump up to its destination nothing has changed its length.
BranchInv ==
    \A i \in 1..Len(moved) : moved[i].dest # Outside /\ ~Backward =>
        /\ moved[i].size = moved[i].len
        /\ moved[i].from < moved[i].dest
        /\ \A j \in 1..Len(moved) : i < j /\ moved[j].from <= moved[i].dest =>
             moved[j].to - moved[j].from = moved[i].to - moved[i].from
        /\ oldPos <= moved[i].dest =>
             newPos - oldPos = moved[i].to - moved[i].from

\* What a turn of the loop moves: hs is written with a size, dest is the
\* furthest destination then, and last says that the function ends with it.
Moving(hs, copySize, dest, last) ==
    /\ Move(hs, copySize, dest, last)
    /\ hs.len \in Nat /\ hs.len > 0 /\ copySize \in Nat /\ copySize > 0
    /\ hs.dest \in {Outside} \cup 0..(JMP_REL - 1) /\ hs.kind \in Kinds
    /\ dest = (IF jmpDest < hs.dest THEN hs.dest ELSE jmpDest)
    /\ last \in BOOLEAN
    /\ last => /\ hs.dest = Outside
               /\ hs.kind \in {"back", "jmp", "ret"}
               /\ hs.kind = "back" => oldPos >= JMP_REL
               /\ oldPos >= jmpDest
    /\ hs.dest # Outside => copySize = hs.len /\ (Backward \/ oldPos < hs.dest)

-----------------------------------------------------------------------------

\* Each action moves an instruction, or fails.
LEMMA Turns ==
    ASSUME MovedInv, status = "building", Next
    PROVE  Fail \/ \E hs, copySize, dest, last : Moving(hs, copySize, dest, last)
<1> USE DEF JMP_REL, JCC_REL, JMP_REL_SHORT, Outside
<1>a. jmpDest \in 0..4 /\ oldPos \in Nat
  BY DEF MovedInv, TypeOK
<1>1. CASE Complete
  <2>1. PICK len \in 1..MaxLength :
          Move([kind |-> "back", len |-> len, dest |-> Outside], JMP_REL, jmpDest, TRUE)
    BY <1>1 DEF Complete
  <2> DEFINE hs == [kind |-> "back", len |-> len, dest |-> Outside]
  <2>2. /\ hs.len = len /\ hs.kind = "back" /\ hs.dest = Outside
        /\ Move(hs, JMP_REL, jmpDest, TRUE)
    BY <2>1
  <2> HIDE DEF hs
  <2>3. len \in Nat /\ len > 0
    BY TrampolineAssumption
  <2>4. oldPos >= jmpDest /\ oldPos >= JMP_REL
    BY <1>1, <1>a DEF Complete
  <2>5. jmpDest = (IF jmpDest < hs.dest THEN hs.dest ELSE jmpDest)
    BY <1>a, <2>2
  <2>6. PICK size \in Nat : size = JMP_REL
    OBVIOUS
  <2>7. Move(hs, size, jmpDest, TRUE)
    BY <2>2, <2>6
  <2>8. hs.kind \in Kinds /\ hs.kind \in {"back", "jmp", "ret"}
    BY <2>2 DEF Kinds
  <2>9. hs.len \in Nat /\ hs.len > 0 /\ size > 0
    BY <2>2, <2>3, <2>6
  <2>10. hs.dest \in {Outside} \cup 0..(JMP_REL - 1)
    BY <2>2
  <2>11. TRUE => /\ hs.dest = Outside
                 /\ hs.kind \in {"back", "jmp", "ret"}
                 /\ hs.kind = "back" => oldPos >= JMP_REL
                 /\ oldPos >= jmpDest
    BY <2>2, <2>4, <2>8
  <2>12. hs.dest # Outside => size = hs.len /\ (Backward \/ oldPos < hs.dest)
    BY <2>2
  <2>13. Moving(hs, size, jmpDest, TRUE)
    BY <2>5, <2>7, <2>8, <2>9, <2>10, <2>11, <2>12, Zenon DEF Moving
  <2> QED
    BY <2>13
<1>2. ASSUME NEW hs \in Instructions(oldPos)
      PROVE  /\ hs.len \in Nat /\ hs.len > 0 /\ hs.kind \in Kinds
             /\ hs.dest \in {Outside} \cup 0..(JMP_REL - 1)
             /\ hs.dest # Outside => Backward \/ oldPos < hs.dest
             /\ hs.kind \in {"plain", "ret", "call"} => hs.dest = Outside
  <2> DEFINE internal == {d \in 0..(JMP_REL - 1) : Backward \/ d > oldPos}
             dests    == internal \cup {Outside}
  <2>1. CASE hs \in [kind : {"plain"}, len : 1..MaxLength, dest : {Outside}]
    BY <2>1, TrampolineAssumption DEF Kinds
  <2>2. CASE hs \in [kind : {"ret"}, len : {1, 3}, dest : {Outside}]
    BY <2>2 DEF Kinds
  <2>3. CASE hs \in [kind : {"call"}, len : {JMP_REL}, dest : {Outside}]
    BY <2>3 DEF Kinds
  <2>4. CASE hs \in [kind : {"jmp"}, len : {JMP_REL_SHORT, JMP_REL}, dest : dests]
    BY <2>4, <1>a DEF Kinds
  <2>5. CASE hs \in [kind : {"jcc"}, len : {2, JCC_REL}, dest : dests]
    BY <2>5, <1>a DEF Kinds
  <2>6. CASE hs \in [kind : {"loop"}, len : {2}, dest : dests]
    BY <2>6, <1>a DEF Kinds
  <2> QED
    BY <2>1, <2>2, <2>3, <2>4, <2>5, <2>6 DEF Instructions
\* An instruction that does not end the function, as an action moves it.
<1>b. ASSUME NEW hs \in Instructions(oldPos), NEW copySize \in Nat, copySize > 0, NEW dest,
             Move(hs, copySize, dest, FALSE),
             dest = (IF jmpDest < hs.dest THEN hs.dest ELSE jmpDest),
             hs.dest # Outside => copySize = hs.len
      PROVE  Moving(hs, copySize, dest, FALSE)
  BY <1>b, <1>2 DEF Moving
\* An instruction that ends it when no branch leads behind it.
<1>c. ASSUME NEW hs \in Instructions(oldPos), NEW copySize \in Nat, copySize > 0,
             Move(hs, copySize, jmpDest, oldPos >= jmpDest),
             hs.dest = Outside, hs.kind \in {"jmp", "ret"}
      PROVE  \E last : Moving(hs, copySize, jmpDest, last)
  <2>1. jmpDest = (IF jmpDest < hs.dest THEN hs.dest ELSE jmpDest)
    BY <1>a, <1>c
  <2>2. CASE oldPos >= jmpDest
    <3>1. (oldPos >= jmpDest) = TRUE
      BY <2>2
    <3>2. Move(hs, copySize, jmpDest, TRUE)
      BY <1>c, <3>1
    <3>3. Moving(hs, copySize, jmpDest, TRUE)
      BY <1>c, <1>2, <2>1, <2>2, <3>2 DEF Moving
    <3> QED
      BY <3>3
  <2>3. CASE ~(oldPos >= jmpDest)
    <3>1. (oldPos >= jmpDest) = FALSE
      BY <2>3
    <3>2. Move(hs, copySize, jmpDest, FALSE)
      BY <1>c, <3>1
    <3>3. Moving(hs, copySize, jmpDest, FALSE)
      BY <1>b, <1>c, <2>1, <3>2
    <3> QED
      BY <3>3
  <2> QED
    BY <2>2, <2>3
<1>3. CASE MovePlain
  <2>1. PICK hs \in Instructions(oldPos) : hs.kind = "plain" /\ Move(hs, hs.len, jmpDest, FALSE)
    BY <1>3 DEF MovePlain
  <2>2. /\ hs.dest = Outside /\ hs.len \in Nat /\ hs.len > 0
        /\ jmpDest = (IF jmpDest < hs.dest THEN hs.dest ELSE jmpDest)
    BY <1>2, <1>a, <2>1
  <2>3. Moving(hs, hs.len, jmpDest, FALSE)
    BY <1>b, <2>1, <2>2
  <2> QED
    BY <2>3
<1>4. CASE MoveCall
  <2>1. PICK hs \in Instructions(oldPos) : hs.kind = "call" /\ Move(hs, JMP_REL, jmpDest, FALSE)
    BY <1>4 DEF MoveCall
  <2>2. /\ hs.dest = Outside
        /\ jmpDest = (IF jmpDest < hs.dest THEN hs.dest ELSE jmpDest)
    BY <1>2, <1>a, <2>1
  <2>3. PICK size \in Nat : size = JMP_REL
    OBVIOUS
  <2>4. size > 0
    BY <2>3
  <2>5. Move(hs, size, jmpDest, FALSE)
    BY <2>1, <2>3
  <2>6. hs \in Instructions(oldPos)
    BY <2>1
  <2>7. hs.dest # Outside => size = hs.len
    BY <2>2
  <2>8. Moving(hs, size, jmpDest, FALSE)
    BY <1>b, <2>2, <2>4, <2>5, <2>6, <2>7
  <2> QED
    BY <2>8
<1>5. CASE MoveJmp
  <2>1. PICK hs \in Instructions(oldPos) :
          /\ hs.kind = "jmp"
          /\ IF IsInternal(hs)
             THEN Move(hs, hs.len, Greater(jmpDest, hs.dest), FALSE)
             ELSE Move(hs, JMP_REL, jmpDest, oldPos >= jmpDest)
    BY <1>5 DEF MoveJmp
  <2>2. CASE IsInternal(hs)
    <3>1. Move(hs, hs.len, Greater(jmpDest, hs.dest), FALSE)
      BY <2>1, <2>2
    <3>2. Moving(hs, hs.len, Greater(jmpDest, hs.dest), FALSE)
      BY <1>2, <1>b, <3>1 DEF Greater
    <3> QED
      BY <3>2
  <2>3. CASE ~IsInternal(hs)
    <3>1. hs.dest = Outside /\ Move(hs, JMP_REL, jmpDest, oldPos >= jmpDest)
      BY <2>1, <2>3 DEF IsInternal
    <3>2. \E last : Moving(hs, JMP_REL, jmpDest, last)
      BY <1>c, <2>1, <3>1
    <3> QED
      BY <3>2
  <2> QED
    BY <2>2, <2>3
<1>6. CASE MoveJcc
  <2>1. PICK hs \in Instructions(oldPos) :
          \/ IsInternal(hs) /\ Move(hs, hs.len, Greater(jmpDest, hs.dest), FALSE)
          \/ Fail
          \/ ~IsInternal(hs) /\ Move(hs, JCC_REL, jmpDest, FALSE)
    BY <1>6 DEF MoveJcc
  <2>2. CASE IsInternal(hs) /\ Move(hs, hs.len, Greater(jmpDest, hs.dest), FALSE)
    <3>1. Moving(hs, hs.len, Greater(jmpDest, hs.dest), FALSE)
      BY <1>2, <1>b, <2>2 DEF Greater
    <3> QED
      BY <3>1
  <2>3. CASE ~IsInternal(hs) /\ Move(hs, JCC_REL, jmpDest, FALSE)
    <3>1. /\ hs.dest = Outside
          /\ jmpDest = (IF jmpDest < hs.dest THEN hs.dest ELSE jmpDest)
      BY <1>a, <2>3 DEF IsInternal
    <3>2. PICK size \in Nat : size = JCC_REL
      OBVIOUS
    <3>3. size > 0
      BY <3>2
    <3>4. Move(hs, size, jmpDest, FALSE)
      BY <2>3, <3>2
    <3>5. hs \in Instructions(oldPos)
      BY <2>1
    <3>6. hs.dest # Outside => size = hs.len
      BY <3>1
    <3>7. Moving(hs, size, jmpDest, FALSE)
      BY <1>b, <3>1, <3>3, <3>4, <3>5, <3>6
    <3> QED
      BY <3>7
  <2> QED
    BY <2>1, <2>2, <2>3
<1>7. CASE MoveRet
  <2>1. PICK hs \in Instructions(oldPos) :
          hs.kind = "ret" /\ Move(hs, hs.len, jmpDest, oldPos >= jmpDest)
    BY <1>7 DEF MoveRet
  <2>2. hs.dest = Outside /\ hs.len \in Nat /\ hs.len > 0
    BY <1>2, <2>1
  <2>3. \E last : Moving(hs, hs.len, jmpDest, last)
    BY <1>c, <2>1, <2>2
  <2> QED
    BY <2>3
<1> QED
  BY <1>1, <1>3, <1>4, <1>5, <1>6, <1>7 DEF Next, Undecodable, CheckPlace

\* What an instruction that fits changes.
LEMMA Written ==
    ASSUME MovedInv, NEW hs, NEW copySize, NEW dest, NEW last,
           Moving(hs, copySize, dest, last), Fits(hs, dest, copySize)
    PROVE  LET n == Len(moved)
           IN  /\ moved' \in Seq(Instruction) /\ n \in Nat /\ Len(moved') = n + 1
               /\ n + 1 <= MaxIPs
               /\ \A i \in 1..n : moved'[i] = moved[i]
               /\ moved'[n + 1].from = oldPos /\ moved'[n + 1].to = newPos
               /\ moved'[n + 1].len = hs.len /\ moved'[n + 1].size = copySize
               /\ moved'[n + 1].dest = hs.dest /\ moved'[n + 1].kind = hs.kind
               /\ newPos' = newPos + copySize /\ oldPos' = oldPos + hs.len
               /\ newPos' <= TRAMPOLINE_MAX_SIZE
               /\ jmpDest' = dest /\ status' = IF last THEN "checking" ELSE "building"
<1> DEFINE new == [from |-> oldPos, to |-> newPos, len |-> hs.len, size |-> copySize,
                   dest |-> hs.dest, kind |-> hs.kind]
<1>1. /\ moved' = Append(moved, new)
      /\ newPos' = newPos + copySize /\ oldPos' = oldPos + hs.len
      /\ jmpDest' = dest /\ status' = IF last THEN "checking" ELSE "building"
      /\ newPos + copySize <= TRAMPOLINE_MAX_SIZE /\ Len(moved) < MaxIPs
  BY DEF Moving, Move, Fits
<1>2. new \in Instruction
  BY DEF Moving, MovedInv, TypeOK, Instruction
<1> HIDE DEF new
<1>3. moved \in Seq(Instruction) /\ Len(moved) \in Nat
  BY DEF MovedInv
<1>4. Len(moved) + 1 <= MaxIPs
  BY <1>1, <1>3, TrampolineAssumption
<1>5. /\ Len(moved') = Len(moved) + 1 /\ moved' \in Seq(Instruction)
      /\ moved'[Len(moved) + 1] = new
      /\ \A i \in 1..Len(moved) : moved'[i] = moved[i]
  BY <1>1, <1>2, <1>3
<1>6. /\ new.from = oldPos /\ new.to = newPos /\ new.len = hs.len /\ new.size = copySize
      /\ new.dest = hs.dest /\ new.kind = hs.kind
  BY DEF new
<1>7. newPos' <= TRAMPOLINE_MAX_SIZE
  BY <1>1
<1> QED
  BY <1>1, <1>3, <1>4, <1>5, <1>6, <1>7

\* A step keeps what has been moved, or adds an instruction.
LEMMA Steps ==
    ASSUME MovedInv, Next
    PROVE  \/ /\ UNCHANGED <<oldPos, newPos, jmpDest, finished, moved>>
              /\ patchAbove' \in BOOLEAN
              /\ \/ status' = "failed"
                 \/ status = "checking" /\ status' \in {"done", "failed"}
           \/ \E hs, copySize, dest, last :
                /\ Moving(hs, copySize, dest, last) /\ Fits(hs, dest, copySize)
                /\ patchAbove' = patchAbove /\ finished' = last
<1> patchAbove \in BOOLEAN
  BY DEF MovedInv, TypeOK
<1>1. CASE status = "building"
  <2>1. CASE Fail
    BY <2>1 DEF Fail
  <2>2. ASSUME NEW hs, NEW copySize, NEW dest, NEW last, Moving(hs, copySize, dest, last)
        PROVE  \/ Fail
               \/ /\ Moving(hs, copySize, dest, last) /\ Fits(hs, dest, copySize)
                  /\ patchAbove' = patchAbove /\ finished' = last
    BY <2>2, Zenon DEF Moving, Move
  <2> QED
    BY <1>1, <2>1, <2>2, Turns
<1>2. CASE status # "building"
  <2>1. CheckPlace
    BY <1>2 DEF Next, Complete, Undecodable, MovePlain, MoveCall, MoveJmp, MoveJcc,
                MoveRet, Turn
  <2> QED
    BY <2>1 DEF CheckPlace
<1> QED
  BY <1>1, <1>2

LEMMA StepMoved == MovedInv /\ [Next]_vars => MovedInv'
<1> SUFFICES ASSUME MovedInv, [Next]_vars PROVE MovedInv'
  OBVIOUS
<1>1. CASE UNCHANGED vars
  BY <1>1 DEF MovedInv, TypeOK, vars
<1>2. CASE /\ UNCHANGED <<oldPos, newPos, jmpDest, finished, moved>>
           /\ patchAbove' \in BOOLEAN
           /\ status' \in Statuses
  BY <1>2 DEF MovedInv, TypeOK
<1>3. ASSUME NEW hs, NEW copySize, NEW dest, NEW last,
             Moving(hs, copySize, dest, last), Fits(hs, dest, copySize),
             patchAbove' = patchAbove, finished' = last
      PROVE  MovedInv'
  <2> DEFINE n == Len(moved)
  <2>1. /\ moved' \in Seq(Instruction) /\ n \in Nat /\ Len(moved') = n + 1
        /\ n + 1 <= MaxIPs
        /\ \A i \in 1..n : moved'[i] = moved[i]
        /\ moved'[n + 1].from = oldPos /\ moved'[n + 1].dest = hs.dest
        /\ newPos' = newPos + copySize /\ oldPos' = oldPos + hs.len
        /\ newPos' <= TRAMPOLINE_MAX_SIZE
        /\ jmpDest' = dest /\ status' = (IF last THEN "checking" ELSE "building")
    BY <1>3, Written
  <2>2. /\ moved \in Seq(Instruction) /\ oldPos \in Nat /\ newPos \in Nat
        /\ jmpDest \in 0..(JMP_REL - 1)
        /\ patchAbove \in BOOLEAN
        /\ \A i \in 1..n : /\ moved[i].from < oldPos
                           /\ moved[i].dest <= jmpDest
                           /\ \A j \in 1..n : i < j => moved[i].from < moved[j].from
    BY DEF MovedInv, TypeOK
  <2>3. /\ hs.len \in Nat /\ hs.len > 0 /\ copySize \in Nat
        /\ hs.dest \in {Outside} \cup 0..(JMP_REL - 1)
        /\ dest = (IF jmpDest < hs.dest THEN hs.dest ELSE jmpDest)
        /\ last \in BOOLEAN
    BY <1>3 DEF Moving
  <2>4. TypeOK'
    <3>1. dest \in 0..(JMP_REL - 1)
      BY <2>2, <2>3 DEF JMP_REL, Outside
    <3>2. oldPos' \in Nat /\ newPos' \in 0..TRAMPOLINE_MAX_SIZE
      BY <2>1, <2>2, <2>3, TrampolineAssumption
    <3>3. finished' \in BOOLEAN /\ patchAbove' \in BOOLEAN
      BY <1>3, <2>2, <2>3
    <3>4. status' \in Statuses
      BY <2>1 DEF Statuses
    <3> QED
      BY <2>1, <3>1, <3>2, <3>3, <3>4 DEF TypeOK
  <2>5. jmpDest <= dest /\ hs.dest <= dest /\ dest \in Int
    BY <2>2, <2>3 DEF JMP_REL, Outside
  <2>6. \A i \in 1..n : /\ moved[i].from \in Nat
                        /\ moved[i].dest \in {Outside} \cup 0..(JMP_REL - 1)
    <3>1. \A i \in 1..n : moved[i] \in Instruction
      BY <2>2
    <3> QED
      BY <3>1 DEF Instruction
  <2> HIDE DEF n
  <2>7. ASSUME NEW i \in 1..(n + 1)
        PROVE  /\ moved'[i].from < oldPos'
               /\ moved'[i].dest <= jmpDest'
               /\ \A j \in 1..(n + 1) : i < j => moved'[i].from < moved'[j].from
    <3>1. CASE i = n + 1
      BY <2>1, <2>2, <2>3, <2>5, <3>1
    <3>2. CASE i \in 1..n
      <4>a. moved'[i] = moved[i] /\ moved[i].from < oldPos /\ moved[i].dest <= jmpDest
        BY <2>1, <2>2, <3>2
      <4>b. moved[i].from \in Int /\ moved[i].dest \in Int
        BY <2>6, <3>2 DEF JMP_REL, Outside
      <4>c. jmpDest \in Int
        BY <2>2 DEF JMP_REL
      <4>1. /\ moved'[i] = moved[i] /\ moved[i].from \in Int /\ moved[i].dest \in Int
            /\ jmpDest \in Int
        BY <4>a, <4>b, <4>c
      <4>2. moved[i].from < oldPos' /\ moved[i].dest <= jmpDest'
        BY <2>1, <2>2, <2>3, <2>5, <4>a, <4>1
      <4>3. ASSUME NEW j \in 1..(n + 1), i < j
            PROVE  moved[i].from < moved'[j].from
        <5>1. CASE j \in 1..n
          <6>1. moved'[j] = moved[j]
            BY <2>1, <5>1
          <6> QED
            BY <2>2, <3>2, <4>3, <5>1, <6>1
        <5>2. CASE j = n + 1
          BY <2>1, <4>a, <5>2
        <5> QED
          BY <2>1, <5>1, <5>2
      <4> QED
        BY <4>1, <4>2, <4>3
    <3> QED
      BY <2>1, <3>1, <3>2
  <2> QED
    BY <2>1, <2>4, <2>7 DEF MovedInv
<1> QED
  BY <1>1, <1>2, <1>3, Steps DEF Statuses

LEMMA StepLast == MovedInv /\ LastInv /\ [Next]_vars => LastInv'
<1> SUFFICES ASSUME MovedInv, LastInv, [Next]_vars PROVE LastInv'
  OBVIOUS
<1>1. CASE UNCHANGED vars
  BY <1>1 DEF LastInv, vars
<1>2. CASE moved' = moved /\ status' = "failed"
  BY <1>2 DEF LastInv
<1>3. CASE moved' = moved /\ status = "checking"
  BY <1>3 DEF LastInv
<1>4. ASSUME NEW hs, NEW copySize, NEW dest, NEW last,
             Moving(hs, copySize, dest, last), Fits(hs, dest, copySize)
      PROVE  LastInv'
  <2> DEFINE n == Len(moved)
  <2>1. /\ n \in Nat /\ Len(moved') = n + 1
        /\ \A i \in 1..n : moved'[i] = moved[i]
        /\ moved'[n + 1].from = oldPos /\ moved'[n + 1].dest = hs.dest
        /\ moved'[n + 1].kind = hs.kind
        /\ status' = IF last THEN "checking" ELSE "building"
    BY <1>4, Written
  <2>2. /\ oldPos \in Nat /\ jmpDest \in 0..(JMP_REL - 1)
        /\ \A i \in 1..n : /\ moved[i].dest <= jmpDest
                           /\ moved[i].dest \in {Outside} \cup 0..(JMP_REL - 1)
    <3>1. \A i \in 1..n : moved[i] \in Instruction
      BY DEF MovedInv
    <3> QED
      BY <3>1 DEF MovedInv, TypeOK, Instruction
  <2> SUFFICES ASSUME status' \in {"checking", "done"}
               PROVE  /\ n + 1 > 0
                      /\ moved'[n + 1].kind \in {"back", "jmp", "ret"}
                      /\ moved'[n + 1].kind = "back" => moved'[n + 1].from >= JMP_REL
                      /\ \A i \in 1..(n + 1) : moved'[i].dest <= moved'[n + 1].from
    BY <2>1 DEF LastInv
  <2>3. last
    BY <2>1
  <2>4. /\ hs.dest = Outside
        /\ hs.kind \in {"back", "jmp", "ret"}
        /\ hs.kind = "back" => oldPos >= JMP_REL
        /\ oldPos >= jmpDest
    BY <1>4, <2>3 DEF Moving
  <2> HIDE DEF n
  <2>5. ASSUME NEW i \in 1..(n + 1)
        PROVE  moved'[i].dest <= oldPos
    BY <2>1, <2>2, <2>4 DEF JMP_REL, Outside
  <2> QED
    BY <2>1, <2>4, <2>5
<1> QED
  BY <1>1, <1>2, <1>3, <1>4, Steps

LEMMA StepBranch == MovedInv /\ BranchInv /\ [Next]_vars => BranchInv'
<1> SUFFICES ASSUME MovedInv, BranchInv, [Next]_vars PROVE BranchInv'
  OBVIOUS
<1>1. CASE UNCHANGED <<oldPos, newPos, moved>>
  BY <1>1 DEF BranchInv
<1>2. ASSUME NEW hs, NEW copySize, NEW dest, NEW last,
             Moving(hs, copySize, dest, last), Fits(hs, dest, copySize)
      PROVE  BranchInv'
  <2> DEFINE n == Len(moved)
  <2>1. /\ n \in Nat /\ Len(moved') = n + 1
        /\ \A i \in 1..n : moved'[i] = moved[i]
        /\ newPos' = newPos + copySize /\ oldPos' = oldPos + hs.len
    BY <1>2, Written
  <2>2. /\ oldPos \in Nat /\ newPos \in Nat /\ jmpDest \in 0..(JMP_REL - 1)
        /\ \A i \in 1..n : /\ moved[i].dest <= jmpDest
                           /\ moved[i].from \in Nat /\ moved[i].to \in Nat
                           /\ moved[i].dest \in {Outside} \cup 0..(JMP_REL - 1)
    <3>1. \A i \in 1..n : moved[i] \in Instruction
      BY DEF MovedInv
    <3> QED
      BY <3>1 DEF MovedInv, TypeOK, Instruction
  <2>3. /\ hs.len \in Nat /\ hs.len > 0 /\ copySize \in Nat
        /\ hs.dest \in {Outside} \cup 0..(JMP_REL - 1)
        /\ dest = (IF jmpDest < hs.dest THEN hs.dest ELSE jmpDest)
        /\ hs.dest # Outside => copySize = hs.len /\ (Backward \/ oldPos < hs.dest)
    BY <1>2 DEF Moving
  <2>4. ~(oldPos < dest /\ copySize # hs.len)
    BY <1>2 DEF Fits
  <2>5. jmpDest <= dest /\ dest \in Int
    BY <2>2, <2>3 DEF JMP_REL, Outside
  <2>6. \A i \in 1..n : moved[i].dest # Outside /\ ~Backward =>
          /\ moved[i].size = moved[i].len
          /\ moved[i].from < moved[i].dest
          /\ \A j \in 1..n : i < j /\ moved[j].from <= moved[i].dest =>
               moved[j].to - moved[j].from = moved[i].to - moved[i].from
          /\ oldPos <= moved[i].dest =>
               newPos - oldPos = moved[i].to - moved[i].from
    BY DEF BranchInv
  <2>7. /\ moved'[n + 1].from = oldPos /\ moved'[n + 1].to = newPos
        /\ moved'[n + 1].dest = hs.dest /\ moved'[n + 1].size = copySize
        /\ moved'[n + 1].len = hs.len
    BY <1>2, Written
  <2> HIDE DEF n
  <2>8. ASSUME NEW i \in 1..(n + 1), moved'[i].dest # Outside, ~Backward
        PROVE  /\ moved'[i].size = moved'[i].len
               /\ moved'[i].from < moved'[i].dest
               /\ \A j \in 1..(n + 1) : i < j /\ moved'[j].from <= moved'[i].dest =>
                    moved'[j].to - moved'[j].from = moved'[i].to - moved'[i].from
               /\ oldPos' <= moved'[i].dest =>
                    newPos' - oldPos' = moved'[i].to - moved'[i].from
    <3>1. CASE i = n + 1
      <4>1. /\ hs.dest \in Int /\ copySize = hs.len /\ oldPos < hs.dest
            /\ moved'[i].from = oldPos /\ moved'[i].to = newPos
            /\ moved'[i].dest = hs.dest /\ moved'[i].size = copySize
            /\ moved'[i].len = hs.len
        BY <2>3, <2>7, <2>8, <3>1 DEF Outside, JMP_REL
      <4>2. newPos' - oldPos' = newPos - oldPos
        BY <2>1, <2>2, <2>3, <4>1
      <4>3. \A j \in 1..(n + 1) : ~(i < j)
        BY <2>1, <3>1
      <4> QED
        BY <4>1, <4>2, <4>3
    <3>2. CASE i \in 1..n
      <4>1. moved'[i] = moved[i] /\ moved[i].dest # Outside
        BY <2>1, <2>8, <3>2
      <4>2. ASSUME NEW j \in 1..(n + 1), i < j, moved'[j].from <= moved[i].dest
            PROVE  moved'[j].to - moved'[j].from = moved[i].to - moved[i].from
        <5>1. CASE j \in 1..n
          BY <2>1, <2>6, <2>8, <3>2, <4>1, <4>2, <5>1
        <5>2. CASE j = n + 1
          BY <2>6, <2>7, <2>8, <3>2, <4>1, <4>2, <5>2
        <5> QED
          BY <2>1, <5>1, <5>2
      <4>3. ASSUME oldPos' <= moved[i].dest
            PROVE  newPos' - oldPos' = moved[i].to - moved[i].from
        <5>a. moved[i].dest \in Int
          BY <2>2, <3>2 DEF Outside, JMP_REL
        <5>1. oldPos < moved[i].dest /\ moved[i].dest <= jmpDest
          BY <2>1, <2>2, <2>3, <3>2, <4>3, <5>a
        <5>2. copySize = hs.len
          BY <2>2, <2>4, <2>5, <3>2, <5>1 DEF Outside, JMP_REL
        <5>3. newPos - oldPos = moved[i].to - moved[i].from
          BY <2>2, <2>6, <2>8, <3>2, <4>1, <5>1 DEF Outside, JMP_REL
        <5> QED
          BY <2>1, <2>2, <2>3, <5>2, <5>3
      <4> QED
        BY <2>6, <2>8, <3>2, <4>1, <4>2, <4>3
    <3> QED
      BY <2>1, <3>1, <3>2
  <2> QED
    BY <2>1, <2>8 DEF BranchInv
<1> QED
  BY <1>1, <1>2, Steps DEF vars

LEMMA InitMoved == Init => MovedInv /\ LastInv /\ BranchInv
<1> SUFFICES ASSUME Init PROVE MovedInv /\ LastInv /\ BranchInv
  OBVIOUS
<1>1. moved = <<>> /\ moved \in Seq(Instruction) /\ Len(moved) = 0
  BY DEF Init
<1>2. TypeOK
  <2>1. /\ oldPos = 0 /\ newPos = 0 /\ jmpDest = 0 /\ status = "building"
        /\ finished = FALSE /\ patchAbove = FALSE
    BY DEF Init
  <2>2. oldPos \in Nat /\ newPos \in 0..TRAMPOLINE_MAX_SIZE /\ jmpDest \in 0..(JMP_REL - 1)
    BY <2>1, TrampolineAssumption DEF JMP_REL
  <2>3. finished \in BOOLEAN /\ patchAbove \in BOOLEAN
    BY <2>1
  <2>4. Len(moved) <= MaxIPs /\ status \in Statuses
    BY <1>1, <2>1, TrampolineAssumption DEF Statuses
  <2> QED
    BY <2>2, <2>3, <2>4 DEF TypeOK
<1>3. MovedInv
  BY <1>1, <1>2 DEF MovedInv
<1>4. LastInv
  BY DEF Init, LastInv
<1> QED
  BY <1>1, <1>3, <1>4 DEF BranchInv

-----------------------------------------------------------------------------

\* What has been moved is a row of instructions, the last one leaves, and a
\* branch keeps its length, after every number of turns.
THEOREM BuildInvariance == Spec => [](MovedInv /\ LastInv /\ BranchInv)
<1>1. MovedInv /\ LastInv /\ BranchInv /\ [Next]_vars => (MovedInv /\ LastInv /\ BranchInv)'
  BY StepMoved, StepLast, StepBranch
<1> QED
  BY <1>1, InitMoved, PTL DEF Spec

\* Neither the buffer nor the table of positions overflows, for every size of
\* either: CreateTrampolineFunction refuses before it writes.
THEOREM NothingOverflows == Spec => []TypeOK
<1>1. MovedInv => TypeOK
  BY DEF MovedInv
<1> QED
  BY <1>1, BuildInvariance, PTL

\* The last instruction of a trampoline leaves it, behind the patch and behind
\* every destination of a copied jump.
THEOREM LeavesLast == Spec => []LeavesBehindPatch
<1>1. MovedInv /\ LastInv => LeavesBehindPatch
  <2> SUFFICES ASSUME MovedInv, LastInv, status = "done"
               PROVE  /\ moved[Len(moved)].kind \in {"back", "jmp", "ret"}
                      /\ moved[Len(moved)].kind = "back" => moved[Len(moved)].from >= JMP_REL
                      /\ \A i \in DOMAIN moved : moved[i].dest <= moved[Len(moved)].from
    BY DEF LeavesBehindPatch
  <2>1. DOMAIN moved = 1..Len(moved)
    BY DEF MovedInv
  <2> QED
    BY <2>1 DEF LastInv
<1> QED
  BY <1>1, BuildInvariance, PTL

\* In a function that does not jump back into its first bytes, every copied
\* jump leads to the copy of the instruction it led to: the check of the length
\* in a branch is enough.  trampoline_backward shows that it is not without.
THEOREM JumpsLand ==
    ASSUME ~Backward
    PROVE  Spec => []JumpsLandRight
<1>1. MovedInv /\ BranchInv => JumpsLandRight
  <2> SUFFICES ASSUME MovedInv, BranchInv, WellFormed,
                      NEW i \in DOMAIN moved, IsInternal(moved[i])
               PROVE  \E j \in DOMAIN moved :
                        moved[j].from = moved[i].dest /\ moved[j].to = Lands(moved[i])
    BY DEF JumpsLandRight
  <2>1. DOMAIN moved = 1..Len(moved) /\ \A k \in 1..Len(moved) : moved[k] \in Instruction
    BY DEF MovedInv
  <2>2. PICK j \in DOMAIN moved : moved[j].from = moved[i].dest
    BY DEF WellFormed, Boundaries
  <2>3. /\ moved[i].dest # Outside /\ moved[i].size = moved[i].len
        /\ moved[i].from < moved[i].dest
    BY <2>1 DEF BranchInv, IsInternal
  <2>4. /\ i \in Nat /\ j \in Nat
        /\ moved[i].from \in Nat /\ moved[i].to \in Nat /\ moved[i].len \in Nat
        /\ moved[j].from \in Nat /\ moved[j].to \in Nat
    BY <2>1 DEF Instruction
  <2>5. i < j
    <3>1. j < i => moved[j].from < moved[i].from
      BY <2>1 DEF MovedInv
    <3> QED
      BY <2>2, <2>3, <2>4, <3>1
  <2>6. moved[j].to - moved[j].from = moved[i].to - moved[i].from
    BY <2>1, <2>2, <2>3, <2>4, <2>5 DEF BranchInv
  <2>7. moved[j].to = Lands(moved[i])
    BY <2>2, <2>3, <2>4, <2>6 DEF Lands
  <2> QED
    BY <2>2, <2>7
<1> QED
  BY <1>1, BuildInvariance, PTL

=============================================================================
