----------------------------- MODULE Trampoline ------------------------------
(***************************************************************************)
(* CreateTrampolineFunction of minhook/trampoline.c, for x86: instructions *)
(* are moved from the head of a target to a trampoline until the jump to   *)
(* the detour has room.  One step is one turn of the loop.                 *)
(*                                                                         *)
(* What the disassembler finds at the next position is chosen then; it is  *)
(* asked once for each.  An instruction is its length, its kind and, for a *)
(* jump, the offset from the target it leads to, Outside when that is not  *)
(* in the first five bytes.  A CALL leads outside.                         *)
(***************************************************************************)
EXTENDS Integers, Sequences

CONSTANTS
    TRAMPOLINE_MAX_SIZE,
    MaxIPs,             \* ARRAYSIZE(ct->oldIPs)
    MaxLength,          \* of the instructions without a destination
    Backward            \* a function may jump back into its first bytes

ASSUME TrampolineAssumption ==
    /\ TRAMPOLINE_MAX_SIZE \in Nat
    /\ MaxIPs \in Nat
    /\ MaxLength \in Nat
    /\ Backward \in BOOLEAN

JMP_REL       == 5      \* sizeof, of a jump or call
JCC_REL       == 6
JMP_REL_SHORT == 2
Outside       == -1

VARIABLES
    oldPos, newPos,     \* bytes read and written
    jmpDest,            \* the furthest internal destination
    finished,
    moved,              \* the instructions written: where from, where to, what
    patchAbove,
    status              \* "building", "checking", "done", "failed"

vars == <<oldPos, newPos, jmpDest, finished, moved, patchAbove, status>>

Statuses == {"building", "checking", "done", "failed"}

Instructions(pos) ==
    LET internal == {d \in 0..(JMP_REL - 1) : Backward \/ d > pos}
        dests    == internal \cup {Outside}
    IN  [kind : {"plain"}, len : 1..MaxLength, dest : {Outside}]
          \cup [kind : {"ret"}, len : {1, 3}, dest : {Outside}]
          \cup [kind : {"call"}, len : {JMP_REL}, dest : {Outside}]
          \cup [kind : {"jmp"}, len : {JMP_REL_SHORT, JMP_REL}, dest : dests]
          \cup [kind : {"jcc"}, len : {2, JCC_REL}, dest : dests]
          \cup [kind : {"loop"}, len : {2}, dest : dests]

TypeOK ==
    /\ oldPos \in Nat
    /\ newPos \in 0..TRAMPOLINE_MAX_SIZE
    /\ jmpDest \in 0..(JMP_REL - 1)
    /\ finished \in BOOLEAN
    /\ Len(moved) <= MaxIPs
    /\ patchAbove \in BOOLEAN
    /\ status \in Statuses

Init ==
    /\ oldPos = 0 /\ newPos = 0
    /\ jmpDest = 0
    /\ finished = FALSE
    /\ moved = <<>>
    /\ patchAbove = FALSE
    /\ status = "building"

-----------------------------------------------------------------------------

IsInternal(hs) == hs.dest # Outside

Greater(a, b) == IF a < b THEN b ELSE a

Fail ==
    /\ status' = "failed"
    /\ UNCHANGED <<oldPos, newPos, jmpDest, finished, moved, patchAbove>>

\* Mutant: the length of an instruction in a branch may change.
FitsAnyLength(hs, dest, copySize) ==
    /\ newPos + copySize <= TRAMPOLINE_MAX_SIZE
    /\ Len(moved) < MaxIPs

\* Mutant: the last byte of the buffer is not counted.
FitsOneMore(hs, dest, copySize) ==
    /\ ~(oldPos < dest /\ copySize # hs.len)
    /\ newPos + copySize <= TRAMPOLINE_MAX_SIZE + 1
    /\ Len(moved) < MaxIPs

\* No length changes in a branch, the code fits the buffer, and the table of
\* positions has room.
Fits(hs, dest, copySize) ==
    /\ ~(oldPos < dest /\ copySize # hs.len)
    /\ newPos + copySize <= TRAMPOLINE_MAX_SIZE
    /\ Len(moved) < MaxIPs

\* The end of a turn: the instruction is written with a size, as it is or
\* adjusted to its new place.
Move(hs, copySize, dest, last) ==
    IF Fits(hs, dest, copySize)
    THEN /\ moved' = Append(moved, [from |-> oldPos, to |-> newPos, len |-> hs.len,
                                    size |-> copySize, dest |-> hs.dest,
                                    kind |-> hs.kind])
         /\ newPos' = newPos + copySize
         /\ oldPos' = oldPos + hs.len
         /\ jmpDest' = dest
         /\ finished' = last
         /\ status' = IF last THEN "checking" ELSE "building"
         /\ UNCHANGED patchAbove
    ELSE Fail

Turn ==
    /\ status = "building"
    /\ oldPos < JMP_REL

\* The trampoline is long enough: the jump back to the target.
Complete ==
    /\ status = "building"
    /\ oldPos >= JMP_REL
    /\ \E len \in 1..MaxLength :
         Move([kind |-> "back", len |-> len, dest |-> Outside], JMP_REL, jmpDest, TRUE)

\* The disassembler does not know the instruction.
Undecodable ==
    /\ status = "building"
    /\ Fail

MovePlain ==
    /\ Turn
    /\ \E hs \in Instructions(oldPos) :
         hs.kind = "plain" /\ Move(hs, hs.len, jmpDest, FALSE)

MoveCall ==
    /\ Turn
    /\ \E hs \in Instructions(oldPos) :
         hs.kind = "call" /\ Move(hs, JMP_REL, jmpDest, FALSE)

\* An internal jump is copied.  Another one is written in its long form, and
\* ends the function when no branch leads behind it.
MoveJmp ==
    /\ Turn
    /\ \E hs \in Instructions(oldPos) :
         /\ hs.kind = "jmp"
         /\ IF IsInternal(hs)
            THEN Move(hs, hs.len, Greater(jmpDest, hs.dest), FALSE)
            ELSE Move(hs, JMP_REL, jmpDest, oldPos >= jmpDest)

\* A conditional jump; LOOP and JECXZ have no long form.
MoveJcc ==
    /\ Turn
    /\ \E hs \in Instructions(oldPos) :
         /\ hs.kind \in {"jcc", "loop"}
         /\ \/ /\ IsInternal(hs)
               /\ Move(hs, hs.len, Greater(jmpDest, hs.dest), FALSE)
            \/ /\ ~IsInternal(hs) /\ hs.kind = "loop"
               /\ Fail
            \/ /\ ~IsInternal(hs) /\ hs.kind = "jcc"
               /\ Move(hs, JCC_REL, jmpDest, FALSE)

\* Mutant: a RET ends the function whatever leads behind it.
MoveRetAlways ==
    /\ Turn
    /\ \E hs \in Instructions(oldPos) :
         hs.kind = "ret" /\ Move(hs, hs.len, jmpDest, TRUE)

MoveRet ==
    /\ Turn
    /\ \E hs \in Instructions(oldPos) :
         hs.kind = "ret" /\ Move(hs, hs.len, jmpDest, oldPos >= jmpDest)

\* Is there room for the long jump, else for a short jump to a long jump
\* above?  How many bytes of padding follow the function, and whether five
\* precede it, is chosen here.
CheckPlace ==
    /\ status = "checking"
    /\ \E padding \in 0..JMP_REL, above \in BOOLEAN :
         \/ /\ oldPos + padding >= JMP_REL
            /\ status' = "done" /\ patchAbove' = FALSE
         \/ /\ oldPos + padding < JMP_REL
            /\ oldPos + padding >= JMP_REL_SHORT /\ above
            /\ status' = "done" /\ patchAbove' = TRUE
         \/ /\ oldPos + padding < JMP_REL
            /\ ~(oldPos + padding >= JMP_REL_SHORT /\ above)
            /\ status' = "failed" /\ UNCHANGED patchAbove
    /\ UNCHANGED <<oldPos, newPos, jmpDest, finished, moved>>

Next ==
    \/ Complete \/ Undecodable \/ MovePlain \/ MoveCall \/ MoveJmp \/ MoveJcc
    \/ MoveRet \/ CheckPlace

Spec == Init /\ [][Next]_vars

-----------------------------------------------------------------------------
(* Properties.  A function whose jump leads between two instructions is not *)
(* one the library can know about: the properties are about the others.     *)

Boundaries == {moved[i].from : i \in DOMAIN moved}
WellFormed == \A i \in DOMAIN moved :
    IsInternal(moved[i]) => moved[i].dest \in Boundaries

\* Where a copied jump leads in the trampoline: its displacement is the old one.
Lands(m) == m.to + m.size + (m.dest - (m.from + m.len))

\* trampoline.c: "Can't alter the instruction length in a branch."  A copied
\* jump leads to the copy of the instruction it led to.
JumpsLandRight ==
    status = "done" /\ WellFormed =>
        \A i \in DOMAIN moved : IsInternal(moved[i]) =>
            \E j \in DOMAIN moved :
                moved[j].from = moved[i].dest /\ moved[j].to = Lands(moved[i])

\* No way through a trampoline runs off its end or back into the bytes that
\* the patch overwrites: the last instruction leaves it, behind the patch.
LeavesBehindPatch ==
    status = "done" =>
        LET last == moved[Len(moved)]
        IN  /\ last.kind \in {"back", "jmp", "ret"}
            /\ last.kind = "back" => last.from >= JMP_REL
            /\ \A i \in DOMAIN moved : moved[i].dest <= last.from

=============================================================================
