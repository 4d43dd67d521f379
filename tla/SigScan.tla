------------------------------ MODULE SigScan -------------------------------
(***************************************************************************)
(* AutoScript.h: the search for a signature in the image of a module, and  *)
(* the jump that script() writes over the place found.                     *)
(*                                                                         *)
(* Positions count from the base of the image.  An image is the sequence   *)
(* of its bytes, empty when the module is not loaded; what lies behind it  *)
(* cannot be read.  A pattern and its mask are one sequence, in which      *)
(* Wildcard stands for a byte that is not compared.                        *)
(***************************************************************************)
EXTENDS Integers, Sequences

CONSTANT DWORDSize  \* number of values of a DWORD

ASSUME DWORDAssumption == DWORDSize \in Nat \ {0}

\* A '?' of the mask.
Wildcard == -1

Wrap(n) == n % DWORDSize

\* What a search comes to besides a position: 0x0, or a read that faults.
NotFound == -1
Fault    == -2

MatchesAt(image, pattern, i) ==
    \A j \in 1..Len(pattern) :
        pattern[j] = Wildcard \/ pattern[j] = image[i + j]

\* Mutant: the difference does not wrap around.
ScanEndSigned(image, pattern) ==
    LET d == Len(image) - Len(pattern)
    IN  IF d < 0 THEN 0 ELSE d

\* The bound of the loop: size - patternLength, both unsigned.
ScanEnd(image, pattern) == Wrap(Len(image) - Len(pattern))

\* The loop.  All bytes under the pattern are read before the verdict.
SigScan(image, pattern) ==
    LET scan[i \in 0..ScanEnd(image, pattern)] ==
            IF /\ i # ScanEnd(image, pattern)
               /\ i + Len(pattern) <= Len(image)
               /\ ~MatchesAt(image, pattern, i)
              THEN scan[i + 1]
            ELSE IF i = ScanEnd(image, pattern) THEN NotFound
            ELSE IF i + Len(pattern) > Len(image) THEN Fault
            ELSE i
    IN  scan[0]

-----------------------------------------------------------------------------
(* What a search should come to. *)

Occurrences(image, pattern) ==
    {i \in 0..(Len(image) - Len(pattern)) : MatchesAt(image, pattern, i)}

\* The loop ends before the last position.
Seen(image, pattern) ==
    Occurrences(image, pattern) \ {Len(image) - Len(pattern)}

\* r is the first occurrence, NotFound when there is none, and a fault when
\* the image is shorter than the pattern.
IsResult(r, image, pattern) ==
    IF Len(image) < Len(pattern) THEN r = Fault
    ELSE IF Seen(image, pattern) = {} THEN r = NotFound
    ELSE /\ r \in Seen(image, pattern)
         /\ \A i \in Seen(image, pattern) : r <= i

=============================================================================
