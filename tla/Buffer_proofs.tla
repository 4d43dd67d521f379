---------------------------- MODULE Buffer_proofs ---------------------------
(***************************************************************************)
(* Proofs about Buffer for every size of blocks and slots and all regions: *)
(* buffers in use never overlap, and blocks, slots and their counts agree. *)
(***************************************************************************)
EXTENDS Buffer, FiniteSetTheorems, SequenceTheorems, WellFoundedInduction, TLAPS

OwnedIn(b) == {p \in owned : BlockOf(p) = b}

\* The list of blocks and what is known of each region.
BlocksInv ==
    /\ g_pMemoryBlocks \in Seq(Regions)
    /\ IsInjective(g_pMemoryBlocks)
    /\ Blocks = mapped
    /\ pFree \in [Regions -> Seq(Nat)]
    /\ usedCount \in [Regions -> Nat]

\* What is in use belongs to a block that is mapped, and is counted there.
OwnedInv ==
    /\ \A p \in owned : \E b \in mapped : p \in SlotsOf(b)
    /\ \A b \in mapped :
         /\ IsFiniteSet(OwnedIn(b))
         /\ usedCount[b] = Cardinality(OwnedIn(b))
         /\ usedCount[b] > 0

BufferInv == BlocksInv /\ OwnedInv /\ SlotsAccounted

-----------------------------------------------------------------------------
(* Arithmetic of blocks and slots. *)

LEMMA Sizes ==
    /\ MEMORY_SLOT_SIZE \in Nat /\ MEMORY_SLOT_SIZE > 0
    /\ MEMORY_BLOCK_SIZE \in Nat /\ MEMORY_BLOCK_SIZE > 0
    /\ SlotCount \in Nat /\ SlotCount > 0
    /\ (SlotCount + 1) * MEMORY_SLOT_SIZE <= MEMORY_BLOCK_SIZE
<1>1. /\ MEMORY_SLOT_SIZE \in Nat /\ MEMORY_SLOT_SIZE > 0
      /\ MEMORY_BLOCK_SIZE \in Nat /\ MEMORY_BLOCK_SIZE >= 2 * MEMORY_SLOT_SIZE
  BY BufferAssumption
<1> DEFINE d == MEMORY_BLOCK_SIZE \div MEMORY_SLOT_SIZE
<1>2. d \in Int /\ d * MEMORY_SLOT_SIZE <= MEMORY_BLOCK_SIZE
  BY <1>1
<1>3. d >= 2
  BY <1>1
<1>4. SlotCount + 1 = d
  BY <1>2 DEF SlotCount
<1> HIDE DEF d
<1> QED
  BY <1>1, <1>2, <1>3, <1>4 DEF SlotCount

\* A region starts at a multiple of the size of a block.
LEMMA RegionStart ==
    ASSUME NEW r \in Regions
    PROVE  /\ r \in Nat /\ r \div MEMORY_BLOCK_SIZE \in Nat
           /\ r = (r \div MEMORY_BLOCK_SIZE) * MEMORY_BLOCK_SIZE
<1>1. r \in Nat /\ r % MEMORY_BLOCK_SIZE = 0
  BY BufferAssumption
<1> QED
  BY <1>1, Sizes

\* A slot lies in its block, behind the head.
LEMMA SlotInside ==
    ASSUME NEW r \in Regions, NEW k \in 1..SlotCount
    PROVE  /\ Slot(r, k) \in Nat
           /\ r + MEMORY_SLOT_SIZE <= Slot(r, k)
           /\ Slot(r, k) + MEMORY_SLOT_SIZE <= r + MEMORY_BLOCK_SIZE
<1>1. k \in Nat /\ k >= 1 /\ k + 1 <= SlotCount + 1 /\ r \in Nat
  BY Sizes, RegionStart
<1>2. k * MEMORY_SLOT_SIZE \in Nat /\ MEMORY_SLOT_SIZE <= k * MEMORY_SLOT_SIZE
  BY <1>1, Sizes
<1>3. k * MEMORY_SLOT_SIZE + MEMORY_SLOT_SIZE <= (SlotCount + 1) * MEMORY_SLOT_SIZE
  BY <1>1, Sizes
<1> QED
  BY <1>1, <1>2, <1>3, Sizes DEF Slot

\* FreeBuffer finds the block of each of its slots by rounding down.
LEMMA SlotBlock ==
    ASSUME NEW r \in Regions, NEW p \in SlotsOf(r)
    PROVE  BlockOf(p) = r /\ p \in Nat
<1>1. PICK k \in 1..SlotCount : p = Slot(r, k)
  BY DEF SlotsOf
<1>2. p \in Nat /\ r <= p /\ p < r + MEMORY_BLOCK_SIZE
  BY <1>1, SlotInside, Sizes, RegionStart
<1>3. p \div MEMORY_BLOCK_SIZE = r \div MEMORY_BLOCK_SIZE
  <2> DEFINE q == r \div MEMORY_BLOCK_SIZE
             e == p - r
  <2>a. r \in Nat /\ q \in Nat /\ r = q * MEMORY_BLOCK_SIZE
    BY RegionStart
  <2>b. e \in Nat /\ e < MEMORY_BLOCK_SIZE /\ p = r + e
    BY <1>2, <2>a, Sizes
  <2> HIDE DEF q, e
  <2>1. q \in Nat /\ e \in Nat /\ e < MEMORY_BLOCK_SIZE /\ p = q * MEMORY_BLOCK_SIZE + e
    BY <2>a, <2>b
  <2>2. (q * MEMORY_BLOCK_SIZE + e) \div MEMORY_BLOCK_SIZE = q
    BY <2>1, Sizes
  <2> QED
    BY <2>1, <2>2 DEF q
<1> QED
  BY <1>2, <1>3, RegionStart DEF BlockOf

\* Different slots of a block do not overlap.
LEMMA SlotsApart ==
    ASSUME NEW r \in Regions, NEW k \in 1..SlotCount, NEW l \in 1..SlotCount, k < l
    PROVE  Slot(r, k) + MEMORY_SLOT_SIZE <= Slot(r, l)
<1>1. k * MEMORY_SLOT_SIZE + MEMORY_SLOT_SIZE <= l * MEMORY_SLOT_SIZE
  <2>1. k \in Nat /\ l \in Nat /\ k + 1 <= l
    BY Sizes
  <2> QED
    BY <2>1, Sizes
<1>2. k * MEMORY_SLOT_SIZE \in Nat /\ l * MEMORY_SLOT_SIZE \in Nat
  BY Sizes
<1> QED
  BY <1>1, <1>2, RegionStart, Sizes DEF Slot

\* Nor do different blocks.
LEMMA BlocksApart ==
    ASSUME NEW r \in Regions, NEW s \in Regions, r < s
    PROVE  r + MEMORY_BLOCK_SIZE <= s
<1> DEFINE m == r \div MEMORY_BLOCK_SIZE
           n == s \div MEMORY_BLOCK_SIZE
<1>1. /\ m \in Nat /\ n \in Nat
      /\ r = m * MEMORY_BLOCK_SIZE /\ s = n * MEMORY_BLOCK_SIZE
  BY RegionStart
<1> HIDE DEF m, n
<1>2. m < n
  BY <1>1, Sizes
<1>3. m * MEMORY_BLOCK_SIZE + MEMORY_BLOCK_SIZE <= n * MEMORY_BLOCK_SIZE
  BY <1>1, <1>2, Sizes
<1> QED
  BY <1>1, <1>3

-----------------------------------------------------------------------------
(* Lists without repetition. *)

LEMMA TailInjective ==
    ASSUME NEW S, NEW s \in Seq(S), s # <<>>, IsInjective(s)
    PROVE  /\ Tail(s) \in Seq(S) /\ Head(s) \in S /\ Head(s) \in Range(s)
           /\ IsInjective(Tail(s))
           /\ Range(Tail(s)) = Range(s) \ {Head(s)}
<1>1. /\ Tail(s) \in Seq(S) /\ Head(s) \in S /\ Head(s) = s[1]
      /\ Len(Tail(s)) = Len(s) - 1 /\ Len(s) \in Nat /\ Len(s) > 0
      /\ \A i \in 1..(Len(s) - 1) : Tail(s)[i] = s[i + 1]
      /\ DOMAIN s = 1..Len(s) /\ DOMAIN Tail(s) = 1..(Len(s) - 1)
  BY HeadTailProperties
<1>2. \A i, j \in 1..Len(s) : s[i] = s[j] => i = j
  BY <1>1 DEF IsInjective
<1>3. IsInjective(Tail(s))
  BY <1>1, <1>2 DEF IsInjective
<1>4. ASSUME NEW x \in Range(Tail(s)) PROVE x \in Range(s) \ {Head(s)}
  <2>1. PICK i \in 1..(Len(s) - 1) : x = s[i + 1]
    BY <1>1 DEF Range
  <2>2. i + 1 \in 1..Len(s) /\ i + 1 # 1 /\ 1 \in 1..Len(s)
    BY <1>1
  <2> QED
    BY <1>1, <1>2, <2>1, <2>2 DEF Range
<1>5. ASSUME NEW x \in Range(s), x # Head(s) PROVE x \in Range(Tail(s))
  <2>1. PICK i \in 1..Len(s) : x = s[i]
    BY <1>1 DEF Range
  <2>2. i - 1 \in 1..(Len(s) - 1) /\ (i - 1) + 1 = i
    BY <1>1, <1>5, <2>1
  <2>3. Tail(s)[i - 1] = x
    BY <1>1, <2>1, <2>2
  <2> QED
    BY <1>1, <2>2, <2>3 DEF Range
<1>6. Head(s) \in Range(s)
  BY <1>1 DEF Range
<1> QED
  BY <1>1, <1>3, <1>4, <1>5, <1>6

LEMMA PushInjective ==
    ASSUME NEW S, NEW s \in Seq(S), IsInjective(s), NEW x \in S, x \notin Range(s)
    PROVE  /\ <<x>> \o s \in Seq(S)
           /\ IsInjective(<<x>> \o s)
           /\ Range(<<x>> \o s) = Range(s) \cup {x}
<1> DEFINE t == <<x>> \o s
<1>1. /\ t \in Seq(S) /\ DOMAIN t = 1..(Len(s) + 1) /\ DOMAIN s = 1..Len(s)
      /\ Len(s) \in Nat
      /\ \A i \in 1..(Len(s) + 1) : t[i] = IF i = 1 THEN x ELSE s[i - 1]
  <2>1. <<x>> \in Seq(S) /\ Len(<<x>>) = 1 /\ <<x>>[1] = x
    OBVIOUS
  <2> QED
    BY <2>1, ConcatProperties
<1> HIDE DEF t
<1>2. IsInjective(t)
  <2> SUFFICES ASSUME NEW i \in 1..(Len(s) + 1), NEW j \in 1..(Len(s) + 1), t[i] = t[j]
               PROVE  i = j
    BY <1>1 DEF IsInjective
  <2>1. i # 1 => i - 1 \in 1..Len(s) /\ t[i] = s[i - 1]
    BY <1>1
  <2>2. j # 1 => j - 1 \in 1..Len(s) /\ t[j] = s[j - 1]
    BY <1>1
  <2>3. \A k \in 1..Len(s) : s[k] # x
    BY <1>1 DEF Range
  <2>4. 1 \in 1..(Len(s) + 1) /\ t[1] = x
    BY <1>1
  <2>5. CASE i # 1 /\ j # 1
    BY <1>1, <2>1, <2>2, <2>5 DEF IsInjective
  <2>6. CASE i = 1 \/ j = 1
    BY <2>1, <2>2, <2>3, <2>4, <2>6
  <2> QED
    BY <2>5, <2>6
<1>3. \A y : y \in Range(t) <=> y = x \/ y \in Range(s)
  <2>1. ASSUME NEW y \in Range(t) PROVE y = x \/ y \in Range(s)
    <3>1. PICK i \in 1..(Len(s) + 1) : y = t[i]
      BY <1>1 DEF Range
    <3>2. i # 1 => i - 1 \in 1..Len(s)
      BY <1>1
    <3> QED
      BY <1>1, <3>1, <3>2 DEF Range
  <2>2. x \in Range(t)
    <3>1. 1 \in 1..(Len(s) + 1) /\ t[1] = x
      BY <1>1
    <3> QED
      BY <1>1, <3>1 DEF Range
  <2>3. ASSUME NEW y \in Range(s) PROVE y \in Range(t)
    <3>1. PICK i \in 1..Len(s) : y = s[i]
      BY <1>1 DEF Range
    <3>2. i + 1 \in 1..(Len(s) + 1) /\ t[i + 1] = s[i]
      BY <1>1
    <3> QED
      BY <1>1, <3>1, <3>2 DEF Range
  <2> QED
    BY <2>1, <2>2, <2>3
<1> QED
  BY <1>1, <1>2, <1>3 DEF t

\* The slots of a new block are all of them, once each.
LEMMA FreshSlots ==
    ASSUME NEW r \in Regions
    PROVE  LET list == [k \in DOMAIN FreshList |-> Slot(r, FreshList[k])]
           IN  /\ list \in Seq(Nat) /\ list # <<>>
               /\ IsInjective(list) /\ Range(list) = SlotsOf(r)
<1> DEFINE list == [k \in DOMAIN FreshList |-> Slot(r, FreshList[k])]
<1>1. list = [k \in 1..SlotCount |-> Slot(r, SlotCount + 1 - k)]
  BY DEF FreshList
<1> HIDE DEF list
<1>2. SlotCount \in Nat /\ SlotCount > 0
  BY Sizes
<1>3. \A k \in 1..SlotCount : SlotCount + 1 - k \in 1..SlotCount
  BY <1>2
<1>4. list \in [1..SlotCount -> Nat]
  BY <1>1, <1>3, SlotInside
<1>5. list \in Seq(Nat) /\ DOMAIN list = 1..SlotCount /\ list # <<>>
  BY <1>2, <1>4, SeqDef
<1>6. IsInjective(list)
  <2> SUFFICES ASSUME NEW i \in 1..SlotCount, NEW j \in 1..SlotCount, i < j
               PROVE  list[i] # list[j]
    BY <1>2, <1>5 DEF IsInjective
  <2>1. /\ SlotCount + 1 - j \in 1..SlotCount /\ SlotCount + 1 - i \in 1..SlotCount
        /\ SlotCount + 1 - j < SlotCount + 1 - i
    BY <1>2
  <2>2. list[j] + MEMORY_SLOT_SIZE <= list[i]
    BY <1>1, <2>1, SlotsApart
  <2> QED
    BY <1>4, <2>2, Sizes
<1>7. Range(list) = SlotsOf(r)
  <2>1. ASSUME NEW k \in 1..SlotCount PROVE \E i \in 1..SlotCount : list[i] = Slot(r, k)
    <3>1. SlotCount + 1 - k \in 1..SlotCount /\ SlotCount + 1 - (SlotCount + 1 - k) = k
      BY <1>2
    <3>2. list[SlotCount + 1 - k] = Slot(r, k)
      BY <1>1, <3>1
    <3> QED
      BY <3>1, <3>2
  <2>2. \A i \in 1..SlotCount : list[i] \in SlotsOf(r)
    BY <1>1, <1>3 DEF SlotsOf
  <2> QED
    BY <1>5, <2>1, <2>2 DEF Range, SlotsOf
<1> QED
  BY <1>5, <1>6, <1>7 DEF list

-----------------------------------------------------------------------------
(* The steps. *)

LEMMA InBlocks ==
    ASSUME BufferInv
    PROVE  /\ mapped \subseteq Regions
           /\ \A p \in owned : /\ BlockOf(p) \in mapped
                               /\ p \in SlotsOf(BlockOf(p)) /\ p \in Nat
<1>1. mapped \subseteq Regions
  BY DEF BufferInv, BlocksInv, Blocks
<1>2. ASSUME NEW p \in owned
      PROVE  BlockOf(p) \in mapped /\ p \in SlotsOf(BlockOf(p)) /\ p \in Nat
  <2>1. PICK b \in mapped : p \in SlotsOf(b)
    BY DEF BufferInv, OwnedInv
  <2>2. BlockOf(p) = b /\ p \in Nat
    BY <1>1, <2>1, SlotBlock
  <2> QED
    BY <2>1, <2>2
<1> QED
  BY <1>1, <1>2

\* A slot taken from a block is in use and no longer in its list, and no other
\* block notices.
LEMMA Taken ==
    ASSUME BufferInv, NEW b \in Regions, NEW list \in Seq(Nat), list # <<>>,
           IsInjective(list), IsFiniteSet(OwnedIn(b)),
           Range(list) \cap owned = {}, Range(list) \cup OwnedIn(b) = SlotsOf(b),
           Take(b, list)
    PROVE  /\ pFree' \in [Regions -> Seq(Nat)]
           /\ IsFiniteSet(OwnedIn(b)')
           /\ Cardinality(OwnedIn(b)') = Cardinality(OwnedIn(b)) + 1
           /\ IsInjective(pFree'[b])
           /\ Range(pFree'[b]) \cap owned' = {}
           /\ Range(pFree'[b]) \cup OwnedIn(b)' = SlotsOf(b)
           /\ \A p \in owned' : p \in owned \/ p \in SlotsOf(b)
           /\ \A c \in mapped : c # b =>
                /\ OwnedIn(c)' = OwnedIn(c) /\ pFree'[c] = pFree[c]
                /\ Range(pFree[c]) \cap owned' = {}
<1> DEFINE h == Head(list)
<1>1. /\ Tail(list) \in Seq(Nat) /\ h \in Range(list) /\ IsInjective(Tail(list))
      /\ Range(Tail(list)) = Range(list) \ {h}
  BY TailInjective
<1>2. pFree' = [pFree EXCEPT ![b] = Tail(list)] /\ owned' = owned \cup {h}
  BY DEF Take
<1>3. pFree \in [Regions -> Seq(Nat)] /\ mapped \subseteq Regions
  BY InBlocks DEF BufferInv, BlocksInv
<1>4. h \in SlotsOf(b) /\ h \notin owned /\ BlockOf(h) = b
  BY <1>1, SlotBlock
<1> HIDE DEF h
<1>5. OwnedIn(b)' = OwnedIn(b) \cup {h} /\ h \notin OwnedIn(b)
  BY <1>2, <1>4 DEF OwnedIn, BlockOf
<1>6. /\ IsFiniteSet(OwnedIn(b)')
      /\ Cardinality(OwnedIn(b)') = Cardinality(OwnedIn(b)) + 1
  BY <1>5, FS_AddElement
<1>7. pFree'[b] = Tail(list)
  BY <1>2, <1>3
<1>8. ASSUME NEW c \in mapped, c # b
      PROVE  /\ OwnedIn(c)' = OwnedIn(c) /\ pFree'[c] = pFree[c]
             /\ Range(pFree[c]) \cap owned' = {}
  <2>1. OwnedIn(c)' = OwnedIn(c) /\ pFree'[c] = pFree[c]
    BY <1>2, <1>3, <1>4, <1>8 DEF OwnedIn, BlockOf
  <2>2. Range(pFree[c]) \cap owned = {} /\ Range(pFree[c]) \subseteq SlotsOf(c)
    BY DEF BufferInv, BlocksInv, SlotsAccounted
  <2>3. h \notin SlotsOf(c)
    BY <1>3, <1>4, <1>8, SlotBlock
  <2> QED
    BY <1>2, <2>1, <2>2, <2>3
<1>9. pFree' \in [Regions -> Seq(Nat)]
  BY <1>1, <1>2, <1>3
<1>10. Range(pFree'[b]) \cap owned' = {} /\ Range(pFree'[b]) \cup OwnedIn(b)' = SlotsOf(b)
  BY <1>1, <1>2, <1>4, <1>5, <1>7
<1>11. \A p \in owned' : p \in owned \/ p \in SlotsOf(b)
  BY <1>2, <1>4
<1> QED
  BY <1>1, <1>6, <1>7, <1>8, <1>9, <1>10, <1>11

\* The walk along the list finds a block with an unused slot if there is one.
LEMMA WalkFinds ==
    ASSUME BufferInv, \E i \in DOMAIN g_pMemoryBlocks : HasFree(i)
    PROVE  FirstWithFree \in mapped /\ pFree[FirstWithFree] # <<>>
<1> DEFINE R == {ss \in Nat \X Nat : ss[1] < ss[2]}
           S == {i \in DOMAIN g_pMemoryBlocks : HasFree(i)}
<1>1. IsWellFoundedOn(R, Nat)
  BY NatLessThanWellFounded DEF OpToRel
<1>2. /\ S \subseteq Nat /\ S # {}
      /\ DOMAIN g_pMemoryBlocks = 1..Len(g_pMemoryBlocks) /\ Len(g_pMemoryBlocks) \in Nat
  BY DEF BufferInv, BlocksInv
<1> HIDE DEF R
<1>3. PICK i \in S : \A j \in S : ~(<<j, i>> \in R)
  BY <1>1, <1>2, WFMin
<1>4. \A j \in 1..(i - 1) : ~HasFree(j)
  <2> SUFFICES ASSUME NEW j \in 1..(i - 1), HasFree(j) PROVE FALSE
    OBVIOUS
  <2>1. i \in Nat /\ i <= Len(g_pMemoryBlocks)
    BY <1>2
  <2>2. j \in S /\ j < i /\ j \in Nat
    BY <1>2, <2>1
  <2>3. <<j, i>> \in R
    BY <2>1, <2>2 DEF R
  <2> QED
    BY <1>3, <2>2, <2>3
<1>5. \E k \in DOMAIN g_pMemoryBlocks :
         /\ HasFree(k) /\ \A j \in 1..(k - 1) : ~HasFree(j)
  BY <1>3, <1>4
<1>6. PICK k \in DOMAIN g_pMemoryBlocks :
         HasFree(k) /\ FirstWithFree = g_pMemoryBlocks[k]
  BY <1>5 DEF FirstWithFree
<1> QED
  BY <1>6 DEF HasFree, BufferInv, BlocksInv, Blocks

LEMMA StepAllocateFromBlock == BufferInv /\ AllocateFromBlock => BufferInv'
<1> SUFFICES ASSUME BufferInv, AllocateFromBlock PROVE BufferInv'
  OBVIOUS
<1>0. FirstWithFree \in mapped /\ pFree[FirstWithFree] # <<>> /\ mapped \subseteq Regions
  BY WalkFinds, InBlocks DEF AllocateFromBlock
<1> PICK b \in Regions : b = FirstWithFree
  BY <1>0
<1>1. b \in mapped /\ pFree[b] # <<>> /\ mapped \subseteq Regions
  BY <1>0
<1>2. /\ Take(b, pFree[b]) /\ usedCount' = [usedCount EXCEPT ![b] = @ + 1]
      /\ UNCHANGED <<g_pMemoryBlocks, mapped>>
  BY DEF AllocateFromBlock
<1>3. /\ pFree[b] \in Seq(Nat) /\ IsInjective(pFree[b]) /\ IsFiniteSet(OwnedIn(b))
      /\ Range(pFree[b]) \cap owned = {} /\ Range(pFree[b]) \cup OwnedIn(b) = SlotsOf(b)
      /\ usedCount[b] = Cardinality(OwnedIn(b)) /\ usedCount[b] \in Nat
  BY <1>1 DEF BufferInv, BlocksInv, OwnedInv, SlotsAccounted, OwnedIn
<1>4. /\ pFree' \in [Regions -> Seq(Nat)]
      /\ IsFiniteSet(OwnedIn(b)')
      /\ Cardinality(OwnedIn(b)') = Cardinality(OwnedIn(b)) + 1
      /\ IsInjective(pFree'[b])
      /\ Range(pFree'[b]) \cap owned' = {}
      /\ Range(pFree'[b]) \cup OwnedIn(b)' = SlotsOf(b)
      /\ \A p \in owned' : p \in owned \/ p \in SlotsOf(b)
      /\ \A c \in mapped : c # b =>
           /\ OwnedIn(c)' = OwnedIn(c) /\ pFree'[c] = pFree[c]
           /\ Range(pFree[c]) \cap owned' = {}
  BY <1>1, <1>2, <1>3, Taken
<1>5. BlocksInv'
  <2>1. usedCount' \in [Regions -> Nat]
    BY <1>1, <1>2, <1>3 DEF BufferInv, BlocksInv
  <2> QED
    BY <1>2, <1>4, <2>1 DEF BufferInv, BlocksInv, Blocks
<1>6. OwnedInv'
  <2>1. \A p \in owned' : \E c \in mapped' : p \in SlotsOf(c)
    BY <1>1, <1>2, <1>4 DEF BufferInv, OwnedInv
  <2>2. ASSUME NEW c \in mapped'
        PROVE  /\ IsFiniteSet(OwnedIn(c)')
               /\ usedCount'[c] = Cardinality(OwnedIn(c)') /\ usedCount'[c] > 0
    <3>1. CASE c = b
      BY <1>1, <1>2, <1>3, <1>4, <3>1 DEF BufferInv, BlocksInv
    <3>2. CASE c # b
      BY <1>1, <1>2, <1>4, <3>2 DEF BufferInv, BlocksInv, OwnedInv
    <3> QED
      BY <3>1, <3>2
  <2> QED
    BY <2>1, <2>2 DEF OwnedInv, OwnedIn, BlockOf, SlotsOf, Slot
<1>7. SlotsAccounted'
  <2>1. ASSUME NEW c \in mapped
        PROVE  /\ IsInjective(pFree'[c]) /\ Range(pFree'[c]) \cap owned' = {}
               /\ Range(pFree'[c]) \cup OwnedIn(c)' = SlotsOf(c)
    <3>1. CASE c = b
      BY <1>4, <3>1
    <3>2. CASE c # b
      BY <1>4, <3>2 DEF BufferInv, BlocksInv, SlotsAccounted, OwnedIn
    <3> QED
      BY <3>1, <3>2
  <2>2. Blocks' = mapped
    BY <1>2, <1>5 DEF BlocksInv
  <2> QED
    BY <2>1, <2>2 DEF SlotsAccounted, OwnedIn
<1> QED
  BY <1>5, <1>6, <1>7 DEF BufferInv

LEMMA StepAllocateNewBlock == BufferInv /\ AllocateNewBlock => BufferInv'
<1> SUFFICES ASSUME BufferInv, AllocateNewBlock PROVE BufferInv'
  OBVIOUS
<1>1. PICK r \in Regions \ mapped :
        /\ mapped' = mapped \cup {r}
        /\ g_pMemoryBlocks' = <<r>> \o g_pMemoryBlocks
        /\ Take(r, [k \in DOMAIN FreshList |-> Slot(r, FreshList[k])])
        /\ usedCount' = [usedCount EXCEPT ![r] = 1]
  BY DEF AllocateNewBlock
<1>2. PICK list : list = [k \in DOMAIN FreshList |-> Slot(r, FreshList[k])]
  OBVIOUS
<1>3. /\ list \in Seq(Nat) /\ list # <<>>
      /\ IsInjective(list) /\ Range(list) = SlotsOf(r)
  BY <1>2, FreshSlots
<1>4. OwnedIn(r) = {} /\ SlotsOf(r) \cap owned = {}
  BY InBlocks, SlotBlock DEF OwnedIn
<1>5. IsFiniteSet(OwnedIn(r)) /\ Cardinality(OwnedIn(r)) = 0
  BY <1>4, FS_EmptySet
<1>6. /\ pFree' \in [Regions -> Seq(Nat)]
      /\ IsFiniteSet(OwnedIn(r)')
      /\ Cardinality(OwnedIn(r)') = Cardinality(OwnedIn(r)) + 1
      /\ IsInjective(pFree'[r])
      /\ Range(pFree'[r]) \cap owned' = {}
      /\ Range(pFree'[r]) \cup OwnedIn(r)' = SlotsOf(r)
      /\ \A p \in owned' : p \in owned \/ p \in SlotsOf(r)
      /\ \A c \in mapped : c # r =>
           /\ OwnedIn(c)' = OwnedIn(c) /\ pFree'[c] = pFree[c]
           /\ Range(pFree[c]) \cap owned' = {}
  BY <1>1, <1>2, <1>3, <1>4, <1>5, Taken
<1>7. BlocksInv'
  <2>1. /\ g_pMemoryBlocks \in Seq(Regions) /\ IsInjective(g_pMemoryBlocks)
        /\ Range(g_pMemoryBlocks) = mapped
    BY DEF BufferInv, BlocksInv, Blocks, Range
  <2>2. /\ g_pMemoryBlocks' \in Seq(Regions) /\ IsInjective(g_pMemoryBlocks')
        /\ Range(g_pMemoryBlocks') = mapped \cup {r}
    BY <1>1, <2>1, PushInjective
  <2>3. Blocks' = mapped'
    BY <1>1, <2>2 DEF Blocks, Range
  <2>4. usedCount' \in [Regions -> Nat]
    BY <1>1 DEF BufferInv, BlocksInv
  <2> QED
    BY <1>6, <2>2, <2>3, <2>4 DEF BlocksInv
<1>8. OwnedInv'
  <2>1. \A p \in owned' : \E c \in mapped' : p \in SlotsOf(c)
    BY <1>1, <1>6 DEF BufferInv, OwnedInv
  <2>2. ASSUME NEW c \in mapped'
        PROVE  /\ IsFiniteSet(OwnedIn(c)')
               /\ usedCount'[c] = Cardinality(OwnedIn(c)') /\ usedCount'[c] > 0
    <3>1. CASE c = r
      BY <1>1, <1>5, <1>6, <3>1 DEF BufferInv, BlocksInv
    <3>2. CASE c # r
      <4>1. c \in mapped /\ c \in Regions
        BY <1>1, <3>2, InBlocks
      <4> QED
        BY <1>1, <1>6, <3>2, <4>1 DEF BufferInv, BlocksInv, OwnedInv
    <3> QED
      BY <3>1, <3>2
  <2> QED
    BY <2>1, <2>2 DEF OwnedInv, OwnedIn, BlockOf, SlotsOf, Slot
<1>9. SlotsAccounted'
  <2>1. ASSUME NEW c \in mapped'
        PROVE  /\ IsInjective(pFree'[c]) /\ Range(pFree'[c]) \cap owned' = {}
               /\ Range(pFree'[c]) \cup OwnedIn(c)' = SlotsOf(c)
    <3>1. CASE c = r
      BY <1>6, <3>1
    <3>2. CASE c # r
      <4>1. c \in mapped
        BY <1>1, <3>2
      <4> QED
        BY <1>6, <3>2, <4>1 DEF BufferInv, BlocksInv, SlotsAccounted, OwnedIn
    <3> QED
      BY <3>1, <3>2
  <2>2. Blocks' = mapped'
    BY <1>7 DEF BlocksInv
  <2> QED
    BY <2>1, <2>2 DEF SlotsAccounted, OwnedIn
<1> QED
  BY <1>7, <1>8, <1>9 DEF BufferInv

\* A slot goes back to the front of its block's list.
LEMMA StepRestore ==
    ASSUME BufferInv, NEW p \in owned, owned' = owned \ {p},
           usedCount[BlockOf(p)] # 1, Restore(p, BlockOf(p))
    PROVE  BufferInv'
<1> PICK b : b = BlockOf(p)
  OBVIOUS
<1>1. /\ b \in mapped /\ mapped \subseteq Regions
      /\ p \in SlotsOf(b) /\ p \in Nat /\ p \in OwnedIn(b)
  BY InBlocks DEF OwnedIn
<1>2. /\ pFree' = [pFree EXCEPT ![b] = <<p>> \o pFree[b]]
      /\ usedCount' = [usedCount EXCEPT ![b] = usedCount[b] - 1]
      /\ UNCHANGED <<mapped, g_pMemoryBlocks>>
  BY DEF Restore
<1>3. /\ pFree[b] \in Seq(Nat) /\ IsInjective(pFree[b]) /\ IsFiniteSet(OwnedIn(b))
      /\ Range(pFree[b]) \cap owned = {} /\ Range(pFree[b]) \cup OwnedIn(b) = SlotsOf(b)
      /\ usedCount[b] = Cardinality(OwnedIn(b)) /\ usedCount[b] \in Nat
      /\ usedCount[b] > 0 /\ usedCount[b] # 1
  BY <1>1 DEF BufferInv, BlocksInv, OwnedInv, SlotsAccounted, OwnedIn
<1>4. p \notin Range(pFree[b])
  BY <1>3
<1>5. /\ <<p>> \o pFree[b] \in Seq(Nat) /\ IsInjective(<<p>> \o pFree[b])
      /\ Range(<<p>> \o pFree[b]) = Range(pFree[b]) \cup {p}
  BY <1>1, <1>3, <1>4, PushInjective
<1>6. /\ OwnedIn(b)' = OwnedIn(b) \ {p}
      /\ \A c \in mapped : c # b => OwnedIn(c)' = OwnedIn(c)
  <2>1. OwnedIn(b)' = OwnedIn(b) \ {p}
    BY DEF OwnedIn
  <2>2. ASSUME NEW c \in mapped, c # b PROVE OwnedIn(c)' = OwnedIn(c)
    <3>1. BlockOf(p) # c
      BY <2>2
    <3> QED
      BY <3>1 DEF OwnedIn
  <2> QED
    BY <2>1, <2>2
<1>7. IsFiniteSet(OwnedIn(b)') /\ Cardinality(OwnedIn(b)') = Cardinality(OwnedIn(b)) - 1
  <2>1. /\ IsFiniteSet(OwnedIn(b) \ {p})
        /\ Cardinality(OwnedIn(b) \ {p}) = Cardinality(OwnedIn(b)) - 1
    BY <1>1, <1>3, FS_RemoveElement
  <2> QED
    BY <1>6, <2>1
<1>8. pFree \in [Regions -> Seq(Nat)] /\ usedCount \in [Regions -> Nat]
  BY DEF BufferInv, BlocksInv
<1>9. /\ pFree'[b] = <<p>> \o pFree[b] /\ usedCount'[b] = usedCount[b] - 1
      /\ \A c \in mapped : c # b => pFree'[c] = pFree[c] /\ usedCount'[c] = usedCount[c]
      /\ pFree' \in [Regions -> Seq(Nat)] /\ usedCount' \in [Regions -> Nat]
  BY <1>1, <1>2, <1>3, <1>5, <1>8
<1>10. BlocksInv'
  BY <1>2, <1>9 DEF BufferInv, BlocksInv, Blocks
<1>11. OwnedInv'
  <2>1. \A q \in owned' : \E c \in mapped' : q \in SlotsOf(c)
    BY <1>2 DEF BufferInv, OwnedInv
  <2>2. ASSUME NEW c \in mapped
        PROVE  /\ IsFiniteSet(OwnedIn(c)')
               /\ usedCount'[c] = Cardinality(OwnedIn(c)') /\ usedCount'[c] > 0
    <3>1. CASE c = b
      BY <1>3, <1>7, <1>9, <3>1
    <3>2. CASE c # b
      BY <1>6, <1>9, <3>2 DEF BufferInv, OwnedInv
    <3> QED
      BY <3>1, <3>2
  <2> QED
    BY <1>2, <2>1, <2>2 DEF OwnedInv, OwnedIn, BlockOf, SlotsOf, Slot
<1>12. SlotsAccounted'
  <2>1. ASSUME NEW c \in mapped
        PROVE  /\ IsInjective(pFree'[c]) /\ Range(pFree'[c]) \cap owned' = {}
               /\ Range(pFree'[c]) \cup OwnedIn(c)' = SlotsOf(c)
    <3>1. CASE c = b
      BY <1>1, <1>3, <1>5, <1>6, <1>9, <3>1
    <3>2. CASE c # b
      BY <1>6, <1>9, <3>2 DEF BufferInv, BlocksInv, SlotsAccounted, OwnedIn
    <3> QED
      BY <3>1, <3>2
  <2>2. Blocks' = mapped
    BY <1>2, <1>10 DEF BlocksInv
  <2> QED
    BY <2>1, <2>2 DEF SlotsAccounted, OwnedIn
<1> QED
  BY <1>10, <1>11, <1>12 DEF BufferInv

\* Unlinking takes a block from the list and leaves the others.
LEMMA Unlinked ==
    ASSUME BufferInv, NEW b \in mapped
    PROVE  /\ Unlink(b) \in Seq(Regions) /\ IsInjective(Unlink(b))
           /\ Range(Unlink(b)) = mapped \ {b}
<1> DEFINE list == g_pMemoryBlocks
           n == Len(list)
           pos == CHOOSE i \in DOMAIN list : list[i] = b
           t == Unlink(b)
           old(i) == IF i < pos THEN i ELSE i + 1
<1>1. /\ list \in Seq(Regions) /\ IsInjective(list) /\ Range(list) = mapped
      /\ DOMAIN list = 1..n /\ n \in Nat
  BY DEF BufferInv, BlocksInv, Blocks, Range
<1>2. pos \in 1..n /\ list[pos] = b
  BY <1>1 DEF Range
<1>3. t = [i \in 1..(n - 1) |-> list[old(i)]]
  BY DEF Unlink
<1> HIDE DEF list, n, pos, t
<1>4. \A i \in 1..(n - 1) : old(i) \in 1..n /\ old(i) # pos
  BY <1>1, <1>2
<1>5. \A i, j \in 1..(n - 1) : old(i) = old(j) => i = j
  BY <1>1, <1>2
<1>6. ASSUME NEW k \in 1..n, k # pos PROVE \E i \in 1..(n - 1) : old(i) = k
  <2>1. CASE k < pos
    <3>1. k \in 1..(n - 1) /\ old(k) = k
      BY <1>1, <1>2, <2>1
    <3> QED
      BY <3>1
  <2>2. CASE k > pos
    <3>1. k - 1 \in 1..(n - 1) /\ old(k - 1) = k
      BY <1>1, <1>2, <2>2
    <3> QED
      BY <3>1
  <2> QED
    BY <1>1, <1>2, <1>6, <2>1, <2>2
<1> HIDE DEF old
<1>7. n - 1 \in Nat
  BY <1>1, <1>2
<1>8. t \in [1..(n - 1) -> Regions]
  BY <1>1, <1>3, <1>4
<1>9. t \in Seq(Regions) /\ DOMAIN t = 1..(n - 1)
  BY <1>7, <1>8, SeqDef
<1>10. \A i, j \in 1..n : list[i] = list[j] => i = j
  BY <1>1 DEF IsInjective
<1>11. IsInjective(t)
  BY <1>3, <1>4, <1>5, <1>9, <1>10 DEF IsInjective
<1>12. ASSUME NEW x \in Range(t) PROVE x \in mapped \ {b}
  <2>1. PICK i \in 1..(n - 1) : x = list[old(i)]
    BY <1>3, <1>9 DEF Range
  <2> QED
    BY <1>1, <1>2, <1>4, <1>10, <2>1 DEF Range
<1>13. ASSUME NEW x \in mapped, x # b PROVE x \in Range(t)
  <2>1. PICK k \in 1..n : x = list[k]
    BY <1>1 DEF Range
  <2>2. PICK i \in 1..(n - 1) : old(i) = k
    BY <1>2, <1>6, <1>13, <2>1
  <2>3. t[i] = x
    BY <1>3, <2>1, <2>2
  <2> QED
    BY <1>9, <2>3 DEF Range
<1> QED
  BY <1>9, <1>11, <1>12, <1>13 DEF t

\* The block of the last used slot goes, and nothing in use with it.
LEMMA StepRelease ==
    ASSUME BufferInv, NEW p \in owned, owned' = owned \ {p},
           usedCount[BlockOf(p)] = 1, Release(BlockOf(p))
    PROVE  BufferInv'
<1> PICK b : b = BlockOf(p)
  OBVIOUS
<1>1. /\ b \in mapped /\ mapped \subseteq Regions
      /\ p \in SlotsOf(b) /\ p \in OwnedIn(b)
  BY InBlocks DEF OwnedIn
<1>2. /\ mapped' = mapped \ {b} /\ g_pMemoryBlocks' = Unlink(b)
      /\ pFree' = [pFree EXCEPT ![b] = <<>>]
      /\ usedCount' = [usedCount EXCEPT ![b] = 0]
  BY DEF Release
<1>3. OwnedIn(b) = {p}
  <2>1. IsFiniteSet(OwnedIn(b)) /\ Cardinality(OwnedIn(b)) = 1
    BY <1>1 DEF BufferInv, OwnedInv
  <2>2. PICK x : OwnedIn(b) = {x}
    BY <2>1, FS_Singleton
  <2> QED
    BY <1>1, <2>2
<1>4. pFree \in [Regions -> Seq(Nat)] /\ usedCount \in [Regions -> Nat] /\ <<>> \in Seq(Nat)
  BY DEF BufferInv, BlocksInv
<1>5. /\ pFree' \in [Regions -> Seq(Nat)] /\ usedCount' \in [Regions -> Nat]
      /\ \A c \in mapped' : c # b /\ c \in mapped
                            /\ pFree'[c] = pFree[c] /\ usedCount'[c] = usedCount[c]
  BY <1>1, <1>2, <1>4
<1>6. ASSUME NEW c \in mapped' PROVE OwnedIn(c)' = OwnedIn(c)
  <2>1. BlockOf(p) # c
    BY <1>5, <1>6
  <2> QED
    BY <2>1 DEF OwnedIn
<1>7. BlocksInv'
  <2>1. /\ g_pMemoryBlocks' \in Seq(Regions) /\ IsInjective(g_pMemoryBlocks')
        /\ Range(g_pMemoryBlocks') = mapped'
    BY <1>1, <1>2, Unlinked
  <2>2. Blocks' = mapped'
    BY <2>1 DEF Blocks, Range
  <2> QED
    BY <1>5, <2>1, <2>2 DEF BlocksInv
<1>8. OwnedInv'
  <2>1. ASSUME NEW q \in owned' PROVE \E c \in mapped' : q \in SlotsOf(c)
    <3>1. BlockOf(q) # b
      BY <1>3, <2>1 DEF OwnedIn
    <3> QED
      BY <1>2, <2>1, <3>1, InBlocks
  <2>2. ASSUME NEW c \in mapped'
        PROVE  /\ IsFiniteSet(OwnedIn(c)')
               /\ usedCount'[c] = Cardinality(OwnedIn(c)') /\ usedCount'[c] > 0
    BY <1>5, <1>6 DEF BufferInv, OwnedInv
  <2> QED
    BY <2>1, <2>2 DEF OwnedInv, OwnedIn, BlockOf, SlotsOf, Slot
<1>9. SlotsAccounted'
  <2>1. ASSUME NEW c \in mapped'
        PROVE  /\ IsInjective(pFree'[c]) /\ Range(pFree'[c]) \cap owned' = {}
               /\ Range(pFree'[c]) \cup OwnedIn(c)' = SlotsOf(c)
    BY <1>5, <1>6 DEF BufferInv, BlocksInv, SlotsAccounted, OwnedIn
  <2>2. Blocks' = mapped'
    BY <1>7 DEF BlocksInv
  <2> QED
    BY <2>1, <2>2 DEF SlotsAccounted, OwnedIn
<1> QED
  BY <1>7, <1>8, <1>9 DEF BufferInv

LEMMA StepUninitialize == BufferInv /\ UninitializeBuffer => BufferInv'
<1> SUFFICES ASSUME BufferInv, UninitializeBuffer PROVE BufferInv'
  OBVIOUS
<1>1. g_pMemoryBlocks' = <<>> /\ mapped' = {} /\ owned' = {}
  BY DEF UninitializeBuffer, BufferInv, BlocksInv
<1>2. Blocks' = {}
  BY <1>1 DEF Blocks
<1>3. pFree' \in [Regions -> Seq(Nat)] /\ usedCount' \in [Regions -> Nat]
  <2>1. <<>> \in Seq(Nat)
    OBVIOUS
  <2> QED
    BY <2>1 DEF UninitializeBuffer, BufferInv, BlocksInv
<1>4. BlocksInv'
  <2>1. <<>> \in Seq(Regions) /\ DOMAIN <<>> = {}
    BY EmptySeq
  <2> QED
    BY <1>1, <1>2, <1>3, <2>1 DEF BlocksInv, IsInjective
<1> QED
  BY <1>1, <1>2, <1>4 DEF BufferInv, OwnedInv, SlotsAccounted

LEMMA InitBuffer == Init => BufferInv
<1> SUFFICES ASSUME Init PROVE BufferInv
  OBVIOUS
<1>1. <<>> \in Seq(Nat) /\ <<>> \in Seq(Regions) /\ DOMAIN <<>> = {}
  BY EmptySeq
<1>2. Blocks = {}
  BY <1>1 DEF Init, Blocks
<1> QED
  BY <1>1, <1>2 DEF Init, BufferInv, BlocksInv, OwnedInv, SlotsAccounted, IsInjective

-----------------------------------------------------------------------------

\* The blocks, their slots and their counts, for every size and all regions.
THEOREM BufferInvariance == Spec => []BufferInv
<1>1. BufferInv /\ [Next]_vars => BufferInv'
  <2> SUFFICES ASSUME BufferInv, [Next]_vars PROVE BufferInv'
    OBVIOUS
  <2>1. CASE AllocateBuffer
    BY <2>1, StepAllocateFromBlock, StepAllocateNewBlock DEF AllocateBuffer
  <2>2. ASSUME NEW p \in owned, FreeBuffer(p) PROVE BufferInv'
    <3>1. /\ owned' = owned \ {p}
          /\ IF usedCount[BlockOf(p)] = 1 THEN Release(BlockOf(p)) ELSE Restore(p, BlockOf(p))
      BY <2>2 DEF FreeBuffer
    <3> QED
      BY <3>1, StepRelease, StepRestore
  <2>3. CASE UninitializeBuffer
    BY <2>3, StepUninitialize
  <2>4. CASE UNCHANGED vars
    BY <2>4 DEF vars, BufferInv, BlocksInv, OwnedInv, SlotsAccounted, Blocks, OwnedIn
  <2> QED
    BY <2>1, <2>2, <2>3, <2>4 DEF Next
<1> QED
  BY <1>1, InitBuffer, PTL DEF Spec

\* No block is lost and none is kept without a used slot.
THEOREM BlocksKept == Spec => []BlocksAccounted
<1>1. BufferInv => BlocksAccounted
  BY DEF BufferInv, BlocksInv, OwnedInv, OwnedIn, BlocksAccounted
<1> QED
  BY <1>1, BufferInvariance, PTL

\* Each slot of a block is used or once in its list.
THEOREM SlotsKept == Spec => []SlotsAccounted
<1>1. BufferInv => SlotsAccounted
  BY DEF BufferInv
<1> QED
  BY <1>1, BufferInvariance, PTL

\* No two trampolines overwrite each other, and none the head of a block.
THEOREM TrampolinesApart == Spec => []BuffersApart
<1>1. ASSUME BufferInv PROVE BuffersApart
  <2>1. ASSUME NEW p \in owned
        PROVE  /\ BlockOf(p) \in mapped /\ BlockOf(p) \in Regions
               /\ BlockOf(p) + MEMORY_SLOT_SIZE <= p
               /\ p + MEMORY_SLOT_SIZE <= BlockOf(p) + MEMORY_BLOCK_SIZE
               /\ \E k \in 1..SlotCount : p = Slot(BlockOf(p), k)
    <3>1. BlockOf(p) \in mapped /\ BlockOf(p) \in Regions /\ p \in SlotsOf(BlockOf(p))
      BY <1>1, InBlocks
    <3>2. PICK k \in 1..SlotCount : p = Slot(BlockOf(p), k)
      BY <3>1 DEF SlotsOf
    <3> QED
      BY <3>1, <3>2, SlotInside
  <2>2. ASSUME NEW p \in owned, NEW q \in owned, p < q
        PROVE  p + MEMORY_SLOT_SIZE <= q
    <3>1. PICK b \in Regions, k \in 1..SlotCount :
            /\ b = BlockOf(p) /\ p = Slot(b, k) /\ b + MEMORY_SLOT_SIZE <= p
            /\ p + MEMORY_SLOT_SIZE <= b + MEMORY_BLOCK_SIZE
      BY <2>1
    <3>2. PICK c \in Regions, l \in 1..SlotCount :
            /\ c = BlockOf(q) /\ q = Slot(c, l) /\ c + MEMORY_SLOT_SIZE <= q
            /\ q + MEMORY_SLOT_SIZE <= c + MEMORY_BLOCK_SIZE
      BY <2>1
    <3>3. p \in Nat /\ q \in Nat /\ b \in Nat /\ c \in Nat
      BY <3>1, <3>2, SlotInside, RegionStart
    <3>4. CASE b = c
      <4>1. k < l
        <5>1. ~(l < k)
          BY <2>2, <3>1, <3>2, <3>3, <3>4, SlotsApart, Sizes
        <5>2. k # l
          BY <2>2, <3>1, <3>2, <3>3, <3>4
        <5>3. k \in Nat /\ l \in Nat
          BY Sizes
        <5> QED
          BY <5>1, <5>2, <5>3
      <4> QED
        BY <3>1, <3>2, <3>4, <4>1, SlotsApart
    <3>5. CASE b < c
      BY <3>1, <3>2, <3>3, <3>5, BlocksApart, Sizes
    <3>6. CASE c < b
      BY <2>2, <3>1, <3>2, <3>3, <3>6, BlocksApart, Sizes
    <3> QED
      BY <3>3, <3>4, <3>5, <3>6
  <2> QED
    BY <2>1, <2>2 DEF BuffersApart, Inside
<1> QED
  BY <1>1, BufferInvariance, PTL

=============================================================================
