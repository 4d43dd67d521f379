------------------------------- MODULE Buffer --------------------------------
(***************************************************************************)
(* minhook/buffer.c on x86: the memory that trampolines are built in.      *)
(* Blocks from VirtualAlloc are cut into slots; a block keeps its unused   *)
(* slots in a list and goes back to the system with its last used slot.    *)
(*                                                                         *)
(* Every call is made with the spin lock of hook.c held, so each is one    *)
(* step.  The module also keeps which slots the callers own: hook.c frees  *)
(* what it allocated, once, and nothing else.                              *)
(***************************************************************************)
EXTENDS Naturals, Sequences, FiniteSets, Functions

CONSTANTS
    MEMORY_BLOCK_SIZE,  \* also what VirtualAlloc aligns a block to
    MEMORY_SLOT_SIZE,
    Regions             \* the addresses VirtualAlloc may return

ASSUME BufferAssumption ==
    /\ MEMORY_SLOT_SIZE \in Nat /\ MEMORY_SLOT_SIZE > 0
    /\ MEMORY_BLOCK_SIZE \in Nat
    /\ MEMORY_BLOCK_SIZE >= 2 * MEMORY_SLOT_SIZE
    /\ \A r \in Regions : r \in Nat /\ r > 0 /\ r % MEMORY_BLOCK_SIZE = 0

VARIABLES
    g_pMemoryBlocks,    \* the list of blocks, the newest first
    pFree,              \* each block's list of unused slots
    usedCount,          \* each block's number of used slots
    mapped,             \* the regions that are allocated from the system
    owned               \* the slots handed out and not freed yet

vars == <<g_pMemoryBlocks, pFree, usedCount, mapped, owned>>

\* The slots of a block: the first one's place is taken by the block's head,
\* the last one ends with the block.
SlotCount == MEMORY_BLOCK_SIZE \div MEMORY_SLOT_SIZE - 1
Slot(pBlock, k) == pBlock + k * MEMORY_SLOT_SIZE
SlotsOf(pBlock) == {Slot(pBlock, k) : k \in 1..SlotCount}

\* The bytes [a, a + n) lie in a block behind its head.
Inside(a, n, pBlock) ==
    pBlock + MEMORY_SLOT_SIZE <= a /\ a + n <= pBlock + MEMORY_BLOCK_SIZE

\* FreeBuffer's pTargetBlock.
BlockOf(pBuffer) == (pBuffer \div MEMORY_BLOCK_SIZE) * MEMORY_BLOCK_SIZE

Init ==
    /\ g_pMemoryBlocks = <<>>
    /\ pFree = [r \in Regions |-> <<>>]
    /\ usedCount = [r \in Regions |-> 0]
    /\ mapped = {}
    /\ owned = {}

-----------------------------------------------------------------------------
(* GetMemoryBlock. *)

Blocks == {g_pMemoryBlocks[i] : i \in DOMAIN g_pMemoryBlocks}

\* The first block with an unused slot, as the walk along the list meets it.
HasFree(i) == pFree[g_pMemoryBlocks[i]] # <<>>
FirstWithFree ==
    g_pMemoryBlocks[CHOOSE i \in DOMAIN g_pMemoryBlocks :
                        HasFree(i) /\ \A j \in 1..(i - 1) : ~HasFree(j)]

\* Mutant: the loop builds one slot more than fits.
FreshListLong == [k \in 1..(SlotCount + 1) |-> SlotCount + 2 - k]

\* Numbers of the slots of a new block as the loop leaves them, the last first.
FreshList == [k \in 1..SlotCount |-> SlotCount + 1 - k]

\* Mutant: the slot stays in the list.
TakeKeep(pBlock, list) ==
    /\ pFree' = [pFree EXCEPT ![pBlock] = list]
    /\ owned' = owned \cup {Head(list)}

\* Takes the first slot of a block's list.
Take(pBlock, list) ==
    /\ pFree' = [pFree EXCEPT ![pBlock] = Tail(list)]
    /\ owned' = owned \cup {Head(list)}

AllocateFromBlock ==
    /\ \E i \in DOMAIN g_pMemoryBlocks : HasFree(i)
    /\ Take(FirstWithFree, pFree[FirstWithFree])
    /\ usedCount' = [usedCount EXCEPT ![FirstWithFree] = @ + 1]
    /\ UNCHANGED <<g_pMemoryBlocks, mapped>>

\* VirtualAlloc gives a new block any free region.  When it fails nothing
\* changes and AllocateBuffer returns NULL.
AllocateNewBlock ==
    /\ \A i \in DOMAIN g_pMemoryBlocks : ~HasFree(i)
    /\ \E r \in Regions \ mapped :
         /\ mapped' = mapped \cup {r}
         /\ g_pMemoryBlocks' = <<r>> \o g_pMemoryBlocks
         /\ Take(r, [k \in DOMAIN FreshList |-> Slot(r, FreshList[k])])
         /\ usedCount' = [usedCount EXCEPT ![r] = 1]

AllocateBuffer == AllocateFromBlock \/ AllocateNewBlock

Unlink(pBlock) ==
    LET pos == CHOOSE i \in DOMAIN g_pMemoryBlocks : g_pMemoryBlocks[i] = pBlock
    IN  [i \in 1..(Len(g_pMemoryBlocks) - 1) |->
            g_pMemoryBlocks[IF i < pos THEN i ELSE i + 1]]

\* VirtualFree: the block leaves the list, and what it held is gone.
Release(pBlock) ==
    /\ mapped' = mapped \ {pBlock}
    /\ g_pMemoryBlocks' = Unlink(pBlock)
    /\ pFree' = [pFree EXCEPT ![pBlock] = <<>>]
    /\ usedCount' = [usedCount EXCEPT ![pBlock] = 0]

Restore(pBuffer, pBlock) ==
    /\ pFree' = [pFree EXCEPT ![pBlock] = <<pBuffer>> \o @]
    /\ usedCount' = [usedCount EXCEPT ![pBlock] = @ - 1]
    /\ UNCHANGED <<mapped, g_pMemoryBlocks>>

\* Mutant: unused blocks are kept.
FreeBufferKeep(pBuffer) ==
    /\ owned' = owned \ {pBuffer}
    /\ Restore(pBuffer, BlockOf(pBuffer))

\* The search finds the block: BlocksAccounted.
FreeBuffer(pBuffer) ==
    LET pBlock == BlockOf(pBuffer)
    IN  /\ owned' = owned \ {pBuffer}
        /\ IF usedCount[pBlock] = 1 THEN Release(pBlock)
                                    ELSE Restore(pBuffer, pBlock)

\* hook.c drops the whole table of hooks with the blocks.
UninitializeBuffer ==
    /\ g_pMemoryBlocks' = <<>>
    /\ mapped' = mapped \ Blocks
    /\ pFree' = [r \in Regions |-> IF r \in Blocks THEN <<>> ELSE pFree[r]]
    /\ usedCount' = [r \in Regions |-> IF r \in Blocks THEN 0 ELSE usedCount[r]]
    /\ owned' = {}

Next ==
    \/ AllocateBuffer
    \/ \E pBuffer \in owned : FreeBuffer(pBuffer)
    \/ UninitializeBuffer

Spec == Init /\ [][Next]_vars

-----------------------------------------------------------------------------
(* Properties. *)

\* The list holds each mapped block once, and the system gets a block back
\* with its last used slot: no block is lost and none is kept idle.
BlocksAccounted ==
    /\ Blocks = mapped
    /\ IsInjective(g_pMemoryBlocks)
    /\ \A b \in Blocks : usedCount[b] = Cardinality({p \in owned : BlockOf(p) = b})
    /\ \A b \in Blocks : usedCount[b] > 0

\* Each slot of a block is either used or once in the block's list.
SlotsAccounted ==
    \A b \in Blocks :
        /\ IsInjective(pFree[b])
        /\ Range(pFree[b]) \cap owned = {}
        /\ Range(pFree[b]) \cup {p \in owned : BlockOf(p) = b} = SlotsOf(b)

\* A buffer that is in use lies in a mapped block, behind its head, and apart
\* from every other: no two trampolines overwrite each other.
BuffersApart ==
    /\ \A p \in owned : BlockOf(p) \in mapped /\ Inside(p, MEMORY_SLOT_SIZE, BlockOf(p))
    /\ \A p, q \in owned : p < q => p + MEMORY_SLOT_SIZE <= q

=============================================================================
