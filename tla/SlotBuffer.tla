------------------------------- MODULE SlotBuffer -------------------------------
(***************************************************************************)
(* The allocator of trampoline slots (buffer.c, x86 build).  Slots are     *)
(* carved from blocks of memory.  The head of a block, which takes the     *)
(* place of a slot, links it to the next block, counts the slots in use    *)
(* and points at the first free one; free slots are chained through their  *)
(* own first bytes, the bytes a trampoline overwrites once it is handed    *)
(* out.  A block goes back to the operating system with its last slot.     *)
(*                                                                         *)
(* The spin lock of hook.c lets one call in at a time, but threads execute *)
(* the slots all along, so the calls are followed step by step.            *)
(***************************************************************************)
EXTENDS Naturals, FiniteSets

CONSTANTS
  Block,        \* where VirtualAlloc may place a block
  BlockSlots,   \* slots to a block, its head included (4096 / 32 in the code)
  NULL, Code    \* the null pointer; the bytes of a trampoline

\* The i-th slot of block b; division of an address by the block size gives b.
SlotsOf(b) == {<<b, i>> : i \in 1 .. BlockSlots - 1}
Slot == UNION {SlotsOf(b) : b \in Block}
BlockOf(s) == s[1]

ASSUME BlockSlotsAssumption == BlockSlots \in Nat /\ BlockSlots > 1
ASSUME NullAssumption == NULL \notin Block \union Slot
ASSUME CodeAssumption == Code \notin Slot \union {NULL}

VARIABLES
  g_pMemoryBlocks,   \* first block of the list
  block,             \* heads of the blocks the process has: pNext, pFree, usedCount
  slot,              \* what the first bytes of their slots are: a pointer or Code
  op, pBuffer,       \* the call under way and the slot FreeBuffer was given
  pBlock, pPrev,     \* its cursors
  result,            \* what AllocateBuffer returned
  held               \* slots the caller has (history)

vars == <<g_pMemoryBlocks, block, slot, op, pBuffer, pBlock, pPrev, result, held>>

Init ==
  /\ g_pMemoryBlocks = NULL /\ block = <<>> /\ slot = <<>>
  /\ op = "none" /\ pBuffer = NULL /\ pBlock = NULL /\ pPrev = NULL
  /\ result = NULL /\ held = {}

-------------------------------------------------------------------------------
(***************************************************************************)
(* The caller: hook.c gives back only slots it has, writes a trampoline    *)
(* into a slot it has, and drops all of them in MH_Uninitialize.           *)
(***************************************************************************)
Begin(o, s) ==
  /\ op = "none" /\ op' = o /\ pBuffer' = s
  /\ pBlock' = g_pMemoryBlocks /\ pPrev' = NULL
  /\ result' = NULL
  /\ UNCHANGED <<block, slot>>

\* A call ends: its variables are gone.
Return == op' = "none" /\ pBuffer' = NULL /\ pBlock' = NULL /\ pPrev' = NULL

CallAllocate == Begin("Allocate", NULL) /\ UNCHANGED <<g_pMemoryBlocks, held>>

CallFree ==
  \E s \in held : Begin("Free", s) /\ held' = held \ {s} /\ UNCHANGED g_pMemoryBlocks

CallUninitialize ==
  /\ Begin("Uninitialize", NULL) /\ held' = {}
  /\ g_pMemoryBlocks' = NULL

WriteTrampoline ==
  /\ op = "none" /\ result # NULL /\ slot[result] # Code
  /\ slot' = [slot EXCEPT ![result] = Code]
  /\ UNCHANGED <<g_pMemoryBlocks, block, op, pBuffer, pBlock, pPrev, result, held>>

-------------------------------------------------------------------------------
(***************************************************************************)
(* AllocateBuffer and GetMemoryBlock.                                      *)
(***************************************************************************)
HasFree(b) == block[b].pFree # NULL

\* Where the search goes on after a block without a free slot.
NextBlockNone(b) == NULL
NextBlock(b) == block[b].pNext

SkipFullBlock ==
  /\ op = "Allocate" /\ pBlock # NULL /\ ~HasFree(pBlock)
  /\ pBlock' = NextBlock(pBlock)
  /\ UNCHANGED <<g_pMemoryBlocks, block, slot, op, pBuffer, pPrev, result, held>>

\* Slots are linked from the first to the last one that fits, each before the
\* one it follows.
LastSlotOneShort == BlockSlots - 2
LastSlot == BlockSlots - 1
Chained(b) == [s \in SlotsOf(b) |-> IF s[2] = 1 THEN NULL ELSE <<b, s[2] - 1>>]

NewBlock ==
  /\ op = "Allocate" /\ pBlock = NULL
  /\ \E b \in Block \ DOMAIN block :
       /\ block' = [c \in DOMAIN block \union {b} |->
                      IF c = b THEN [pNext |-> g_pMemoryBlocks,
                                     pFree |-> <<b, LastSlot>>, usedCount |-> 0]
                               ELSE block[c]]
       /\ slot' = [s \in DOMAIN slot \union SlotsOf(b) |->
                     IF BlockOf(s) = b THEN Chained(b)[s] ELSE slot[s]]
       /\ g_pMemoryBlocks' = b /\ pBlock' = b
  /\ UNCHANGED <<op, pBuffer, pPrev, result, held>>

\* VirtualAlloc refuses.
NoMemory ==
  /\ op = "Allocate" /\ pBlock = NULL
  /\ Return
  /\ UNCHANGED <<g_pMemoryBlocks, block, slot, result, held>>

\* The first free slot is unlinked and counted.
PoppedStays(b) == [block[b] EXCEPT !.usedCount = @ + 1]
Popped(b) == [block[b] EXCEPT !.pFree = slot[block[b].pFree], !.usedCount = @ + 1]

AllocateBuffer ==
  /\ op = "Allocate" /\ pBlock # NULL /\ HasFree(pBlock)
  /\ result' = block[pBlock].pFree
  /\ held' = held \union {block[pBlock].pFree}
  /\ block' = [block EXCEPT ![pBlock] = Popped(pBlock)]
  /\ Return
  /\ UNCHANGED <<g_pMemoryBlocks, slot>>

-------------------------------------------------------------------------------
(***************************************************************************)
(* FreeBuffer.  Were the slot's block not on the list, the code would do   *)
(* nothing; NothingLeaked says that it always is.                          *)
(***************************************************************************)
WalkOn(b) == block[b].pNext

NotThisBlock ==
  /\ op = "Free" /\ pBlock # NULL /\ pBlock # BlockOf(pBuffer)
  /\ pPrev' = pBlock
  /\ pBlock' = WalkOn(pBlock)
  /\ UNCHANGED <<g_pMemoryBlocks, block, slot, op, pBuffer, result, held>>

Pushed(b) == [block[b] EXCEPT !.pFree = pBuffer, !.usedCount = @ - 1]

\* Is the block unused, the slot just returned taken into account?
UnusedBeforeCount(h) == h.usedCount = 1
Unused(h) == h.usedCount = 0

ReturnSlot ==
  /\ op = "Free" /\ pBlock # NULL /\ pBlock = BlockOf(pBuffer) /\ ~Unused(Pushed(pBlock))
  /\ slot' = [slot EXCEPT ![pBuffer] = block[pBlock].pFree]
  /\ block' = [block EXCEPT ![pBlock] = Pushed(pBlock)]
  /\ Return
  /\ UNCHANGED <<g_pMemoryBlocks, result, held>>

\* VirtualFree: the block and its slots are no longer the process's.
Released(b) == [c \in DOMAIN block \ {b} |-> block[c]]
SlotsLeft(b) == [s \in DOMAIN slot \ SlotsOf(b) |-> slot[s]]

\* The list once a block is unlinked: what precedes it skips it.
UnlinkedHeadOnly(b) == Released(b)
Unlinked(b) ==
  IF pPrev = NULL THEN Released(b)
                  ELSE [Released(b) EXCEPT ![pPrev].pNext = block[b].pNext]

ReturnLastSlot ==
  /\ op = "Free" /\ pBlock # NULL /\ pBlock = BlockOf(pBuffer) /\ Unused(Pushed(pBlock))
  /\ g_pMemoryBlocks' = IF pPrev = NULL THEN block[pBlock].pNext ELSE g_pMemoryBlocks
  /\ block' = Unlinked(pBlock)
  /\ slot' = SlotsLeft(pBlock)
  /\ Return
  /\ UNCHANGED <<result, held>>

-------------------------------------------------------------------------------
(***************************************************************************)
(* UninitializeBuffer: the list's head is cleared first.                   *)
(***************************************************************************)
ReleaseBlock ==
  /\ op = "Uninitialize" /\ pBlock # NULL
  /\ pBlock' = block[pBlock].pNext
  /\ block' = Released(pBlock)
  /\ slot' = SlotsLeft(pBlock)
  /\ UNCHANGED <<g_pMemoryBlocks, op, pBuffer, pPrev, result, held>>

AllReleased ==
  /\ op = "Uninitialize" /\ pBlock = NULL
  /\ Return
  /\ UNCHANGED <<g_pMemoryBlocks, block, slot, result, held>>

InCall ==
  \/ SkipFullBlock \/ NewBlock \/ NoMemory \/ AllocateBuffer
  \/ NotThisBlock \/ ReturnSlot \/ ReturnLastSlot
  \/ ReleaseBlock \/ AllReleased

Next == CallAllocate \/ CallFree \/ CallUninitialize \/ WriteTrampoline \/ InCall

Spec == Init /\ [][Next]_vars

-------------------------------------------------------------------------------
Pointer == Slot \union {NULL}

TypeOK ==
  /\ g_pMemoryBlocks \in Block \union {NULL}
  /\ DOMAIN block \subseteq Block
  /\ \A b \in DOMAIN block :
       block[b] \in [pNext : Block \union {NULL}, pFree : SlotsOf(b) \union {NULL},
                     usedCount : 0 .. BlockSlots - 1]
  /\ DOMAIN slot = UNION {SlotsOf(b) : b \in DOMAIN block}
  /\ \A s \in DOMAIN slot : slot[s] \in SlotsOf(BlockOf(s)) \union {NULL, Code}
  /\ op \in {"none", "Allocate", "Free", "Uninitialize"}
  /\ {pBuffer, result} \subseteq Pointer
  /\ {pBlock, pPrev} \subseteq Block \union {NULL}
  /\ held \subseteq Slot

\* The list that starts at first has exactly S on it: whoever follows its pointers
\* stays in S, and to stay in less than S is not possible.
Lists(next, first, S) ==
  LET Closed(C) ==
        first \in C \union {NULL} /\ \A c \in C : next[c] \in C \union {NULL}
  IN  Closed(S) /\ \A C \in SUBSET S : Closed(C) => C = S

pNext == [b \in DOMAIN block |-> block[b].pNext]

\* The slot FreeBuffer is about to return is neither held nor linked.
Out(b) == SlotsOf(b) \intersect
            (held \union IF op = "Free" THEN {pBuffer} ELSE {})

\* No pointer leads where none may (TypeOK); a block's free list is exactly the
\* slots nobody has and its counter the number of the others, though the list runs
\* through memory that trampolines are written to in between (AllocateBuffer and
\* FreeBuffer, buffer.c).
ListsIntact ==
  /\ TypeOK
  /\ op # "Uninitialize" =>
       \A b \in DOMAIN block :
         /\ Lists(slot, block[b].pFree, SlotsOf(b) \ Out(b))
         /\ block[b].usedCount = Cardinality(Out(b))

\* Every block the process has is on the list, also while UninitializeBuffer has
\* already cleared the list's head; FreeBuffer finds the block it looks for; and
\* between calls no block is without a slot in use: freeing what was allocated
\* leaves no memory behind.
NothingLeaked ==
  /\ Lists(pNext, IF op = "Uninitialize" THEN pBlock ELSE g_pMemoryBlocks, DOMAIN block)
  /\ op = "Free" =>
       \E R \in SUBSET DOMAIN block : Lists(pNext, pBlock, R) /\ BlockOf(pBuffer) \in R
  /\ op = "none" => \A b \in DOMAIN block : Out(b) # {}

\* A trampoline stays where it is and what it is for as long as its hook has the
\* slot, whatever is allocated and freed around it: threads execute it.
TrampolinesStay ==
  [][\A s \in held \intersect held' :
       s \in DOMAIN slot' /\ (slot[s] = Code => slot'[s] = Code)]_vars

\* A block is added, or a request refused, only when no slot is left in any block
\* the process has (GetMemoryBlock searches the whole list first).
GrowsOnlyWhenFull ==
  [][(DOMAIN block' \ DOMAIN block # {} \/ (op = "Allocate" /\ op' = "none" /\ result' = NULL))
       => \A b \in DOMAIN block : SlotsOf(b) \subseteq held]_vars

\* The allocator is a set of slots, as MinHook takes it to be: it hands out only
\* slots that nobody holds.
Pool == INSTANCE SlotPool WITH free <- Slot \ held
PoolSpec == Pool!Spec
================================================================================
