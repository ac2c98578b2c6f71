--------------------------- MODULE SlotBufferProofs ---------------------------
(***************************************************************************)
(* The allocator, for any blocks of any number of slots.                   *)
(***************************************************************************)
EXTENDS SlotBuffer, FiniteSetTheorems, WellFoundedInduction, TLAPS

-------------------------------------------------------------------------------
(***************************************************************************)
(* The inductive invariant.                                                *)
(***************************************************************************)
\* A list whose first element is no element's successor, nor any other that of two.
Chain(next, first, S) ==
  /\ Lists(next, first, S)
  /\ \A s \in S : next[s] # NULL => next[s] # first
  /\ \A s, t \in S : next[s] # NULL /\ next[s] = next[t] => s = t

Spare(b) == SlotsOf(b) \ Out(b)

FreeListsInv ==
  op # "Uninitialize" =>
    \A b \in DOMAIN block :
      /\ Chain(slot, block[b].pFree, Spare(b))
      /\ block[b].usedCount = Cardinality(Out(b))

Head == IF op = "Uninitialize" THEN pBlock ELSE g_pMemoryBlocks

BlockListInv == Chain(pNext, Head, DOMAIN block)

HeldInv ==
  /\ held \subseteq DOMAIN slot
  /\ result \in held \union {NULL} /\ (op # "none" => result = NULL)
  /\ op = "Free" => pBuffer \in DOMAIN slot \ held
  /\ op = "Uninitialize" => held = {} /\ g_pMemoryBlocks = NULL

\* A block without a slot in use is the one AllocateBuffer has just made.
UsedInv ==
  op # "Uninitialize" =>
    \A b \in DOMAIN block : Out(b) = {} => op = "Allocate" /\ b = pBlock

\* What the walk has still before it, R: all blocks behind it are full, or the
\* block looked for is in it.
WalkInv ==
  /\ op \in {"Allocate", "Free"} =>
       \E R \in SUBSET DOMAIN block :
         /\ Chain(pNext, pBlock, R)
         /\ op = "Allocate" => \A b \in DOMAIN block \ R : SlotsOf(b) \subseteq held
         /\ op = "Free" => BlockOf(pBuffer) \in R
  /\ op = "Free" =>
       IF pPrev = NULL THEN pBlock = g_pMemoryBlocks
                       ELSE pPrev \in DOMAIN block /\ block[pPrev].pNext = pBlock

IInv == TypeOK /\ FreeListsInv /\ BlockListInv /\ HeldInv /\ UsedInv /\ WalkInv

-------------------------------------------------------------------------------
(***************************************************************************)
(* Lists of any kind.                                                      *)
(***************************************************************************)
LEMMA ChainFacts ==
  ASSUME NEW next, NEW first, NEW S, NULL \notin S, Chain(next, first, S)
  PROVE  /\ first \in S \union {NULL}
         /\ first = NULL => S = {}
         /\ \A s \in S : next[s] \in S \union {NULL}
<1>1. Lists(next, first, S)
  BY DEF Chain
<1>2. first \in S \union {NULL} /\ \A s \in S : next[s] \in S \union {NULL}
  BY <1>1 DEF Lists
<1>3. ASSUME first = NULL
      PROVE  S = {}
  <2>1. {} \in SUBSET S /\ first \in {} \union {NULL}
    BY <1>3
  <2> QED
    BY <2>1, <1>1 DEF Lists
<1> QED
  BY <1>2, <1>3

\* A list depends on the pointers of its elements only.
LEMMA ChainSame ==
  ASSUME NEW next, NEW other, NEW first, NEW S, Chain(next, first, S),
         \A s \in S : other[s] = next[s]
  PROVE  Chain(other, first, S)
<1>1. Lists(other, first, S)
  <2>1. Lists(next, first, S)
    BY DEF Chain
  <2>2. first \in S \union {NULL} /\ \A s \in S : other[s] \in S \union {NULL}
    BY <2>1 DEF Lists
  <2>3. ASSUME NEW C \in SUBSET S, first \in C \union {NULL},
               \A c \in C : other[c] \in C \union {NULL}
        PROVE  C = S
    <3>1. \A c \in C : next[c] \in C \union {NULL}
      BY <2>3
    <3> QED
      BY <3>1, <2>1, <2>3 DEF Lists
  <2> QED
    BY <2>2, <2>3 DEF Lists
<1> QED
  BY <1>1 DEF Chain

\* Without its first element.
LEMMA ChainPop ==
  ASSUME NEW next, NEW first, NEW S, NULL \notin S, Chain(next, first, S), first # NULL
  PROVE  Chain(next, next[first], S \ {first})
<1>1. Lists(next, first, S) /\ first \in S
  BY ChainFacts DEF Chain
<1>2. \A s \in S : next[s] \in (S \ {first}) \union {NULL}
  BY <1>1 DEF Lists, Chain
<1>3. Lists(next, next[first], S \ {first})
  <2>1. ASSUME NEW C \in SUBSET (S \ {first}), next[first] \in C \union {NULL},
               \A c \in C : next[c] \in C \union {NULL}
        PROVE  C = S \ {first}
    <3>1. C \union {first} = S
      <4>1. C \union {first} \in SUBSET S /\ first \in (C \union {first}) \union {NULL}
        BY <1>1
      <4>2. \A c \in C \union {first} : next[c] \in (C \union {first}) \union {NULL}
        BY <2>1
      <4> QED
        BY <4>1, <4>2, <1>1 DEF Lists
    <3> QED
      BY <3>1
  <2> QED
    BY <1>1, <1>2, <2>1 DEF Lists
<1>4. \A s \in S \ {first} : next[s] # NULL => next[s] # next[first]
  BY <1>1 DEF Chain
<1> QED
  BY <1>3, <1>4 DEF Chain

\* With a new first element.
LEMMA ChainPush ==
  ASSUME NEW next, NEW other, NEW first, NEW S, NEW x, NULL \notin S,
         Chain(next, first, S), x \notin S, x # NULL,
         other[x] = first, \A s \in S : other[s] = next[s]
  PROVE  Chain(other, x, S \union {x})
<1>1. Lists(next, first, S) /\ first \in S \union {NULL}
      /\ \A s \in S : other[s] \in S \union {NULL}
  BY ChainFacts DEF Chain
<1>2. Lists(other, x, S \union {x})
  <2>1. ASSUME NEW C \in SUBSET (S \union {x}), x \in C \union {NULL},
               \A c \in C : other[c] \in C \union {NULL}
        PROVE  C = S \union {x}
    <3>1. x \in C /\ first \in (C \ {x}) \union {NULL}
      BY <2>1, <1>1
    <3>2. \A c \in C \ {x} : next[c] \in (C \ {x}) \union {NULL}
      BY <2>1, <1>1
    <3>3. C \ {x} = S
      BY <3>1, <3>2, <1>1 DEF Lists
    <3> QED
      BY <3>1, <3>3
  <2> QED
    BY <1>1, <2>1 DEF Lists
<1>3. \A s \in S \union {x} : other[s] # NULL => other[s] # x
  BY <1>1
<1>4. \A s, t \in S : other[s] # NULL /\ other[s] = other[t] => s = t
  BY DEF Chain
<1>5. \A s \in S : other[s] # NULL => other[s] # other[x]
  BY DEF Chain
<1> QED
  BY <1>2, <1>3, <1>4, <1>5 DEF Chain

\* Without the element p leads to.
LEMMA ChainUnlink ==
  ASSUME NEW next, NEW other, NEW first, NEW S, NULL \notin S, Chain(next, first, S),
         NEW p \in S, NEW b \in S, next[p] = b, other[p] = next[b],
         \A s \in S \ {b, p} : other[s] = next[s]
  PROVE  p # b /\ Chain(other, first, S \ {b})
<1>1. Lists(next, first, S) /\ first \in S \union {NULL}
      /\ \A s \in S : next[s] \in S \union {NULL}
  BY ChainFacts DEF Chain
<1>2. b # NULL /\ first # b
  BY DEF Chain
<1>3. \A s \in S : next[s] = b => s = p
  BY <1>2 DEF Chain
<1>4. p # b
  <2>1. SUFFICES ASSUME p = b
                 PROVE  FALSE
    OBVIOUS
  <2>2. \A s \in S \ {b} : next[s] \in (S \ {b}) \union {NULL}
    BY <1>1, <1>3, <2>1
  <2>3. S \ {b} \in SUBSET S /\ first \in (S \ {b}) \union {NULL}
    BY <1>1, <1>2
  <2>4. S \ {b} = S
    BY <2>2, <2>3, <1>1 DEF Lists
  <2> QED
    BY <2>4
<1>5. \A s \in S \ {b} : other[s] = IF s = p THEN next[b] ELSE next[s]
  OBVIOUS
<1>6. Lists(other, first, S \ {b})
  <2>1. \A s \in S \ {b} : other[s] \in (S \ {b}) \union {NULL}
    BY <1>1, <1>3, <1>4, <1>5
  <2>2. ASSUME NEW C \in SUBSET (S \ {b}), first \in C \union {NULL},
               \A c \in C : other[c] \in C \union {NULL}
        PROVE  C = S \ {b}
    <3> DEFINE D == IF p \in C THEN C \union {b} ELSE C
    <3>1. D \in SUBSET S /\ first \in D \union {NULL}
      BY <2>2
    <3>2. \A c \in D : next[c] \in D \union {NULL}
      <4>1. ASSUME NEW c \in C
            PROVE  next[c] \in D \union {NULL}
        BY <4>1, <2>2, <1>5
      <4>2. ASSUME p \in C
            PROVE  next[b] \in D \union {NULL}
        BY <4>2, <2>2, <1>5
      <4> QED
        BY <4>1, <4>2
    <3>3. D = S
      <4> HIDE DEF D
      <4> QED
        BY <3>1, <3>2, <1>1 DEF Lists
    <3> QED
      BY <3>3, <2>2
  <2> QED
    BY <1>1, <1>2, <2>1, <2>2 DEF Lists
<1>7. \A s \in S \ {b} : other[s] # NULL => other[s] # first
  BY <1>5 DEF Chain
<1>8. \A s, t \in S \ {b} : other[s] # NULL /\ other[s] = other[t] => s = t
  BY <1>4, <1>5 DEF Chain
<1> QED
  BY <1>4, <1>6, <1>7, <1>8 DEF Chain

-------------------------------------------------------------------------------
(***************************************************************************)
(* Slots and blocks.                                                       *)
(***************************************************************************)
LEMMA SlotFacts ==
  ASSUME NEW b \in Block
  PROVE  /\ SlotsOf(b) \subseteq Slot /\ SlotsOf(b) # {} /\ NULL \notin SlotsOf(b)
         /\ Code \notin SlotsOf(b)
         /\ \A s \in SlotsOf(b) : BlockOf(s) = b
<1>1. SlotsOf(b) \subseteq Slot
  BY DEF Slot
<1>2. <<b, 1>> \in SlotsOf(b)
  BY BlockSlotsAssumption DEF SlotsOf
<1>3. \A s \in SlotsOf(b) : BlockOf(s) = b
  BY DEF SlotsOf, BlockOf
<1> QED
  BY <1>1, <1>2, <1>3, NullAssumption, CodeAssumption

LEMMA SlotCount ==
  ASSUME NEW b \in Block
  PROVE  IsFiniteSet(SlotsOf(b)) /\ Cardinality(SlotsOf(b)) = BlockSlots - 1
<1> DEFINE f == [i \in 1 .. BlockSlots - 1 |-> <<b, i>>]
<1>1. f \in Bijection(1 .. BlockSlots - 1, SlotsOf(b))
  BY DEF Bijection, Injection, IsInjective, Surjection, SlotsOf
<1>2. ExistsBijection(1 .. BlockSlots - 1, SlotsOf(b))
  BY <1>1 DEF ExistsBijection
<1>3. IsFiniteSet(1 .. BlockSlots - 1)
      /\ Cardinality(1 .. BlockSlots - 1) = BlockSlots - 1
  BY BlockSlotsAssumption, FS_Interval
<1> QED
  BY <1>2, <1>3, FS_Bijection

LEMMA Least ==
  ASSUME NEW T \in SUBSET Nat, T # {}
  PROVE  \E m \in T : \A k \in T : m <= k
<1> DEFINE Less == {ss \in Nat \X Nat : ss[1] < ss[2]}
<1>1. IsWellFoundedOn(Less, Nat)
  BY NatLessThanWellFounded, Zenon DEF OpToRel
<1>2. PICK m \in T : \A k \in T : <<k, m>> \notin Less
  <2> HIDE DEF Less
  <2> QED
    BY <1>1, WFMin
<1>3. \A k \in T : ~ (k < m)
  BY <1>2
<1> QED
  BY <1>2, <1>3

\* GetMemoryBlock links all slots of a new block.
LEMMA NewChain ==
  ASSUME NEW b \in Block
  PROVE  Chain(Chained(b), <<b, LastSlot>>, SlotsOf(b))
<1> DEFINE N == BlockSlots - 1
<1>1. N \in Nat \ {0} /\ LastSlot = N
  BY BlockSlotsAssumption DEF LastSlot
<1>2. \A i \in 1 .. N :
        /\ <<b, i>> \in SlotsOf(b)
        /\ Chained(b)[<<b, i>>] = IF i = 1 THEN NULL ELSE <<b, i - 1>>
  BY DEF SlotsOf, Chained
<1>3. \A s \in SlotsOf(b) : \E i \in 1 .. N : s = <<b, i>>
  BY DEF SlotsOf
<1>4. \A i \in 1 .. N : <<b, i>> # NULL
  BY <1>2, SlotFacts
<1> HIDE DEF N
<1>5. <<b, N>> \in SlotsOf(b)
  <2>1. N \in 1 .. N
    BY <1>1
  <2> QED
    BY <2>1, <1>2
<1>6. \A s \in SlotsOf(b) : Chained(b)[s] \in SlotsOf(b) \union {NULL}
  <2>1. ASSUME NEW i \in 1 .. N
        PROVE  Chained(b)[<<b, i>>] \in SlotsOf(b) \union {NULL}
    <3>1. CASE i = 1
      BY <3>1, <1>2
    <3>2. CASE i # 1
      <4>1. i - 1 \in 1 .. N
        BY <3>2, <1>1
      <4> QED
        BY <4>1, <3>2, <1>2
    <3> QED
      BY <3>1, <3>2
  <2> QED
    BY <2>1, <1>3
<1>7. ASSUME NEW C \in SUBSET SlotsOf(b), <<b, N>> \in C \union {NULL},
             \A c \in C : Chained(b)[c] \in C \union {NULL}
      PROVE  C = SlotsOf(b)
  <2> DEFINE T == {k \in 0 .. N - 1 : <<b, N - k>> \notin C}
  <2>1. SUFFICES ASSUME T # {}
                 PROVE  FALSE
    <3>1. \A i \in 1 .. N : N - i \in 0 .. N - 1 /\ N - (N - i) = i
      BY <1>1
    <3>2. \A i \in 1 .. N : <<b, i>> \in C
      BY <3>1
    <3> QED
      BY <3>2, <1>3
  <2>2. PICK m \in T : \A k \in T : m <= k
    <3>1. T \in SUBSET Nat
      BY <1>1
    <3> QED
      BY <3>1, <2>1, Least
  <2>3. m \in 1 .. N - 1
    <3>1. <<b, N>> \in C
      BY <1>1, <1>4, <1>7
    <3>2. m # 0
      BY <3>1, <1>1
    <3> QED
      BY <3>2, <1>1
  <2>4. m - 1 \in 0 .. N - 1 /\ m - 1 \notin T
    BY <2>2, <2>3, <1>1
  <2>5. <<b, N - (m - 1)>> \in C
    BY <2>4
  <2>6. N - (m - 1) \in 1 .. N /\ N - (m - 1) # 1 /\ N - (m - 1) - 1 = N - m
        /\ N - m \in 1 .. N
    BY <2>3, <1>1
  <2>7. <<b, N - m>> \in C \union {NULL}
    BY <2>5, <2>6, <1>2, <1>7
  <2> QED
    BY <2>7, <2>6, <1>4
<1>8. Lists(Chained(b), <<b, N>>, SlotsOf(b))
  BY <1>5, <1>6, <1>7 DEF Lists
<1>9. ASSUME NEW s \in SlotsOf(b), Chained(b)[s] # NULL
      PROVE  Chained(b)[s] # <<b, N>>
  <2>1. PICK i \in 1 .. N : s = <<b, i>>
    BY <1>3
  <2>2. i # 1 /\ Chained(b)[s] = <<b, i - 1>>
    BY <2>1, <1>2, <1>9
  <2>3. i - 1 # N
    BY <1>1
  <2> QED
    BY <2>2, <2>3
<1>10. ASSUME NEW s \in SlotsOf(b), NEW t \in SlotsOf(b),
              Chained(b)[s] # NULL, Chained(b)[s] = Chained(b)[t]
       PROVE  s = t
  <2>1. PICK i \in 1 .. N : s = <<b, i>>
    BY <1>3
  <2>2. PICK j \in 1 .. N : t = <<b, j>>
    BY <1>3
  <2>3. Chained(b)[s] = <<b, i - 1>> /\ Chained(b)[t] = <<b, j - 1>>
    BY <2>1, <2>2, <1>2, <1>10
  <2>4. i - 1 = j - 1
    BY <2>3, <1>10
  <2> QED
    BY <2>1, <2>2, <2>4
<1> QED
  BY <1>1, <1>8, <1>9, <1>10 DEF Chain

-------------------------------------------------------------------------------
(***************************************************************************)
(* What the invariant says of the call under way.                          *)
(***************************************************************************)
LEMMA SlotOwner ==
  ASSUME TypeOK, NEW s \in DOMAIN slot
  PROVE  /\ BlockOf(s) \in DOMAIN block /\ s \in SlotsOf(BlockOf(s)) /\ s # NULL /\ s # Code
         /\ \A b \in DOMAIN block : s \in SlotsOf(b) => b = BlockOf(s)
<1>1. PICK b \in DOMAIN block : s \in SlotsOf(b)
  BY DEF TypeOK
<1>2. DOMAIN block \subseteq Block
  BY DEF TypeOK
<1>3. BlockOf(s) = b /\ s # NULL /\ s # Code
  BY <1>1, <1>2, SlotFacts
<1> QED
  BY <1>1, <1>2, <1>3, SlotFacts

LEMMA OutCount ==
  ASSUME TypeOK, NEW b \in Block
  PROVE  /\ IsFiniteSet(Out(b)) /\ Cardinality(Out(b)) \in 0 .. BlockSlots - 1
         /\ Cardinality(Out(b)) = 0 <=> Out(b) = {}
<1>1. Out(b) \in SUBSET SlotsOf(b)
  BY DEF Out
<1>2. IsFiniteSet(Out(b)) /\ Cardinality(Out(b)) <= BlockSlots - 1
  BY <1>1, SlotCount, FS_Subset
<1> QED
  BY <1>2, FS_CardinalityType, FS_EmptySet, BlockSlotsAssumption

LEMMA Cursor ==
  ASSUME IInv
  PROVE  /\ NULL \notin DOMAIN block /\ pNext = [b \in DOMAIN block |-> block[b].pNext]
         /\ op \in {"Allocate", "Free", "Uninitialize"} =>
              pBlock \in DOMAIN block \union {NULL}
         /\ Head \in DOMAIN block \union {NULL}
<1>1. NULL \notin DOMAIN block
  BY NullAssumption DEF IInv, TypeOK
<1>2. Head \in DOMAIN block \union {NULL}
  BY <1>1, ChainFacts DEF IInv, BlockListInv
<1>3. CASE op \in {"Allocate", "Free"}
  <2>1. PICK R \in SUBSET DOMAIN block : Chain(pNext, pBlock, R)
    BY <1>3 DEF IInv, WalkInv
  <2> QED
    BY <2>1, <1>1, <1>2, <1>3, ChainFacts DEF pNext
<1> QED
  BY <1>1, <1>2, <1>3 DEF Head, pNext

\* Free lists stay what they are while no slot changes hands.
LEMMA SameLists ==
  ASSUME IInv, op # "Uninitialize", slot' = slot, block' = block,
         \A b \in DOMAIN block : Out(b)' = Out(b)
  PROVE  FreeListsInv'
<1>1. \A b \in DOMAIN block : Spare(b)' = Spare(b)
  BY DEF Spare, SlotsOf
<1> QED
  BY <1>1 DEF IInv, FreeListsInv

-------------------------------------------------------------------------------
(***************************************************************************)
(* Calls begin.                                                            *)
(***************************************************************************)
LEMMA CallAllocateStep ==
  ASSUME IInv, CallAllocate
  PROVE  IInv'
<1>1. /\ op = "none" /\ op' = "Allocate" /\ pBuffer' = NULL
      /\ pBlock' = g_pMemoryBlocks /\ pPrev' = NULL /\ result' = NULL
      /\ UNCHANGED <<g_pMemoryBlocks, block, slot, held>>
  BY DEF CallAllocate, Begin
<1>2. TypeOK'
  BY <1>1 DEF IInv, TypeOK, Pointer
<1>3. \A b \in DOMAIN block : Out(b)' = Out(b)
  BY <1>1 DEF Out
<1>4. FreeListsInv'
  BY <1>1, <1>3, SameLists
<1>5. pNext' = pNext
  BY <1>1 DEF pNext
<1>6. Chain(pNext, g_pMemoryBlocks, DOMAIN block)
  BY <1>1 DEF IInv, BlockListInv, Head
<1>7. BlockListInv'
  BY <1>1, <1>5, <1>6 DEF BlockListInv, Head
<1>8. HeldInv'
  BY <1>1 DEF IInv, HeldInv
<1>9. UsedInv'
  BY <1>1, <1>3 DEF IInv, UsedInv
<1>10. WalkInv'
  BY <1>1, <1>5, <1>6 DEF WalkInv
<1> QED
  BY <1>2, <1>4, <1>7, <1>8, <1>9, <1>10 DEF IInv

LEMMA CallFreeStep ==
  ASSUME IInv, CallFree
  PROVE  IInv'
<1>1. PICK s \in held :
        /\ op = "none" /\ op' = "Free" /\ pBuffer' = s
        /\ pBlock' = g_pMemoryBlocks /\ pPrev' = NULL /\ result' = NULL
        /\ held' = held \ {s} /\ UNCHANGED <<g_pMemoryBlocks, block, slot>>
  BY DEF CallFree, Begin
<1>2. TypeOK'
  BY <1>1 DEF IInv, TypeOK, Pointer
<1>3. \A b \in DOMAIN block : Out(b)' = Out(b)
  BY <1>1 DEF Out
<1>4. FreeListsInv'
  BY <1>1, <1>3, SameLists
<1>5. pNext' = pNext
  BY <1>1 DEF pNext
<1>6. Chain(pNext, g_pMemoryBlocks, DOMAIN block)
  BY <1>1 DEF IInv, BlockListInv, Head
<1>7. BlockListInv'
  BY <1>1, <1>5, <1>6 DEF BlockListInv, Head
<1>8. HeldInv'
  BY <1>1 DEF IInv, HeldInv
<1>9. UsedInv'
  BY <1>1, <1>3 DEF IInv, UsedInv
<1>10. BlockOf(s) \in DOMAIN block
  BY <1>1, SlotOwner DEF IInv, HeldInv
<1>11. WalkInv'
  BY <1>1, <1>5, <1>6, <1>10 DEF WalkInv, BlockOf
<1> QED
  BY <1>2, <1>4, <1>7, <1>8, <1>9, <1>11 DEF IInv

LEMMA CallUninitializeStep ==
  ASSUME IInv, CallUninitialize
  PROVE  IInv'
<1>1. /\ op = "none" /\ op' = "Uninitialize" /\ pBuffer' = NULL
      /\ pBlock' = g_pMemoryBlocks /\ pPrev' = NULL /\ result' = NULL
      /\ held' = {} /\ g_pMemoryBlocks' = NULL /\ UNCHANGED <<block, slot>>
  BY DEF CallUninitialize, Begin
<1>2. TypeOK'
  BY <1>1 DEF IInv, TypeOK, Pointer
<1>3. BlockListInv'
  BY <1>1 DEF IInv, BlockListInv, Head, pNext
<1> QED
  BY <1>1, <1>2, <1>3 DEF IInv, FreeListsInv, HeldInv, UsedInv, WalkInv

LEMMA WriteTrampolineStep ==
  ASSUME IInv, WriteTrampoline
  PROVE  IInv'
<1>1. /\ op = "none" /\ result \in held /\ result \in DOMAIN slot
      /\ slot' = [slot EXCEPT ![result] = Code]
      /\ UNCHANGED <<g_pMemoryBlocks, block, op, pBuffer, pBlock, pPrev, result, held>>
  BY DEF WriteTrampoline, IInv, HeldInv
<1>2. TypeOK'
  BY <1>1 DEF IInv, TypeOK, Pointer
<1>3. \A b \in DOMAIN block : Out(b)' = Out(b) /\ Spare(b)' = Spare(b)
  BY <1>1 DEF Out, Spare
<1>4. FreeListsInv'
  <2>1. ASSUME NEW b \in DOMAIN block
        PROVE  Chain(slot', block[b].pFree, Spare(b))
    <3>1. result \notin Spare(b)
      BY <1>1 DEF Spare, Out
    <3>2. \A s \in Spare(b) : slot'[s] = slot[s]
      BY <1>1, <3>1
    <3> QED
      BY <3>2, <1>1, ChainSame DEF IInv, FreeListsInv
  <2> QED
    BY <2>1, <1>1, <1>3 DEF IInv, FreeListsInv
<1> QED
  BY <1>1, <1>2, <1>3, <1>4
     DEF IInv, BlockListInv, Head, pNext, HeldInv, UsedInv, WalkInv

-------------------------------------------------------------------------------
(***************************************************************************)
(* AllocateBuffer.                                                         *)
(***************************************************************************)
\* The walk goes on behind a block.
LEMMA WalkFacts ==
  ASSUME IInv, op \in {"Allocate", "Free"}, pBlock # NULL
  PROVE  \E R \in SUBSET DOMAIN block :
           /\ pBlock \in R
           /\ Chain(pNext, block[pBlock].pNext, R \ {pBlock})
           /\ op = "Allocate" => \A b \in DOMAIN block \ R : SlotsOf(b) \subseteq held
           /\ op = "Free" => BlockOf(pBuffer) \in R
<1>1. PICK R \in SUBSET DOMAIN block :
        /\ Chain(pNext, pBlock, R)
        /\ op = "Allocate" => \A b \in DOMAIN block \ R : SlotsOf(b) \subseteq held
        /\ op = "Free" => BlockOf(pBuffer) \in R
  BY DEF IInv, WalkInv
<1>2. NULL \notin R
  BY Cursor
<1>3. pBlock \in R /\ Chain(pNext, pNext[pBlock], R \ {pBlock})
  BY <1>1, <1>2, ChainFacts, ChainPop
<1>4. pNext[pBlock] = block[pBlock].pNext
  BY <1>3 DEF pNext
<1> QED
  BY <1>1, <1>3, <1>4

\* A block without a free slot has all its slots in use.
LEMMA FullBlock ==
  ASSUME IInv, op # "Uninitialize", NEW b \in DOMAIN block, block[b].pFree = NULL
  PROVE  Out(b) = SlotsOf(b) /\ Out(b) # {}
<1>1. b \in Block
  BY DEF IInv, TypeOK
<1>2. NULL \notin Spare(b)
  BY <1>1, SlotFacts DEF Spare
<1>3. Spare(b) = {}
  BY <1>2, ChainFacts DEF IInv, FreeListsInv
<1> QED
  BY <1>1, <1>3, SlotFacts DEF Spare, Out

LEMMA SkipFullBlockStep ==
  ASSUME IInv, SkipFullBlock
  PROVE  IInv'
<1>1. /\ op = "Allocate" /\ pBlock \in DOMAIN block /\ block[pBlock].pFree = NULL
      /\ pBlock' = block[pBlock].pNext
      /\ UNCHANGED <<g_pMemoryBlocks, block, slot, op, pBuffer, pPrev, result, held>>
  BY Cursor DEF SkipFullBlock, HasFree, NextBlock
<1>2. TypeOK'
  BY <1>1 DEF IInv, TypeOK, Pointer
<1>3. \A b \in DOMAIN block : Out(b)' = Out(b)
  BY <1>1 DEF Out
<1>4. FreeListsInv'
  BY <1>1, <1>3, SameLists
<1>5. pNext' = pNext
  BY <1>1 DEF pNext
<1>6. BlockListInv'
  BY <1>1, <1>5 DEF IInv, BlockListInv, Head
<1>7. HeldInv'
  BY <1>1 DEF IInv, HeldInv
<1>8. Out(pBlock) = SlotsOf(pBlock) /\ Out(pBlock) # {}
  BY <1>1, FullBlock
<1>9. UsedInv'
  BY <1>1, <1>3, <1>8 DEF IInv, UsedInv
<1>10. WalkInv'
  <2>1. PICK R \in SUBSET DOMAIN block :
          /\ Chain(pNext, block[pBlock].pNext, R \ {pBlock})
          /\ \A b \in DOMAIN block \ R : SlotsOf(b) \subseteq held
    BY <1>1, Cursor, WalkFacts
  <2>2. SlotsOf(pBlock) \subseteq held
    BY <1>1, <1>8 DEF Out
  <2>3. \A b \in DOMAIN block \ (R \ {pBlock}) : SlotsOf(b) \subseteq held
    BY <2>1, <2>2
  <2>4. R \ {pBlock} \in SUBSET DOMAIN block
    OBVIOUS
  <2> QED
    BY <1>1, <1>5, <2>1, <2>3, <2>4 DEF WalkInv, SlotsOf
<1> QED
  BY <1>2, <1>4, <1>6, <1>7, <1>9, <1>10 DEF IInv

LEMMA NewBlockStep ==
  ASSUME IInv, NewBlock
  PROVE  IInv'
<1>1. PICK b \in Block \ DOMAIN block :
        /\ op = "Allocate" /\ pBlock = NULL
        /\ block' = [c \in DOMAIN block \union {b} |->
                       IF c = b THEN [pNext |-> g_pMemoryBlocks,
                                      pFree |-> <<b, LastSlot>>, usedCount |-> 0]
                                ELSE block[c]]
        /\ slot' = [s \in DOMAIN slot \union SlotsOf(b) |->
                      IF BlockOf(s) = b THEN Chained(b)[s] ELSE slot[s]]
        /\ g_pMemoryBlocks' = b /\ pBlock' = b
        /\ UNCHANGED <<op, pBuffer, pPrev, result, held>>
  BY DEF NewBlock
<1>2. DOMAIN block' = DOMAIN block \union {b} /\ DOMAIN slot' = DOMAIN slot \union SlotsOf(b)
  BY <1>1
<1>3. \A s \in DOMAIN slot : BlockOf(s) # b /\ slot'[s] = slot[s]
  BY <1>1, SlotOwner DEF IInv
<1>4. \A s \in SlotsOf(b) : s \in Slot /\ BlockOf(s) = b /\ slot'[s] = Chained(b)[s]
  BY <1>1, SlotFacts
<1>5. /\ \A c \in DOMAIN block : block'[c] = block[c]
      /\ block'[b] = [pNext |-> g_pMemoryBlocks, pFree |-> <<b, LastSlot>>, usedCount |-> 0]
  BY <1>1
<1>6. /\ <<b, LastSlot>> \in SlotsOf(b)
      /\ \A s \in SlotsOf(b) : Chained(b)[s] \in SlotsOf(b) \union {NULL}
  BY NewChain, ChainFacts, SlotFacts
<1>7. TypeOK'
  <2>1. g_pMemoryBlocks' \in Block /\ DOMAIN block' \subseteq Block /\ pBlock' \in Block
    BY <1>1, <1>2 DEF IInv, TypeOK
  <2>2. \A c \in DOMAIN block' :
          block'[c] \in [pNext : Block \union {NULL}, pFree : SlotsOf(c) \union {NULL},
                         usedCount : 0 .. BlockSlots - 1]
    BY <1>2, <1>5, <1>6, BlockSlotsAssumption DEF IInv, TypeOK
  <2>3. DOMAIN slot' = UNION {SlotsOf(c) : c \in DOMAIN block'}
    BY <1>2 DEF IInv, TypeOK
  <2>4. \A s \in DOMAIN slot' : slot'[s] \in SlotsOf(BlockOf(s)) \union {NULL, Code}
    BY <1>2, <1>3, <1>4, <1>6 DEF IInv, TypeOK
  <2> QED
    BY <1>1, <2>1, <2>2, <2>3, <2>4 DEF IInv, TypeOK, Pointer, SlotsOf, BlockOf
<1>8. \A c \in DOMAIN block : Out(c)' = Out(c)
  BY <1>1 DEF Out
<1>9. Out(b)' = {}
  <2>1. held \intersect SlotsOf(b) = {}
    BY <1>3, <1>4 DEF IInv, HeldInv
  <2> QED
    BY <1>1, <2>1 DEF Out
<1>10. FreeListsInv'
  <2>1. ASSUME NEW c \in DOMAIN block
        PROVE  /\ Chain(slot', block'[c].pFree, Spare(c)')
               /\ block'[c].usedCount = Cardinality(Out(c)')
    <3>1. Spare(c)' = Spare(c) /\ Spare(c) \subseteq DOMAIN slot
      BY <2>1, <1>8 DEF Spare, IInv, TypeOK
    <3>2. /\ Chain(slot, block[c].pFree, Spare(c))
          /\ block[c].usedCount = Cardinality(Out(c))
      BY <2>1, <1>1 DEF IInv, FreeListsInv
    <3>3. \A s \in Spare(c) : slot'[s] = slot[s]
      BY <3>1, <1>3
    <3>4. Chain(slot', block[c].pFree, Spare(c))
      BY <3>2, <3>3, ChainSame
    <3> QED
      BY <3>1, <3>2, <3>4, <2>1, <1>5, <1>8
  <2>2. /\ Chain(slot', block'[b].pFree, Spare(b)')
        /\ block'[b].usedCount = Cardinality(Out(b)')
    <3>1. Spare(b)' = SlotsOf(b)
      BY <1>9 DEF Spare
    <3>2. Chain(slot', <<b, LastSlot>>, SlotsOf(b))
      BY <1>4, NewChain, ChainSame
    <3> QED
      BY <3>1, <3>2, <1>5, <1>9, FS_EmptySet
  <2> QED
    BY <1>2, <2>1, <2>2 DEF FreeListsInv
<1>11. Chain(pNext', b, DOMAIN block')
  <2>1. Chain(pNext, g_pMemoryBlocks, DOMAIN block)
    BY <1>1 DEF IInv, BlockListInv, Head
  <2>2. pNext'[b] = g_pMemoryBlocks /\ \A c \in DOMAIN block : pNext'[c] = pNext[c]
    BY <1>2, <1>5 DEF pNext
  <2>3. b # NULL /\ NULL \notin DOMAIN block /\ b \notin DOMAIN block
    BY NullAssumption, Cursor
  <2> QED
    BY <2>1, <2>2, <2>3, <1>2, ChainPush
<1>12. BlockListInv'
  BY <1>1, <1>11 DEF BlockListInv, Head
<1>13. HeldInv'
  BY <1>1, <1>2 DEF IInv, HeldInv
<1>14. UsedInv'
  BY <1>1, <1>2, <1>8, Cursor DEF IInv, UsedInv
<1>15. WalkInv'
  BY <1>1, <1>11 DEF WalkInv
<1> QED
  BY <1>7, <1>10, <1>12, <1>13, <1>14, <1>15 DEF IInv

LEMMA NoMemoryStep ==
  ASSUME IInv, NoMemory
  PROVE  IInv'
<1>1. /\ op = "Allocate" /\ pBlock = NULL /\ op' = "none" /\ pBuffer' = NULL
      /\ pBlock' = NULL /\ pPrev' = NULL
      /\ UNCHANGED <<g_pMemoryBlocks, block, slot, result, held>>
  BY DEF NoMemory, Return
<1>2. TypeOK'
  BY <1>1 DEF IInv, TypeOK, Pointer
<1>3. \A b \in DOMAIN block : Out(b)' = Out(b)
  BY <1>1 DEF Out
<1>4. FreeListsInv'
  BY <1>1, <1>3, SameLists
<1>5. BlockListInv'
  BY <1>1 DEF IInv, BlockListInv, Head, pNext
<1>6. HeldInv'
  BY <1>1 DEF IInv, HeldInv
<1>7. UsedInv'
  BY <1>1, <1>3, Cursor DEF IInv, UsedInv
<1>8. WalkInv'
  BY <1>1 DEF WalkInv
<1> QED
  BY <1>2, <1>4, <1>5, <1>6, <1>7, <1>8 DEF IInv

\* What AllocateBuffer hands out was free.
LEMMA HandsOut ==
  ASSUME IInv, AllocateBuffer
  PROVE  /\ pBlock \in DOMAIN block
         /\ result' \in Spare(pBlock) /\ result' = block[pBlock].pFree
         /\ held' = held \union {result'} /\ result' \notin held
<1>1. op = "Allocate" /\ pBlock \in DOMAIN block /\ block[pBlock].pFree # NULL
  BY Cursor DEF AllocateBuffer, HasFree
<1>2. NULL \notin Spare(pBlock)
  BY <1>1, SlotFacts DEF Spare, IInv, TypeOK
<1>3. block[pBlock].pFree \in Spare(pBlock)
  BY <1>1, <1>2, ChainFacts DEF IInv, FreeListsInv
<1> QED
  BY <1>1, <1>3 DEF AllocateBuffer, Spare, Out

LEMMA AllocateBufferStep ==
  ASSUME IInv, AllocateBuffer
  PROVE  IInv'
<1> DEFINE p == block[pBlock].pFree
<1>0. PICK b \in DOMAIN block : b = pBlock
  BY HandsOut
<1>1. /\ op = "Allocate" /\ op' = "none" /\ pBuffer' = NULL /\ pBlock' = NULL
      /\ pPrev' = NULL /\ result' = p /\ held' = held \union {p}
      /\ block' = [block EXCEPT ![pBlock] =
                     [block[pBlock] EXCEPT !.pFree = slot[p], !.usedCount = @ + 1]]
      /\ UNCHANGED <<g_pMemoryBlocks, slot>>
  BY DEF AllocateBuffer, Return, Popped
<1>2. /\ pBlock \in DOMAIN block /\ pBlock \in Block /\ p \in Spare(pBlock)
      /\ p \notin held
  BY HandsOut DEF IInv, TypeOK
<1>3. /\ DOMAIN block \subseteq Block /\ DOMAIN slot = UNION {SlotsOf(c) : c \in DOMAIN block}
      /\ \A c \in DOMAIN block :
           block[c] \in [pNext : Block \union {NULL}, pFree : SlotsOf(c) \union {NULL},
                         usedCount : 0 .. BlockSlots - 1]
  BY DEF IInv, TypeOK
<1>4. /\ block'[pBlock].pFree = slot[p] /\ block'[pBlock].usedCount = block[pBlock].usedCount + 1
      /\ block'[pBlock].pNext = block[pBlock].pNext
      /\ \A c \in DOMAIN block \ {pBlock} : block'[c] = block[c]
      /\ DOMAIN block' = DOMAIN block
  BY <1>1, <1>2, <1>3
<1>5. p \in SlotsOf(pBlock) /\ p \in DOMAIN slot /\ p # NULL
  BY <1>2, <1>3, SlotFacts DEF Spare
<1>6. /\ Chain(slot, p, Spare(pBlock)) /\ NULL \notin Spare(pBlock)
      /\ block[pBlock].usedCount = Cardinality(Out(pBlock))
  BY <1>1, <1>2, SlotFacts DEF IInv, FreeListsInv, Spare
<1>7. /\ Out(b)' = Out(pBlock) \union {p} /\ p \notin Out(pBlock)
      /\ \A c \in DOMAIN block \ {pBlock} : Out(c)' = Out(c)
  <2>1. \A c \in DOMAIN block \ {pBlock} : p \notin SlotsOf(c)
    BY <1>2, <1>3, <1>5, SlotFacts
  <2> QED
    BY <1>0, <1>1, <1>2, <1>5, <2>1 DEF Out
<1>8. slot[p] \in SlotsOf(pBlock) \union {NULL}
  BY <1>2, <1>6, ChainFacts DEF Spare
<1>9. block'[pBlock].usedCount = Cardinality(Out(b)')
      /\ block'[pBlock].usedCount \in 0 .. BlockSlots - 1
  <2>1. IsFiniteSet(Out(pBlock)) /\ Cardinality(Out(pBlock)) \in 0 .. BlockSlots - 1
    BY <1>2, OutCount DEF IInv
  <2>2. Cardinality(Out(b)') = Cardinality(Out(pBlock)) + 1
    BY <1>0, <1>7, <2>1, FS_AddElement
  <2>3. Out(b)' \in SUBSET SlotsOf(b)
    BY <1>0, <1>7, <1>5 DEF Out
  <2>4. Cardinality(Out(b)') <= BlockSlots - 1
    BY <1>0, <1>2, <2>3, SlotCount, FS_Subset
  <2> QED
    BY <1>0, <1>4, <1>6, <2>1, <2>2, <2>4, BlockSlotsAssumption
<1>10. TypeOK'
  <2>1. \A c \in DOMAIN block' :
          block'[c] \in [pNext : Block \union {NULL}, pFree : SlotsOf(c) \union {NULL},
                         usedCount : 0 .. BlockSlots - 1]
    <3>1. block'[pBlock] = [block[pBlock] EXCEPT !.pFree = slot[p], !.usedCount = @ + 1]
      BY <1>1, <1>2
    <3> QED
      BY <3>1, <1>2, <1>3, <1>4, <1>8, <1>9
  <2>2. result' \in Pointer /\ held' \subseteq Slot
    BY <1>1, <1>2, <1>5, SlotFacts DEF IInv, TypeOK, Pointer
  <2> QED
    BY <1>1, <1>3, <1>4, <2>1, <2>2 DEF IInv, TypeOK, Pointer
<1>11. FreeListsInv'
  <2>1. Chain(slot, slot[p], Spare(b)')
    <3>1. Spare(b)' = Spare(pBlock) \ {p}
      BY <1>0, <1>7 DEF Spare
    <3> QED
      BY <3>1, <1>5, <1>6, ChainPop
  <2>2. \A c \in DOMAIN block \ {pBlock} : Spare(c)' = Spare(c)
    BY <1>7 DEF Spare
  <2> HIDE DEF p
  <2>3. ASSUME NEW c \in DOMAIN block
        PROVE  /\ Chain(slot, block'[c].pFree, Spare(c)')
               /\ block'[c].usedCount = Cardinality(Out(c)')
    <3>1. CASE c = b
      BY <3>1, <2>1, <1>0, <1>4, <1>9
    <3>2. CASE c # b
      <4>1. block'[c] = block[c] /\ Spare(c)' = Spare(c) /\ Out(c)' = Out(c)
        BY <3>2, <2>2, <1>0, <1>4, <1>7
      <4> QED
        BY <4>1, <1>1 DEF IInv, FreeListsInv
    <3> QED
      BY <3>1, <3>2
  <2> QED
    BY <2>3, <1>1, <1>4 DEF FreeListsInv
<1>12. pNext' = pNext
  BY <1>4 DEF pNext
<1>13. BlockListInv'
  BY <1>1, <1>4, <1>12 DEF IInv, BlockListInv, Head
<1>14. HeldInv'
  BY <1>1, <1>5 DEF IInv, HeldInv
<1>15. UsedInv'
  BY <1>0, <1>1, <1>4, <1>7 DEF IInv, UsedInv
<1>16. WalkInv'
  BY <1>1 DEF WalkInv
<1> QED
  BY <1>10, <1>11, <1>13, <1>14, <1>15, <1>16 DEF IInv

-------------------------------------------------------------------------------
(***************************************************************************)
(* FreeBuffer.                                                             *)
(***************************************************************************)
LEMMA NotThisBlockStep ==
  ASSUME IInv, NotThisBlock
  PROVE  IInv'
<1>1. /\ op = "Free" /\ pBlock # NULL /\ pBlock # BlockOf(pBuffer)
      /\ pPrev' = pBlock /\ pBlock' = block[pBlock].pNext
      /\ UNCHANGED <<g_pMemoryBlocks, block, slot, op, pBuffer, result, held>>
  BY DEF NotThisBlock, WalkOn
<1>2. pBlock \in DOMAIN block
  BY <1>1, Cursor
<1>3. TypeOK'
  BY <1>1, <1>2 DEF IInv, TypeOK, Pointer
<1>4. \A b \in DOMAIN block : Out(b)' = Out(b)
  BY <1>1 DEF Out
<1>5. FreeListsInv'
  BY <1>1, <1>4, SameLists
<1>6. pNext' = pNext
  BY <1>1 DEF pNext
<1>7. BlockListInv'
  BY <1>1, <1>6 DEF IInv, BlockListInv, Head
<1>8. HeldInv'
  BY <1>1 DEF IInv, HeldInv
<1>9. UsedInv'
  BY <1>1, <1>4 DEF IInv, UsedInv
<1>10. WalkInv'
  <2>1. PICK R \in SUBSET DOMAIN block :
          Chain(pNext, block[pBlock].pNext, R \ {pBlock}) /\ BlockOf(pBuffer) \in R
    BY <1>1, WalkFacts
  <2>2. R \ {pBlock} \in SUBSET DOMAIN block /\ BlockOf(pBuffer) \in R \ {pBlock}
    BY <2>1, <1>1
  <2>3. pPrev' # NULL
    BY <1>1
  <2> QED
    BY <1>1, <1>2, <1>6, <2>1, <2>2, <2>3 DEF WalkInv, BlockOf
<1> QED
  BY <1>3, <1>5, <1>7, <1>8, <1>9, <1>10 DEF IInv

\* The slot given back, its block, and what is in use of the block without it.
LEMMA GivenBack ==
  ASSUME IInv, op = "Free", pBlock # NULL, pBlock = BlockOf(pBuffer)
  PROVE  /\ pBlock \in DOMAIN block /\ pBlock \in Block
         /\ pBuffer \in DOMAIN slot /\ pBuffer \notin held /\ pBuffer # NULL
         /\ pBuffer \in SlotsOf(pBlock) /\ pBuffer \notin Spare(pBlock)
         /\ \A b \in DOMAIN block \ {pBlock} : pBuffer \notin SlotsOf(b)
         /\ Cardinality(SlotsOf(pBlock) \intersect held) \in 0 .. BlockSlots - 1
         /\ Pushed(pBlock).usedCount = Cardinality(SlotsOf(pBlock) \intersect held)
         /\ Unused(Pushed(pBlock)) <=> SlotsOf(pBlock) \intersect held = {}
<1>1. /\ pBlock \in DOMAIN block /\ pBlock \in Block
      /\ pBuffer \in DOMAIN slot /\ pBuffer \notin held /\ pBuffer # NULL
      /\ pBuffer \in SlotsOf(pBlock)
      /\ \A b \in DOMAIN block \ {pBlock} : pBuffer \notin SlotsOf(b)
  BY Cursor, SlotOwner DEF IInv, HeldInv, TypeOK
<1>2. Out(pBlock) = (SlotsOf(pBlock) \intersect held) \union {pBuffer}
  BY <1>1 DEF Out
<1>3. IsFiniteSet(Out(pBlock)) /\ Cardinality(Out(pBlock)) \in 0 .. BlockSlots - 1
  BY <1>1, OutCount DEF IInv
<1>4. Out(pBlock) \ {pBuffer} = SlotsOf(pBlock) \intersect held
  BY <1>1, <1>2
<1>5. /\ IsFiniteSet(SlotsOf(pBlock) \intersect held)
      /\ Cardinality(SlotsOf(pBlock) \intersect held) = Cardinality(Out(pBlock)) - 1
  BY <1>2, <1>3, <1>4, FS_RemoveElement
<1>6. Cardinality(SlotsOf(pBlock) \intersect held) \in 0 .. BlockSlots - 1
  BY <1>3, <1>5, FS_CardinalityType, BlockSlotsAssumption
<1>7. Pushed(pBlock).usedCount = Cardinality(SlotsOf(pBlock) \intersect held)
  <2>1. block[pBlock].usedCount = Cardinality(Out(pBlock))
    BY <1>1 DEF IInv, FreeListsInv
  <2>2. Pushed(pBlock).usedCount = block[pBlock].usedCount - 1
    BY <1>1 DEF Pushed, IInv, TypeOK
  <2> QED
    BY <2>1, <2>2, <1>5
<1>8. Unused(Pushed(pBlock)) <=> SlotsOf(pBlock) \intersect held = {}
  BY <1>5, <1>7, FS_EmptySet DEF Unused
<1>9. pBuffer \notin Spare(pBlock)
  BY <1>2 DEF Spare
<1> QED
  BY <1>1, <1>6, <1>7, <1>8, <1>9

LEMMA ReturnSlotStep ==
  ASSUME IInv, ReturnSlot
  PROVE  IInv'
<1>1. /\ op = "Free" /\ pBlock # NULL /\ pBlock = BlockOf(pBuffer)
      /\ ~Unused(Pushed(pBlock))
  BY DEF ReturnSlot
<1>2. PICK b \in DOMAIN block, q \in DOMAIN slot : b = pBlock /\ q = pBuffer
  BY <1>1, GivenBack
<1>3. /\ slot' = [slot EXCEPT ![q] = block[b].pFree]
      /\ block' = [block EXCEPT ![b] = Pushed(b)]
      /\ op' = "none" /\ pBuffer' = NULL /\ pBlock' = NULL /\ pPrev' = NULL
      /\ UNCHANGED <<g_pMemoryBlocks, result, held>>
  BY <1>2 DEF ReturnSlot, Return
<1>4. /\ b \in Block /\ q \notin held /\ q # NULL /\ q \in SlotsOf(b)
      /\ BlockOf(q) = b
      /\ \A c \in DOMAIN block \ {b} : q \notin SlotsOf(c)
      /\ Cardinality(SlotsOf(b) \intersect held) \in 0 .. BlockSlots - 1
      /\ Pushed(b).usedCount = Cardinality(SlotsOf(b) \intersect held)
      /\ SlotsOf(b) \intersect held # {}
  BY <1>1, <1>2, GivenBack
<1>5. \A c \in DOMAIN block :
        block[c] \in [pNext : Block \union {NULL}, pFree : SlotsOf(c) \union {NULL},
                      usedCount : 0 .. BlockSlots - 1]
  BY DEF IInv, TypeOK
<1>6. /\ DOMAIN block' = DOMAIN block /\ DOMAIN slot' = DOMAIN slot
      /\ \A c \in DOMAIN block \ {b} : block'[c] = block[c]
      /\ block'[b] = [pNext |-> block[b].pNext, pFree |-> q,
                      usedCount |-> Cardinality(SlotsOf(b) \intersect held)]
      /\ \A s \in DOMAIN slot \ {q} : slot'[s] = slot[s]
      /\ slot'[q] = block[b].pFree
  <2>1. Pushed(b) = [pNext |-> block[b].pNext, pFree |-> q,
                     usedCount |-> Cardinality(SlotsOf(b) \intersect held)]
    <3>1. Pushed(b) = [pNext |-> block[b].pNext, pFree |-> q,
                       usedCount |-> block[b].usedCount - 1]
      <4>1. block[b] \in [pNext : Block \union {NULL}, pFree : SlotsOf(b) \union {NULL},
                          usedCount : 0 .. BlockSlots - 1]
        BY <1>5
      <4>2. Pushed(b) = [block[b] EXCEPT !.pFree = q, !.usedCount = @ - 1]
        BY <1>2 DEF Pushed
      <4> QED
        BY <4>1, <4>2
    <3>2. Pushed(b).usedCount = block[b].usedCount - 1
      BY <3>1
    <3> QED
      BY <3>1, <3>2, <1>4
  <2> QED
    BY <1>3, <2>1
<1>7. TypeOK'
  <2>1. \A c \in DOMAIN block' :
          block'[c] \in [pNext : Block \union {NULL}, pFree : SlotsOf(c) \union {NULL},
                         usedCount : 0 .. BlockSlots - 1]
    BY <1>4, <1>5, <1>6
  <2>2. \A s \in DOMAIN slot' : slot'[s] \in SlotsOf(BlockOf(s)) \union {NULL, Code}
    BY <1>4, <1>5, <1>6 DEF IInv, TypeOK
  <2> QED
    BY <1>3, <1>6, <2>1, <2>2 DEF IInv, TypeOK, Pointer
<1>8. /\ Out(b)' = SlotsOf(b) \intersect held
      /\ Spare(b)' = Spare(b) \union {q} /\ q \notin Spare(b)
      /\ \A c \in DOMAIN block \ {b} : Out(c)' = Out(c) /\ Spare(c)' = Spare(c)
  BY <1>1, <1>2, <1>3, <1>4 DEF Out, Spare
<1>9. FreeListsInv'
  <2>1. ASSUME NEW c \in DOMAIN block \ {b}
        PROVE  /\ Chain(slot', block'[c].pFree, Spare(c)')
               /\ block'[c].usedCount = Cardinality(Out(c)')
    <3>1. Chain(slot, block[c].pFree, Spare(c)) /\ block[c].usedCount = Cardinality(Out(c))
      BY <1>1 DEF IInv, FreeListsInv
    <3>2. \A s \in Spare(c) : slot'[s] = slot[s]
      <4>1. Spare(c) \subseteq DOMAIN slot
        BY DEF Spare, IInv, TypeOK
      <4>2. q \notin Spare(c)
        BY <1>4 DEF Spare
      <4> QED
        BY <4>1, <4>2, <1>6
    <3> QED
      BY <3>1, <3>2, <1>6, <1>8, ChainSame
  <2>2. Chain(slot', block'[b].pFree, Spare(b)') /\ block'[b].usedCount = Cardinality(Out(b)')
    <3>1. Chain(slot, block[b].pFree, Spare(b))
      BY <1>1 DEF IInv, FreeListsInv
    <3>2. \A s \in Spare(b) : slot'[s] = slot[s]
      <4>1. Spare(b) \subseteq DOMAIN slot
        BY DEF Spare, IInv, TypeOK
      <4> QED
        BY <4>1, <1>6, <1>8
    <3>3. NULL \notin Spare(b)
      BY <1>4, SlotFacts DEF Spare
    <3>4. Chain(slot', q, Spare(b) \union {q})
      BY <3>1, <3>2, <3>3, <1>4, <1>6, <1>8, ChainPush
    <3> QED
      BY <3>4, <1>6, <1>8
  <2> QED
    BY <2>1, <2>2, <1>6 DEF FreeListsInv
<1>10. pNext' = pNext
  BY <1>6 DEF pNext
<1>11. BlockListInv'
  BY <1>1, <1>3, <1>6, <1>10 DEF IInv, BlockListInv, Head
<1>12. HeldInv'
  BY <1>1, <1>3, <1>6 DEF IInv, HeldInv
<1>13. UsedInv'
  BY <1>1, <1>4, <1>6, <1>8 DEF IInv, UsedInv
<1>14. WalkInv'
  BY <1>3 DEF WalkInv
<1> QED
  BY <1>7, <1>9, <1>11, <1>12, <1>13, <1>14 DEF IInv

LEMMA ReturnLastSlotStep ==
  ASSUME IInv, ReturnLastSlot
  PROVE  IInv'
<1>1. /\ op = "Free" /\ pBlock # NULL /\ pBlock = BlockOf(pBuffer)
      /\ Unused(Pushed(pBlock))
  BY DEF ReturnLastSlot
<1>2. PICK b \in DOMAIN block : b = pBlock
  BY <1>1, GivenBack
<1>3. /\ g_pMemoryBlocks' = IF pPrev = NULL THEN block[b].pNext ELSE g_pMemoryBlocks
      /\ block' = Unlinked(b) /\ slot' = SlotsLeft(b)
      /\ op' = "none" /\ pBuffer' = NULL /\ pBlock' = NULL /\ pPrev' = NULL
      /\ UNCHANGED <<result, held>>
  BY <1>2 DEF ReturnLastSlot, Return
<1>4. b \in Block /\ SlotsOf(b) \intersect held = {}
      /\ \A c \in DOMAIN block \ {b} : pBuffer \notin SlotsOf(c)
  BY <1>1, <1>2, GivenBack
<1>5. \A c \in DOMAIN block :
        /\ c \in Block
        /\ block[c] \in [pNext : Block \union {NULL}, pFree : SlotsOf(c) \union {NULL},
                         usedCount : 0 .. BlockSlots - 1]
  BY DEF IInv, TypeOK
<1>6. pPrev = NULL \/ (pPrev \in DOMAIN block /\ block[pPrev].pNext = b)
  BY <1>1, <1>2 DEF IInv, WalkInv
<1>7. /\ NULL \notin DOMAIN block
      /\ Chain(pNext, g_pMemoryBlocks, DOMAIN block)
      /\ \A c \in DOMAIN block : pNext[c] = block[c].pNext
  BY <1>1, Cursor DEF IInv, BlockListInv, Head, pNext
<1>8. /\ DOMAIN block' = DOMAIN block \ {b}
      /\ \A c \in DOMAIN block' :
           block'[c] = IF c = pPrev THEN [block[c] EXCEPT !.pNext = block[b].pNext]
                                    ELSE block[c]
  BY <1>3, <1>7 DEF Unlinked, Released
<1>9. DOMAIN slot' = DOMAIN slot \ SlotsOf(b) /\ \A s \in DOMAIN slot' : slot'[s] = slot[s]
  BY <1>3 DEF SlotsLeft
<1>10. /\ block[b].pNext \in DOMAIN block \union {NULL}
       /\ g_pMemoryBlocks' \in Block \union {NULL}
  <2>1. block[b].pNext \in DOMAIN block \union {NULL}
    BY <1>7, ChainFacts
  <2> QED
    BY <2>1, <1>3, <1>5 DEF IInv, TypeOK
<1>11. \A c \in DOMAIN block' :
         /\ block'[c].pFree = block[c].pFree /\ block'[c].usedCount = block[c].usedCount
         /\ block'[c] \in [pNext : Block \union {NULL}, pFree : SlotsOf(c) \union {NULL},
                           usedCount : 0 .. BlockSlots - 1]
  BY <1>5, <1>8, <1>10
<1>12. TypeOK'
  <2>1. DOMAIN slot' = UNION {SlotsOf(c) : c \in DOMAIN block'}
    <3>1. \A c \in DOMAIN block \ {b} : SlotsOf(c) \intersect SlotsOf(b) = {}
      BY <1>4, <1>5, SlotFacts
    <3> QED
      BY <3>1, <1>8, <1>9 DEF IInv, TypeOK
  <2>2. \A s \in DOMAIN slot' : slot'[s] \in SlotsOf(BlockOf(s)) \union {NULL, Code}
    BY <1>9 DEF IInv, TypeOK
  <2> QED
    BY <1>3, <1>5, <1>8, <1>10, <1>11, <2>1, <2>2 DEF IInv, TypeOK, Pointer
<1>13. \A c \in DOMAIN block' : Out(c)' = Out(c) /\ Spare(c)' = Spare(c)
  BY <1>1, <1>3, <1>4, <1>8 DEF Out, Spare
<1>14. FreeListsInv'
  <2>1. ASSUME NEW c \in DOMAIN block'
        PROVE  /\ Chain(slot', block'[c].pFree, Spare(c)')
               /\ block'[c].usedCount = Cardinality(Out(c)')
    <3>1. Chain(slot, block[c].pFree, Spare(c)) /\ block[c].usedCount = Cardinality(Out(c))
      BY <1>1, <1>8 DEF IInv, FreeListsInv
    <3>2. Spare(c) \subseteq DOMAIN slot'
      BY <1>12 DEF TypeOK, Spare, SlotsOf
    <3> QED
      BY <3>1, <3>2, <1>9, <1>11, <1>13, ChainSame
  <2> QED
    BY <2>1 DEF FreeListsInv
<1>15. Chain(pNext', g_pMemoryBlocks', DOMAIN block')
  <2>1. \A c \in DOMAIN block' : pNext'[c] = block'[c].pNext
    BY DEF pNext
  <2>2. CASE pPrev = NULL
    <3>1. g_pMemoryBlocks = b /\ g_pMemoryBlocks' = pNext[b]
      BY <2>2, <1>1, <1>2, <1>3, <1>7 DEF IInv, WalkInv
    <3>2. Chain(pNext, pNext[b], DOMAIN block \ {b})
      BY <3>1, <1>2, <1>7, ChainPop
    <3>3. \A c \in DOMAIN block \ {b} : pNext'[c] = pNext[c]
      BY <2>1, <2>2, <1>7, <1>8
    <3> QED
      BY <3>1, <3>2, <3>3, <1>8, ChainSame
  <2>3. CASE pPrev # NULL
    <3>1. pPrev \in DOMAIN block /\ pNext[pPrev] = b /\ g_pMemoryBlocks' = g_pMemoryBlocks
      BY <2>3, <1>3, <1>6, <1>7
    <3>2. pPrev # b
      <4>1. Chain(pNext, g_pMemoryBlocks, DOMAIN block) /\ pNext[pPrev] = b
        BY <3>1, <1>7
      <4> DEFINE other == [pNext EXCEPT ![pPrev] = pNext[b]]
      <4>2. other[pPrev] = pNext[b] /\ \A c \in DOMAIN block \ {b, pPrev} : other[c] = pNext[c]
        BY <3>1 DEF pNext
      <4> HIDE DEF other
      <4> QED
        BY <4>1, <4>2, <3>1, <1>7, ChainUnlink
    <3>3. pNext'[pPrev] = pNext[b]
          /\ \A c \in DOMAIN block \ {b, pPrev} : pNext'[c] = pNext[c]
      BY <2>1, <3>1, <3>2, <1>5, <1>7, <1>8
    <3> QED
      BY <3>1, <3>3, <1>7, <1>8, ChainUnlink
  <2> QED
    BY <2>2, <2>3
<1>16. BlockListInv'
  BY <1>3, <1>15 DEF BlockListInv, Head
<1>17. HeldInv'
  BY <1>1, <1>3, <1>4, <1>9 DEF IInv, HeldInv
<1>18. UsedInv'
  BY <1>1, <1>8, <1>13 DEF IInv, UsedInv
<1>19. WalkInv'
  BY <1>3 DEF WalkInv
<1> QED
  BY <1>12, <1>14, <1>16, <1>17, <1>18, <1>19 DEF IInv

-------------------------------------------------------------------------------
(***************************************************************************)
(* UninitializeBuffer.                                                     *)
(***************************************************************************)
LEMMA ReleaseBlockStep ==
  ASSUME IInv, ReleaseBlock
  PROVE  IInv'
<1>1. PICK b \in DOMAIN block : b = pBlock /\ op = "Uninitialize" /\ b # NULL
  BY Cursor DEF ReleaseBlock
<1>2. /\ pBlock' = block[b].pNext /\ block' = Released(b) /\ slot' = SlotsLeft(b)
      /\ UNCHANGED <<g_pMemoryBlocks, op, pBuffer, pPrev, result, held>>
  BY <1>1 DEF ReleaseBlock
<1>3. /\ DOMAIN block' = DOMAIN block \ {b} /\ DOMAIN slot' = DOMAIN slot \ SlotsOf(b)
      /\ \A c \in DOMAIN block' : block'[c] = block[c]
      /\ \A s \in DOMAIN slot' : slot'[s] = slot[s]
  BY <1>2 DEF Released, SlotsLeft
<1>4. TypeOK'
  <2>1. DOMAIN slot' = UNION {SlotsOf(c) : c \in DOMAIN block'}
    <3>1. \A c \in DOMAIN block \ {b} : SlotsOf(c) \intersect SlotsOf(b) = {}
      BY SlotFacts DEF IInv, TypeOK
    <3> QED
      BY <3>1, <1>3 DEF IInv, TypeOK
  <2>2. pBlock' \in Block \union {NULL}
    BY <1>1, <1>2 DEF IInv, TypeOK
  <2> QED
    BY <1>2, <1>3, <2>1, <2>2 DEF IInv, TypeOK, Pointer
<1>5. Chain(pNext', pBlock', DOMAIN block')
  <2>1. Chain(pNext, b, DOMAIN block) /\ NULL \notin DOMAIN block
    BY <1>1, Cursor DEF IInv, BlockListInv, Head
  <2>2. Chain(pNext, pNext[b], DOMAIN block \ {b})
    BY <2>1, <1>1, ChainPop
  <2>3. pNext[b] = pBlock' /\ \A c \in DOMAIN block' : pNext'[c] = pNext[c]
    BY <1>2, <1>3 DEF pNext
  <2> QED
    BY <2>2, <2>3, <1>3, ChainSame
<1>6. BlockListInv'
  BY <1>1, <1>2, <1>5 DEF BlockListInv, Head
<1>7. FreeListsInv' /\ HeldInv' /\ UsedInv' /\ WalkInv'
  BY <1>1, <1>2 DEF IInv, FreeListsInv, HeldInv, UsedInv, WalkInv
<1> QED
  BY <1>4, <1>6, <1>7 DEF IInv

LEMMA AllReleasedStep ==
  ASSUME IInv, AllReleased
  PROVE  IInv'
<1>1. /\ op = "Uninitialize" /\ pBlock = NULL /\ op' = "none" /\ pBuffer' = NULL
      /\ pBlock' = NULL /\ pPrev' = NULL
      /\ UNCHANGED <<g_pMemoryBlocks, block, slot, result, held>>
  BY DEF AllReleased, Return
<1>2. Chain(pNext, NULL, DOMAIN block) /\ NULL \notin DOMAIN block
  BY <1>1, Cursor DEF IInv, BlockListInv, Head
<1>3. DOMAIN block = {}
  BY <1>2, ChainFacts
<1>4. TypeOK'
  BY <1>1 DEF IInv, TypeOK, Pointer
<1>5. BlockListInv'
  BY <1>1, <1>2 DEF IInv, HeldInv, BlockListInv, Head, pNext
<1>6. FreeListsInv' /\ HeldInv' /\ UsedInv' /\ WalkInv'
  BY <1>1, <1>3 DEF IInv, FreeListsInv, HeldInv, UsedInv, WalkInv
<1> QED
  BY <1>4, <1>5, <1>6 DEF IInv

-------------------------------------------------------------------------------
(***************************************************************************)
(* The theorems.                                                           *)
(***************************************************************************)
LEMMA Invariance ==
  ASSUME IInv, [Next]_vars
  PROVE  IInv'
<1>1. CASE UNCHANGED vars
  BY <1>1 DEF vars, IInv, TypeOK, Pointer, FreeListsInv, BlockListInv, HeldInv, UsedInv,
              WalkInv, Spare, Out, Head, pNext
<1>2. CASE Next
  BY <1>2, CallAllocateStep, CallFreeStep, CallUninitializeStep, WriteTrampolineStep,
     SkipFullBlockStep, NewBlockStep, NoMemoryStep, AllocateBufferStep, NotThisBlockStep,
     ReturnSlotStep, ReturnLastSlotStep, ReleaseBlockStep, AllReleasedStep
     DEF Next, InCall
<1> QED
  BY <1>1, <1>2

\* The lists of free slots and of blocks, their counters and the walks along them
\* stay what they are meant to be (buffer.c).
THEOREM SlotBufferInvariant == Spec => []IInv
<1>1. Init => IInv
  <2>1. SUFFICES ASSUME Init
                 PROVE  IInv
    OBVIOUS
  <2>2. /\ DOMAIN block = {} /\ DOMAIN slot = {} /\ held = {} /\ op = "none"
        /\ g_pMemoryBlocks = NULL /\ pBuffer = NULL /\ pBlock = NULL /\ pPrev = NULL
        /\ result = NULL
    BY <2>1 DEF Init
  <2>3. BlockListInv
    BY <2>2 DEF BlockListInv, Head, Chain, Lists
  <2> QED
    BY <2>2, <2>3 DEF IInv, TypeOK, Pointer, FreeListsInv, HeldInv, UsedInv, WalkInv
<1> QED
  BY <1>1, Invariance, PTL DEF Spec

\* Each block's free list is the slots nobody has and its counter the number of the
\* others (AllocateBuffer, FreeBuffer).
THEOREM ListsStayIntact == Spec => []ListsIntact
<1>1. IInv => ListsIntact
  BY DEF IInv, FreeListsInv, Chain, Spare, ListsIntact
<1> QED
  BY <1>1, SlotBufferInvariant, PTL

\* Every block is on the list, FreeBuffer finds the one it looks for, and between
\* calls every block has a slot in use (GetMemoryBlock, FreeBuffer).
THEOREM NoBlockIsLost == Spec => []NothingLeaked
<1>1. ASSUME IInv
      PROVE  NothingLeaked
  <2>1. Lists(pNext, Head, DOMAIN block)
    BY <1>1 DEF IInv, BlockListInv, Chain
  <2>2. op = "Free" =>
          \E R \in SUBSET DOMAIN block : Lists(pNext, pBlock, R) /\ BlockOf(pBuffer) \in R
    BY <1>1 DEF IInv, WalkInv, Chain
  <2>3. op = "none" => \A b \in DOMAIN block : Out(b) # {}
    BY <1>1 DEF IInv, UsedInv
  <2> QED
    BY <2>1, <2>2, <2>3 DEF NothingLeaked, Head
<1> QED
  BY <1>1, SlotBufferInvariant, PTL

\* No call moves or overwrites the trampoline of a hook that keeps its slot
\* (buffer.c; threads may be executing it).
THEOREM TrampolinesAreLeftAlone == Spec => TrampolinesStay
<1>1. ASSUME IInv, [Next]_vars, NEW s \in held \intersect held'
      PROVE  s \in DOMAIN slot' /\ (slot[s] = Code => slot'[s] = Code)
  <2>1. s \in DOMAIN slot /\ s \in DOMAIN slot'
    <3>1. HeldInv'
      BY <1>1, Invariance DEF IInv
    <3> QED
      BY <1>1, <3>1 DEF IInv, HeldInv
  <2>2. CASE slot' = slot
    BY <2>1, <2>2
  <2>3. CASE WriteTrampoline
    BY <2>1, <2>3 DEF WriteTrampoline
  <2>4. CASE NewBlock
    <3>1. PICK b \in Block \ DOMAIN block :
            slot' = [t \in DOMAIN slot \union SlotsOf(b) |->
                       IF BlockOf(t) = b THEN Chained(b)[t] ELSE slot[t]]
      BY <2>4 DEF NewBlock
    <3>2. BlockOf(s) # b
      BY <1>1, <2>1, SlotOwner DEF IInv
    <3> QED
      BY <2>1, <3>1, <3>2
  <2>5. CASE ReturnSlot
    <3>1. s # pBuffer
      BY <1>1, <2>5, GivenBack DEF ReturnSlot
    <3> QED
      BY <2>1, <2>5, <3>1 DEF ReturnSlot
  <2>6. CASE ReturnLastSlot
    BY <2>1, <2>6 DEF ReturnLastSlot, SlotsLeft
  <2>7. CASE ReleaseBlock
    BY <2>1, <2>7 DEF ReleaseBlock, SlotsLeft
  <2> QED
    BY <1>1, <2>2, <2>3, <2>4, <2>5, <2>6, <2>7
       DEF Next, InCall, vars, CallAllocate, CallFree, CallUninitialize, Begin,
           SkipFullBlock, NoMemory, AllocateBuffer, NotThisBlock, AllReleased
<1>2. IInv /\ [Next]_vars =>
        \A s \in held \intersect held' :
          s \in DOMAIN slot' /\ (slot[s] = Code => slot'[s] = Code)
  BY <1>1
<1> QED
  BY <1>2, SlotBufferInvariant, PTL DEF Spec, TrampolinesStay

\* The process asks for memory, or a hook is refused its trampoline, only when all
\* slots are in use (GetMemoryBlock).
THEOREM NoMemoryWithoutNeed == Spec => GrowsOnlyWhenFull
<1> DEFINE Grows == \/ DOMAIN block' \ DOMAIN block # {}
                    \/ op = "Allocate" /\ op' = "none" /\ result' = NULL
           AllFull == \A b \in DOMAIN block : SlotsOf(b) \subseteq held
<1>1. ASSUME IInv, [Next]_vars, Grows
      PROVE  AllFull
  <2>1. CASE op = "Allocate" /\ pBlock = NULL
    <3>1. PICK R \in SUBSET DOMAIN block :
            Chain(pNext, pBlock, R) /\ \A b \in DOMAIN block \ R : SlotsOf(b) \subseteq held
      BY <1>1, <2>1 DEF IInv, WalkInv
    <3>2. NULL \notin R
      BY <1>1, Cursor
    <3>3. R = {}
      BY <2>1, <3>1, <3>2, ChainFacts
    <3> QED
      BY <3>1, <3>3
  <2>2. CASE AllocateBuffer
    <3>1. result' # NULL
      BY <1>1, <2>2, HandsOut, SlotFacts DEF IInv, TypeOK, Spare
    <3>2. DOMAIN block' = DOMAIN block
      BY <2>2 DEF AllocateBuffer
    <3> QED
      BY <1>1, <3>1, <3>2
  <2>3. CASE ReturnSlot
    BY <1>1, <2>3 DEF ReturnSlot
  <2>4. CASE ReturnLastSlot
    BY <1>1, <2>4 DEF ReturnLastSlot, Unlinked, Released
  <2>5. CASE ReleaseBlock
    BY <1>1, <2>5 DEF ReleaseBlock, Released
  <2>6. CASE UNCHANGED block /\ ~ (op = "Allocate" /\ op' = "none")
    BY <1>1, <2>6
  <2> QED
    BY <1>1, <2>1, <2>2, <2>3, <2>4, <2>5, <2>6
       DEF Next, InCall, vars, CallAllocate, CallFree, CallUninitialize, Begin,
           WriteTrampoline, SkipFullBlock, NewBlock, NoMemory, NotThisBlock, AllReleased
<1>2. IInv /\ [Next]_vars => (Grows => AllFull)
  BY <1>1
<1>3. IInv /\ [Next]_vars => [Grows => AllFull]_vars
  BY <1>2
<1> QED
  BY <1>3, SlotBufferInvariant, PTL DEF Spec, GrowsOnlyWhenFull

\* The lists in memory are the set of slots MinHook takes them for: what is handed
\* out is nobody's (AllocateBuffer, FreeBuffer).
THEOREM ImplementsPool == Spec => PoolSpec
<1>1. Init => Pool!Init
  BY DEF Init, Pool!Init
<1>2. ASSUME IInv, [Next]_vars
      PROVE  [Pool!Next]_<<Slot \ held, result>>
  <2>1. CASE CallAllocate
    BY <2>1 DEF CallAllocate, Begin, Pool!Next, Pool!Ask
  <2>2. CASE CallFree
    <3>1. PICK s \in held : held' = held \ {s} /\ result' = NULL
      BY <2>2 DEF CallFree, Begin
    <3>2. s \in Slot
      BY <1>2 DEF IInv, TypeOK
    <3>3. s \in Slot \ (Slot \ held) /\ Slot \ held' = (Slot \ held) \union {s}
      BY <3>1, <3>2
    <3> QED
      BY <3>1, <3>3 DEF Pool!Next, Pool!GiveBack
  <2>3. CASE CallUninitialize
    BY <2>3 DEF CallUninitialize, Begin, Pool!Next, Pool!GiveBackAll
  <2>4. CASE AllocateBuffer
    <3>1. result' \in Slot \ held /\ held' = held \union {result'}
      BY <1>2, <2>4, HandsOut, SlotFacts DEF IInv, TypeOK, Spare
    <3>2. Slot \ held' = (Slot \ held) \ {result'}
      BY <3>1
    <3> QED
      BY <3>1, <3>2 DEF Pool!Next, Pool!Take
  <2>5. CASE UNCHANGED <<held, result>>
    BY <2>5
  <2> QED
    BY <1>2, <2>1, <2>2, <2>3, <2>4, <2>5
       DEF Next, InCall, vars, WriteTrampoline, SkipFullBlock, NewBlock, NoMemory,
           NotThisBlock, ReturnSlot, ReturnLastSlot, ReleaseBlock, AllReleased
<1>3. IInv /\ [Next]_vars => [Pool!Next]_<<Slot \ held, result>>
  BY <1>2
<1> QED
  BY <1>1, <1>3, SlotBufferInvariant, PTL DEF Spec, PoolSpec, Pool!Spec
===============================================================================
