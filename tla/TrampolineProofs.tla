--------------------------- MODULE TrampolineProofs ---------------------------
(***************************************************************************)
(* Trampolines of any function, for any lengths of its instructions, any   *)
(* destinations of its branches and any place of the slot.                 *)
(***************************************************************************)
EXTENDS Trampoline, TLAPS

-------------------------------------------------------------------------------
(***************************************************************************)
(* The inductive invariant.                                                *)
(***************************************************************************)
\* While instructions are copied, none grows to more than three times its length,
\* and the last one is the longest at most.
Bounded ==
  status = "copying" =>
    /\ Len(tramp) <= oldPos /\ Len(tramp) <= JMP_REL
    /\ oldPos < JMP_REL + MaxInstruction
    /\ newPos <= IF oldPos < JMP_REL THEN 3 * oldPos ELSE MaxSize - JMP_REL

\* The copy is as long as the instruction.
Even(e) == e.size = e.insn.len

EvenBetween(o, p) == \A g \in Copies : o <= g.old /\ g.old < p => Even(g)

\* The copy at o of what is at n is as far from f's as the originals are, if all
\* between them are even.
Alike(f, o, n) == EvenBetween(f.old, o) => n - f.new = o - f.old

Follows(e) == \E f \in Copies : f.old = e.old + e.insn.len /\ f.new = e.new + e.size

\* A jump that is simply copied is even.  Its destination is an instruction that is
\* copied, or is still to come; on the way forward to it all copies are even.
Leads(e) ==
  Internal(e.insn) =>
    /\ Even(e)
    /\ e.insn.dest \in Starts \/ e.insn.dest >= oldPos
    /\ e.insn.dest <= jmpDest
    /\ EvenBetween(e.old, e.insn.dest)

ShapeInv ==
  \A e \in Copies :
    /\ e.old + e.insn.len <= oldPos
    /\ Follows(e) \/ (oldPos = e.old + e.insn.len /\ newPos = e.new + e.size)
    /\ Alike(e, oldPos, newPos)
    /\ \A f \in Copies : e.old <= f.old => Alike(e, f.old, f.new)
    /\ Leads(e)

\* The copy is complete.
EndInv ==
  status \in {"copied", "built"} =>
    \A e \in Copies :
      /\ Internal(e.insn) => e.insn.dest \in Starts
      /\ e.insn.kind \notin {"jmp", "ret", "back"} => Follows(e)

IInv ==
  TypeOK /\ Bounded /\ ShapeInv /\ EndInv /\ SlotHoldsAnyPrologue

-------------------------------------------------------------------------------
LEMMA InsnFacts ==
  ASSUME NEW i \in Insn
  PROVE  /\ i.len \in 1 .. MaxInstruction
         /\ CopySize(i) \in 1 .. MaxInstruction
         /\ CopySize(i) <= 3 * i.len
         /\ i.dest \in Int \union {NoDest}
<1>0. Inside \subseteq Int /\ Outside \subseteq Int /\ NoDest \notin Int
  BY DestAssumption DEF Inside, JMP_REL
<1> USE DEF CopySize, Rewritten, Internal, MaxInstruction, JMP_REL, JCC_REL
<1>1. CASE i \in [kind : {"plain"}, len : PlainLength, dest : {NoDest}]
  <2>1. i.len \in PlainLength /\ i.dest = NoDest
    BY <1>1
  <2>2. i.len \in 1 .. MaxInstruction
    BY <2>1, PlainLengthAssumption
  <2>3. CopySize(i) = i.len
    BY <2>1
  <2> QED
    BY <2>1, <2>2, <2>3
<1>2. CASE i \in [kind : {"ret"}, len : {1, 3}, dest : {NoDest}]
  BY <1>2
<1>3. CASE i \in [kind : {"call"}, len : {5}, dest : Inside \union Outside]
  <2>1. i.kind = "call" /\ i.len \in {5} /\ i.dest \in Int
    BY <1>0, <1>3
  <2> QED
    BY <2>1
<1>4. CASE i \in [kind : {"jmp"}, len : {2, 5}, dest : Inside \union Outside]
  <2>1. i.kind = "jmp" /\ i.len \in {2, 5} /\ i.dest \in Int
    BY <1>0, <1>4
  <2> QED
    BY <2>1
<1>5. CASE i \in [kind : {"jcc"}, len : {2, 6}, dest : Inside \union Outside]
  <2>1. i.kind = "jcc" /\ i.len \in {2, 6} /\ i.dest \in Int
    BY <1>0, <1>5
  <2> QED
    BY <2>1
<1>6. CASE i \in [kind : {"loop"}, len : {2}, dest : Inside \union Outside]
  <2>1. i.kind = "loop" /\ i.len \in {2} /\ i.dest \in Int
    BY <1>0, <1>6
  <2> QED
    BY <2>1
<1> QED
  BY <1>1, <1>2, <1>3, <1>4, <1>5, <1>6 DEF Insn

\* What is appended is one more copy.
LEMMA CopiesAppended ==
  ASSUME NEW S, tramp \in Seq(S), NEW c, tramp' = Append(tramp, c)
  PROVE  Copies' = Copies \union {c}
<1>1. DOMAIN tramp' = 1 .. Len(tramp) + 1 /\ DOMAIN tramp = 1 .. Len(tramp)
      /\ Len(tramp) \in Nat
  OBVIOUS
<1>2. \A k \in 1 .. Len(tramp) : tramp'[k] = tramp[k]
  OBVIOUS
<1>3. tramp'[Len(tramp) + 1] = c
  OBVIOUS
<1>4. Copies' = {tramp'[k] : k \in DOMAIN tramp'} /\ Copies = {tramp[k] : k \in DOMAIN tramp}
  BY DEF Copies, ToSet
<1>5. Copies' \subseteq Copies \union {c}
  BY <1>1, <1>2, <1>3, <1>4
<1>6. c \in Copies'
  BY <1>1, <1>3, <1>4
<1>7. Copies \subseteq Copies'
  BY <1>1, <1>2, <1>4
<1> QED
  BY <1>5, <1>6, <1>7

LEMMA CopyFacts ==
  ASSUME TypeOK, NEW e \in Copies
  PROVE  /\ e.old \in Nat /\ e.new \in Nat /\ e.size \in Nat \ {0}
         /\ e.insn.len \in Nat \ {0}
         /\ e.insn.dest \in Int \union {NoDest}
         /\ e.insn.kind = "back" => e.insn.dest \in Int /\ e.insn.dest >= JMP_REL
<1>1. e \in CopyType
  <2>1. PICK k \in DOMAIN tramp : e = tramp[k]
    BY DEF Copies, ToSet
  <2>2. tramp \in Seq(CopyType)
    BY DEF TypeOK
  <2> QED
    BY <2>1, <2>2
<1>2. CASE e.insn \in Insn
  <2>1. e.insn.kind # "back"
    BY <1>2 DEF Insn
  <2> QED
    BY <1>1, <1>2, <2>1, InsnFacts DEF CopyType, MaxInstruction
<1>3. CASE e.insn \in {BackJump(at) : at \in JMP_REL .. JMP_REL - 1 + MaxInstruction}
  BY <1>1, <1>3 DEF CopyType, BackJump, MaxInstruction, JMP_REL
<1> QED
  BY <1>1, <1>2, <1>3 DEF CopyType

LEMMA TypeFacts ==
  ASSUME TypeOK
  PROVE  /\ oldPos \in 0 .. 20 /\ newPos \in 0 .. 32 /\ jmpDest \in 0 .. 4
         /\ Len(tramp) \in Nat
<1>1. oldPos \in 0 .. JMP_REL + MaxInstruction
  BY DEF TypeOK
<1>2. newPos \in 0 .. MaxSize
  BY DEF TypeOK
<1>3. jmpDest \in 0 .. JMP_REL - 1
  BY DEF TypeOK, Inside
<1>4. Len(tramp) \in Nat
  <2>1. tramp \in Seq(CopyType)
    BY DEF TypeOK
  <2> QED
    BY <2>1
<1> QED
  BY <1>1, <1>2, <1>3, <1>4 DEF JMP_REL, MaxInstruction, MaxSize

-------------------------------------------------------------------------------
(***************************************************************************)
(* One more copy, whatever it is of.                                       *)
(***************************************************************************)
\* What is needed of instruction i and the size of its copy, and of jmpDest.
Fits(i, size) ==
  /\ i.len \in Nat \ {0} /\ size \in Nat \ {0}
  /\ i.dest \in Int \union {NoDest}
  /\ jmpDest' \in Inside /\ jmpDest <= jmpDest'
  /\ Internal(i) => i.dest <= jmpDest' /\ size = i.len
  /\ oldPos < jmpDest' => size = i.len
  /\ \A d \in Awaited : d >= oldPos + i.len
  /\ i.dest \in Inside => \/ i.dest \in Starts \union {oldPos}
                          \/ i.dest >= oldPos + i.len

LEMMA Placed ==
  ASSUME TypeOK, ShapeInv, NEW i, NEW size, Fits(i, size), Place(i, size)
  PROVE  ShapeInv'
<1> DEFINE c == [insn |-> i, old |-> oldPos, new |-> newPos, size |-> size]
<1>1. Copies' = Copies \union {c}
  BY CopiesAppended DEF TypeOK, Place
<1>2. /\ oldPos' = oldPos + i.len /\ newPos' = newPos + size
      /\ oldPos \in Nat /\ newPos \in Nat
      /\ i.len \in Nat \ {0} /\ size \in Nat \ {0}
      /\ jmpDest \in Inside /\ jmpDest' \in Inside
  <2>1. oldPos' = oldPos + i.len /\ newPos' = newPos + size
    BY DEF Place
  <2>2. oldPos \in 0 .. JMP_REL + MaxInstruction /\ newPos \in 0 .. MaxSize /\ jmpDest \in Inside
    BY DEF TypeOK
  <2> QED
    BY <2>1, <2>2 DEF Fits, JMP_REL, MaxInstruction, MaxSize
<1>4. \A e \in Copies : /\ e.old \in Nat /\ e.new \in Nat /\ e.size \in Nat \ {0}
                        /\ e.insn.len \in Nat \ {0} /\ e.old + e.insn.len <= oldPos
                        /\ e.insn.dest \in Int \union {NoDest}
  BY CopyFacts DEF ShapeInv
<1>5. c.insn = i /\ c.old = oldPos /\ c.new = newPos /\ c.size = size
  OBVIOUS
<1> HIDE DEF c
<1>3. Starts' = Starts \union {oldPos}
  <2>1. Starts' = {e.old : e \in Copies'}
    BY DEF Starts
  <2> QED
    BY <2>1, <1>1, <1>5 DEF Starts
<1>6. SUFFICES ASSUME NEW e \in Copies'
      PROVE  /\ e.old + e.insn.len <= oldPos'
             /\ Follows(e)' \/ (oldPos' = e.old + e.insn.len /\ newPos' = e.new + e.size)
             /\ Alike(e, oldPos, newPos)'
             /\ \A f \in Copies' : e.old <= f.old => Alike(e, f.old, f.new)'
             /\ Leads(e)'
  BY DEF ShapeInv
<1>7. CASE e \in Copies
  <2>1. e.old + e.insn.len <= oldPos'
    BY <1>2, <1>4, <1>7
  <2>2. Follows(e)' \/ (oldPos' = e.old + e.insn.len /\ newPos' = e.new + e.size)
    BY <1>1, <1>5, <1>7 DEF ShapeInv, Follows
  <2>3. ASSUME NEW o \in Nat, EvenBetween(e.old, o)'
        PROVE  EvenBetween(e.old, o)
    BY <2>3, <1>1 DEF EvenBetween, Even
  <2>4. Alike(e, oldPos, newPos)'
    <3>1. SUFFICES ASSUME EvenBetween(e.old, oldPos)'
                   PROVE  newPos' - e.new = oldPos' - e.old
      BY DEF Alike
    <3>2. EvenBetween(e.old, oldPos)
      BY <3>1, <1>1, <1>2, <1>4, <1>7 DEF EvenBetween, Even
    <3>3. newPos - e.new = oldPos - e.old
      BY <3>2, <1>7 DEF ShapeInv, Alike
    <3>4. size = i.len
      BY <3>1, <1>1, <1>2, <1>4, <1>5, <1>7 DEF EvenBetween, Even
    <3> QED
      BY <3>3, <3>4, <1>2, <1>4, <1>7
  <2>5. ASSUME NEW f \in Copies', e.old <= f.old
        PROVE  Alike(e, f.old, f.new)'
    <3>1. CASE f \in Copies
      BY <3>1, <2>3, <2>5, <1>4, <1>7 DEF ShapeInv, Alike
    <3>2. CASE f = c
      BY <3>2, <2>3, <1>2, <1>5, <1>7 DEF ShapeInv, Alike
    <3> QED
      BY <3>1, <3>2, <1>1
  <2>6. Leads(e)'
    <3>1. SUFFICES ASSUME Internal(e.insn)
          PROVE  /\ Even(e)
                 /\ e.insn.dest \in Starts' \/ e.insn.dest >= oldPos'
                 /\ e.insn.dest <= jmpDest'
                 /\ EvenBetween(e.old, e.insn.dest)'
      BY DEF Leads
    <3>2. /\ Even(e)
          /\ e.insn.dest \in Starts \/ e.insn.dest >= oldPos
          /\ e.insn.dest <= jmpDest
          /\ EvenBetween(e.old, e.insn.dest)
      BY <3>1, <1>7 DEF ShapeInv, Leads
    <3>0. e.insn.dest \in Inside
      BY <3>1 DEF Internal
    <3>3. e.insn.dest \in Nat /\ jmpDest \in Nat /\ jmpDest' \in Nat
      BY <3>0, <1>2 DEF Inside, JMP_REL
    <3>4. e.insn.dest > oldPos => e.insn.dest \in Awaited
      BY <3>0, <1>7 DEF Awaited
    <3>5. e.insn.dest \in Starts' \/ e.insn.dest >= oldPos'
      BY <3>2, <3>3, <3>4, <1>2, <1>3 DEF Fits
    <3>6. e.insn.dest <= jmpDest'
      BY <3>2, <3>3 DEF Fits
    <3>7. oldPos < e.insn.dest => Even(c)
      BY <3>6, <3>3, <1>2, <1>5 DEF Fits, Even
    <3>8. EvenBetween(e.old, e.insn.dest)'
      BY <3>2, <3>7, <1>1, <1>5 DEF EvenBetween, Even
    <3> QED
      BY <3>2, <3>5, <3>6, <3>8
  <2> QED
    BY <2>1, <2>2, <2>4, <2>5, <2>6
<1>8. CASE e = c
  <2>1. e.old + e.insn.len <= oldPos'
    BY <1>2, <1>5, <1>8
  <2>2. oldPos' = e.old + e.insn.len /\ newPos' = e.new + e.size
    BY <1>2, <1>5, <1>8
  <2>3. Alike(e, oldPos, newPos)'
    BY <1>1, <1>2, <1>5, <1>8 DEF Alike, EvenBetween, Even
  <2>4. ASSUME NEW f \in Copies', e.old <= f.old
        PROVE  Alike(e, f.old, f.new)'
    <3>1. f = c
      BY <2>4, <1>1, <1>2, <1>4, <1>5, <1>8
    <3> QED
      BY <3>1, <1>2, <1>5, <1>8 DEF Alike
  <2>5. Leads(e)'
    <3>1. SUFFICES ASSUME Internal(i)
          PROVE  /\ Even(e)
                 /\ i.dest \in Starts' \/ i.dest >= oldPos'
                 /\ i.dest <= jmpDest'
                 /\ EvenBetween(e.old, i.dest)'
      BY <1>5, <1>8 DEF Leads
    <3>0. i.dest \in Inside
      BY <3>1 DEF Internal
    <3>2. i.dest \in Nat /\ jmpDest' \in Nat
      BY <3>0, <1>2 DEF Inside, JMP_REL
    <3>3. i.dest \in Starts' \/ i.dest >= oldPos'
      BY <3>0, <1>2, <1>3 DEF Fits
    <3>4. i.dest <= jmpDest'
      BY <3>1 DEF Fits
    <3>5. oldPos < i.dest => Even(c)
      BY <3>2, <3>4, <1>2, <1>5 DEF Fits, Even
    <3>6. \A g \in Copies : g.old < oldPos
      BY <1>2, <1>4
    <3>7. ASSUME NEW g \in Copies', oldPos <= g.old, g.old < i.dest
          PROVE  Even(g)
      <4>1. g = c
        BY <3>6, <3>7, <1>1, <1>2, <1>4
      <4> QED
        BY <3>5, <3>7, <4>1, <1>5
    <3>8. EvenBetween(e.old, i.dest)'
      BY <3>7, <1>5, <1>8 DEF EvenBetween, Even
    <3>9. Even(e)
      BY <3>1, <1>5, <1>8 DEF Fits, Even
    <3> QED
      BY <3>3, <3>4, <3>8, <3>9
  <2> QED
    BY <2>1, <2>2, <2>3, <2>4, <2>5
<1> QED
  BY <1>1, <1>7, <1>8

-------------------------------------------------------------------------------
(***************************************************************************)
(* The steps.                                                              *)
(***************************************************************************)
LEMMA InitIInv == Init => IInv
<1> SUFFICES ASSUME Init PROVE IInv
  OBVIOUS
<1>1. tramp = <<>> /\ oldPos = 0 /\ newPos = 0 /\ jmpDest = 0 /\ status = "copying"
      /\ patchAbove = FALSE /\ padding \in 0 .. JMP_REL
  BY DEF Init
<1>2. Copies = {}
  BY <1>1 DEF Copies, ToSet
<1>3. TypeOK
  <2>1. tramp \in Seq(CopyType) /\ Len(tramp) = 0
    BY <1>1
  <2>2. /\ 0 \in 0 .. JMP_REL + MaxInstruction /\ 0 \in 0 .. MaxSize /\ 0 \in Inside
        /\ 0 <= MaxBoundaries
    BY DEF Inside, JMP_REL, MaxInstruction, MaxSize, MaxBoundaries
  <2> QED
    BY <1>1, <2>1, <2>2 DEF TypeOK
<1>4. Bounded
  BY <1>1 DEF Bounded, JMP_REL, MaxInstruction
<1>5. ShapeInv /\ EndInv
  BY <1>2 DEF ShapeInv, EndInv
<1> QED
  BY <1>1, <1>3, <1>4, <1>5 DEF IInv, SlotHoldsAnyPrologue

\* Nothing but the end of it changes.
LEMMA Ending ==
  ASSUME IInv, UNCHANGED <<tramp, oldPos, newPos, jmpDest, padding, above>>
  PROVE  Copies' = Copies /\ ShapeInv'
<1>1. Copies' = Copies
  BY DEF Copies
<1> QED
  BY <1>1 DEF IInv, ShapeInv, Alike, EvenBetween, Even, Follows, Leads, Starts

LEMMA RefuseStep ==
  ASSUME IInv, NEW why \in {"unknown instruction", "unsupported"}, Refuse(why)
  PROVE  IInv'
<1>1. ShapeInv'
  BY Ending DEF Refuse
<1>2. TypeOK'
  BY DEF Refuse, IInv, TypeOK
<1> QED
  BY <1>1, <1>2 DEF Refuse, IInv, Bounded, EndInv, SlotHoldsAnyPrologue

LEMMA FindRoomStep ==
  ASSUME IInv, FindRoom
  PROVE  IInv'
<1>1. Copies' = Copies /\ ShapeInv'
  BY Ending DEF FindRoom
<1>2. /\ status = "copied" /\ status' \in {"built", "no room"} /\ patchAbove' \in BOOLEAN
      /\ UNCHANGED <<tramp, oldPos, newPos, jmpDest, padding, above>>
  BY DEF FindRoom
<1>3. TypeOK'
  BY <1>2 DEF IInv, TypeOK
<1>4. EndInv'
  BY <1>1, <1>2 DEF IInv, EndInv, Follows, Starts
<1> QED
  BY <1>1, <1>2, <1>3, <1>4 DEF IInv, Bounded, SlotHoldsAnyPrologue

\* What copying one more does to the types.
LEMMA PlacedTypes ==
  ASSUME IInv, status = "copying", NEW i \in Insn \union {BackJump(at) : at \in JMP_REL .. JMP_REL - 1 + MaxInstruction},
         NEW size \in 1 .. MaxInstruction, i.len \in 1 .. MaxInstruction,
         oldPos + i.len <= JMP_REL + MaxInstruction, oldPos < JMP_REL + MaxInstruction,
         newPos + size <= MaxSize, Place(i, size),
         jmpDest' \in Inside, status' \in {"copying", "copied"}
  PROVE  TypeOK' /\ Len(tramp') = Len(tramp) + 1
<1> DEFINE c == [insn |-> i, old |-> oldPos, new |-> newPos, size |-> size]
<1>1. /\ tramp' = Append(tramp, c) /\ newPos' = newPos + size /\ oldPos' = oldPos + i.len
      /\ UNCHANGED <<padding, patchAbove>>
  BY DEF Place
<1>2. /\ oldPos \in 0 .. JMP_REL + MaxInstruction /\ newPos \in 0 .. MaxSize
      /\ tramp \in Seq(CopyType) /\ padding \in 0 .. JMP_REL /\ patchAbove \in BOOLEAN
  BY DEF IInv, TypeOK
<1>3. oldPos' \in 0 .. JMP_REL + MaxInstruction /\ newPos' \in 0 .. MaxSize
  <2>1. oldPos \in Nat /\ newPos \in Nat /\ i.len \in Nat /\ size \in Nat
    BY <1>2 DEF JMP_REL, MaxInstruction, MaxSize
  <2>2. oldPos + i.len \in 0 .. JMP_REL + MaxInstruction
    BY <2>1 DEF JMP_REL, MaxInstruction
  <2>3. newPos + size \in 0 .. MaxSize
    BY <2>1 DEF MaxSize
  <2> QED
    BY <2>2, <2>3, <1>1
<1>4. c \in CopyType
  BY <1>2 DEF CopyType, JMP_REL, MaxInstruction
<1> HIDE DEF c
<1>5. tramp' \in Seq(CopyType) /\ Len(tramp') = Len(tramp) + 1
  BY <1>1, <1>2, <1>4
<1>6. Len(tramp) \in Nat /\ Len(tramp) <= JMP_REL
  BY <1>2 DEF IInv, Bounded
<1>7. Len(tramp') <= MaxBoundaries
  BY <1>5, <1>6 DEF JMP_REL, MaxBoundaries
<1> QED
  BY <1>1, <1>2, <1>3, <1>5, <1>7 DEF TypeOK

LEMMA FurthestFacts ==
  ASSUME jmpDest \in Inside, NEW i
  PROVE  /\ Furthest(i) \in Inside /\ jmpDest <= Furthest(i)
         /\ Internal(i) => i.dest <= Furthest(i)
<1>1. CASE Internal(i)
  BY <1>1 DEF Furthest, Internal, Inside, JMP_REL
<1>2. CASE ~Internal(i)
  BY <1>2 DEF Furthest, Inside, JMP_REL
<1> QED
  BY <1>1, <1>2

LEMMA Threefold ==
  ASSUME NEW m \in Nat, NEW n \in Nat, NEW k \in Nat, NEW l \in Nat, m <= 3 * n, k <= 3 * l
  PROVE  m + k <= 3 * (n + l)
OBVIOUS

LEMMA CopyInstructionStep ==
  ASSUME IInv, CopyInstruction
  PROVE  IInv'
<1>1. PICK i \in Insn :
        /\ Plausible(i)
        /\ IF Unsupported(i) THEN Refuse("unsupported")
           ELSE IF TooLarge(CopySize(i)) THEN Refuse("too large")
           ELSE IF Len(tramp) >= MaxBoundaries THEN Refuse("too many instructions")
           ELSE /\ Place(i, CopySize(i))
                /\ jmpDest' = Furthest(i)
                /\ status' = IF Ends(i) THEN "copied" ELSE "copying"
  BY DEF CopyInstruction
<1>2. status = "copying" /\ ~(oldPos >= JMP_REL)
  BY DEF CopyInstruction, LongEnough
<1>3. /\ oldPos \in 0 .. JMP_REL + MaxInstruction /\ newPos \in 0 .. MaxSize
      /\ tramp \in Seq(CopyType) /\ jmpDest \in Inside
  BY DEF IInv, TypeOK
<1>4. oldPos \in 0 .. 4 /\ newPos \in Nat
  BY <1>2, <1>3 DEF JMP_REL, MaxInstruction, MaxSize
<1>5. newPos <= 3 * oldPos /\ Len(tramp) <= oldPos /\ Len(tramp) \in Nat
  BY <1>2, <1>3, <1>4 DEF IInv, Bounded, JMP_REL
<1>6. /\ i.len \in 1 .. 15 /\ CopySize(i) \in 1 .. 15 /\ CopySize(i) <= 3 * i.len
      /\ i.dest \in Int \union {NoDest}
  BY InsnFacts DEF MaxInstruction
<1>7. CASE Unsupported(i)
  BY <1>1, <1>7, RefuseStep
<1>8. ~TooLarge(CopySize(i)) /\ ~(Len(tramp) >= MaxBoundaries)
  BY <1>4, <1>5, <1>6 DEF TooLarge, MaxSize, MaxBoundaries
<1>9. CASE ~Unsupported(i)
  <2>1. /\ Place(i, CopySize(i)) /\ jmpDest' = Furthest(i)
        /\ status' = IF Ends(i) THEN "copied" ELSE "copying"
    BY <1>1, <1>8, <1>9
  <2>2. /\ jmpDest' \in Inside /\ jmpDest <= jmpDest'
        /\ Internal(i) => i.dest <= jmpDest'
    BY <2>1, <1>3, FurthestFacts
  <2>3. Fits(i, CopySize(i))
    <3>1. oldPos < jmpDest' => CopySize(i) = i.len
      BY <2>1, <1>9 DEF Unsupported
    <3>2. /\ \A d \in Awaited : d >= oldPos + i.len
          /\ i.dest \in Inside => \/ i.dest \in Starts \union {oldPos}
                                  \/ i.dest >= oldPos + i.len
      BY <1>1 DEF Plausible
    <3>3. i.len \in Nat \ {0} /\ CopySize(i) \in Nat \ {0}
      BY <1>6
    <3>4. Internal(i) => CopySize(i) = i.len
      BY DEF CopySize, Rewritten
    <3> QED
      BY <3>1, <3>2, <3>3, <3>4, <2>2, <1>6 DEF Fits
  <2>4. ShapeInv'
    BY <2>1, <2>3, Placed DEF IInv
  <2>5. TypeOK' /\ Len(tramp') = Len(tramp) + 1
    <3>1. /\ oldPos + i.len <= JMP_REL + MaxInstruction /\ oldPos < JMP_REL + MaxInstruction
          /\ newPos + CopySize(i) <= MaxSize
      <4>1. /\ oldPos \in 0 .. 4 /\ newPos \in 0 .. 12 /\ i.len \in 1 .. 15
            /\ CopySize(i) \in 1 .. 15
        BY <1>4, <1>5, <1>6
      <4> HIDE DEF CopySize
      <4> QED
        BY <4>1 DEF JMP_REL, MaxInstruction, MaxSize
    <3>2. i.len \in 1 .. MaxInstruction /\ CopySize(i) \in 1 .. MaxInstruction
      BY <1>6 DEF MaxInstruction
    <3> QED
      BY <3>1, <3>2, <2>1, <2>2, <1>2, PlacedTypes
  <2>6. oldPos' = oldPos + i.len /\ newPos' = newPos + CopySize(i)
    BY <2>1 DEF Place
  <2>7. Bounded'
    <3>1. Len(tramp') <= oldPos' /\ Len(tramp') <= JMP_REL
      <4>1. Len(tramp') = Len(tramp) + 1 /\ oldPos' = oldPos + i.len
        BY <2>5, <2>6
      <4>2. /\ Len(tramp) \in Nat /\ Len(tramp) <= oldPos /\ oldPos \in 0 .. 4
            /\ i.len \in 1 .. 15
        BY <1>4, <1>5, <1>6
      <4>3. Len(tramp) + 1 <= oldPos + i.len /\ Len(tramp) + 1 <= 5
        BY <4>2
      <4> QED
        BY <4>1, <4>3 DEF JMP_REL
    <3>2. oldPos' < JMP_REL + MaxInstruction
      BY <2>6, <1>4, <1>6 DEF JMP_REL, MaxInstruction
    <3>3. oldPos' < JMP_REL => newPos' <= 3 * oldPos'
      <4>1. newPos + CopySize(i) <= 3 * (oldPos + i.len)
        <5>1. /\ newPos \in Nat /\ oldPos \in Nat /\ CopySize(i) \in Nat /\ i.len \in Nat
              /\ newPos <= 3 * oldPos /\ CopySize(i) <= 3 * i.len
          BY <1>4, <1>5, <1>6
        <5> QED
          BY <5>1, Threefold
      <4> QED
        BY <4>1, <2>6
    <3>4. newPos' <= MaxSize - JMP_REL
      BY <2>6, <1>4, <1>5, <1>6 DEF JMP_REL, MaxSize
    <3> QED
      BY <3>1, <3>2, <3>3, <3>4 DEF Bounded
  <2>8. EndInv'
    <3>1. SUFFICES ASSUME status' = "copied"
                   PROVE  \A e \in Copies' :
                            /\ Internal(e.insn) => e.insn.dest \in Starts'
                            /\ e.insn.kind \notin {"jmp", "ret", "back"} => Follows(e)'
      BY <2>1 DEF EndInv
    <3>2. Ends(i)
      BY <3>1, <2>1
    <3>3. i.kind \in {"jmp", "ret"} /\ oldPos >= jmpDest'
      BY <3>2, <2>1 DEF Ends
    <3>4. SUFFICES ASSUME NEW e \in Copies'
                   PROVE  /\ Internal(e.insn) => e.insn.dest \in Starts'
                          /\ e.insn.kind \notin {"jmp", "ret", "back"} => Follows(e)'
      OBVIOUS
    <3>5. Internal(e.insn) => e.insn.dest \in Starts'
      <4>1. SUFFICES ASSUME Internal(e.insn) PROVE e.insn.dest \in Starts'
        OBVIOUS
      <4>2. e.insn.dest <= jmpDest' /\ (e.insn.dest \in Starts' \/ e.insn.dest >= oldPos')
        BY <4>1, <2>4 DEF ShapeInv, Leads
      <4>3. e.insn.dest \in Nat /\ jmpDest' \in Nat
        BY <4>1, <2>2 DEF Internal, Inside, JMP_REL
      <4> QED
        BY <4>2, <4>3, <3>3, <2>6, <1>4, <1>6
    <3>6. e.insn.kind \notin {"jmp", "ret", "back"} => Follows(e)'
      <4>1. PICK c : Copies' = Copies \union {c} /\ c.insn = i /\ c.old = oldPos /\ c.new = newPos
        BY <2>1, <1>3, CopiesAppended DEF Place
      <4>2. SUFFICES ASSUME e.insn.kind \notin {"jmp", "ret", "back"} PROVE Follows(e)'
        OBVIOUS
      <4>3. e \in Copies
        BY <4>1, <4>2, <3>3
      <4>4. Follows(e) \/ (oldPos = e.old + e.insn.len /\ newPos = e.new + e.size)
        BY <4>3 DEF IInv, ShapeInv
      <4> QED
        BY <4>1, <4>4 DEF Follows
    <3> QED
      BY <3>5, <3>6
  <2>9. SlotHoldsAnyPrologue'
    BY <2>1, <2>5 DEF SlotHoldsAnyPrologue
  <2> QED
    BY <2>4, <2>5, <2>7, <2>8, <2>9 DEF IInv
<1> QED
  BY <1>7, <1>9

LEMMA JumpBackStep ==
  ASSUME IInv, JumpBack
  PROVE  IInv'
<1>1. /\ status = "copying" /\ oldPos >= JMP_REL
      /\ IF TooLarge(JMP_REL) THEN Refuse("too large")
         ELSE IF Len(tramp) >= MaxBoundaries THEN Refuse("too many instructions")
         ELSE /\ Place(BackJump(oldPos), JMP_REL)
              /\ status' = "copied"
              /\ UNCHANGED jmpDest
  BY DEF JumpBack, LongEnough
<1>2. /\ oldPos \in 0 .. JMP_REL + MaxInstruction /\ newPos \in 0 .. MaxSize
      /\ tramp \in Seq(CopyType) /\ jmpDest \in Inside
  BY DEF IInv, TypeOK
<1>3. /\ oldPos \in Nat /\ newPos \in Nat /\ jmpDest \in 0 .. 4 /\ oldPos >= 5
      /\ Len(tramp) \in Nat
  <2>1. oldPos >= 5
    BY <1>1 DEF JMP_REL
  <2>2. TypeOK
    BY DEF IInv
  <2>3. oldPos \in 0 .. 20 /\ newPos \in 0 .. 32 /\ jmpDest \in 0 .. 4 /\ Len(tramp) \in Nat
    BY <2>2, TypeFacts
  <2> QED
    BY <2>1, <2>3
<1>4. /\ newPos <= MaxSize - JMP_REL /\ oldPos < JMP_REL + MaxInstruction
      /\ Len(tramp) <= JMP_REL /\ Len(tramp) \in Nat
  <2>1. /\ newPos <= IF oldPos < JMP_REL THEN 3 * oldPos ELSE MaxSize - JMP_REL
        /\ oldPos < JMP_REL + MaxInstruction /\ Len(tramp) <= JMP_REL
    BY <1>1 DEF IInv, Bounded
  <2>2. ~(oldPos < JMP_REL)
    BY <1>3 DEF JMP_REL
  <2> QED
    BY <2>1, <2>2, <1>3
<1>5. ~TooLarge(JMP_REL) /\ ~(Len(tramp) >= MaxBoundaries)
  BY <1>3, <1>4 DEF TooLarge, MaxSize, MaxBoundaries, JMP_REL
<1>6. Place(BackJump(oldPos), JMP_REL) /\ status' = "copied" /\ jmpDest' = jmpDest
  BY <1>1, <1>5
<1> DEFINE back == BackJump(oldPos)
<1>7. /\ back.len = 1 /\ back.dest = oldPos /\ back.kind = "back" /\ ~Internal(back)
      /\ back.dest \notin Inside /\ back \in {BackJump(at) : at \in 5 .. 19}
  <2>1. back.len = 1 /\ back.dest = oldPos /\ back.kind = "back"
    BY DEF BackJump
  <2>2. oldPos \notin Inside /\ oldPos \in 5 .. 19
    BY <1>3, <1>4 DEF Inside, JMP_REL, MaxInstruction
  <2> QED
    BY <2>1, <2>2 DEF Internal
<1> HIDE DEF back
<1>8. Fits(back, JMP_REL)
  <2>1. \A d \in Awaited : d >= oldPos + back.len
    BY <1>3 DEF Awaited, Inside, JMP_REL
  <2>2. ~(oldPos < jmpDest')
    BY <1>3, <1>6
  <2>3. jmpDest' \in Inside /\ jmpDest <= jmpDest'
    BY <1>3, <1>6, <1>2
  <2> QED
    BY <2>1, <2>2, <2>3, <1>3, <1>7 DEF Fits, JMP_REL
<1>9. ShapeInv'
  BY <1>6, <1>8, Placed DEF IInv, back
<1>10. TypeOK'
  <2>1. /\ JMP_REL \in 1 .. MaxInstruction /\ back.len \in 1 .. MaxInstruction
        /\ oldPos + back.len <= JMP_REL + MaxInstruction
        /\ newPos + JMP_REL <= MaxSize
    BY <1>3, <1>4, <1>7 DEF JMP_REL, MaxInstruction, MaxSize
  <2>2. back \in Insn \union {BackJump(at) : at \in JMP_REL .. JMP_REL - 1 + MaxInstruction}
    BY <1>7 DEF JMP_REL, MaxInstruction
  <2> QED
    BY <2>1, <2>2, <1>1, <1>2, <1>4, <1>6, PlacedTypes DEF back
<1>11. EndInv'
  <2>1. PICK c : Copies' = Copies \union {c} /\ c.insn = back /\ c.old = oldPos /\ c.new = newPos
    BY <1>2, <1>6, CopiesAppended DEF Place, back
  <2>2. SUFFICES ASSUME NEW e \in Copies'
                 PROVE  /\ Internal(e.insn) => e.insn.dest \in Starts'
                        /\ e.insn.kind \notin {"jmp", "ret", "back"} => Follows(e)'
    BY DEF EndInv
  <2>3. CASE e = c
    BY <2>1, <2>3, <1>7
  <2>4. CASE e \in Copies
    <3>1. Internal(e.insn) => e.insn.dest \in Starts' \/ e.insn.dest >= oldPos'
      BY <1>9 DEF ShapeInv, Leads
    <3>2. Internal(e.insn) => e.insn.dest \in 0 .. 4
      BY DEF Internal, Inside, JMP_REL
    <3>3. oldPos' \in Nat /\ oldPos' > 5
      BY <1>3, <1>6, <1>7 DEF Place, back
    <3>4. Follows(e) \/ (oldPos = e.old + e.insn.len /\ newPos = e.new + e.size)
      BY <2>4 DEF IInv, ShapeInv
    <3>5. Follows(e)'
      BY <3>4, <2>1 DEF Follows
    <3>6. Internal(e.insn) => e.insn.dest \in Starts'
      BY <3>1, <3>2, <3>3
    <3> QED
      BY <3>5, <3>6
  <2> QED
    BY <2>1, <2>3, <2>4
<1> QED
  BY <1>6, <1>9, <1>10, <1>11 DEF IInv, Bounded, SlotHoldsAnyPrologue

LEMMA NextIInv == IInv /\ [Next]_vars => IInv'
<1> SUFFICES ASSUME IInv, [Next]_vars PROVE IInv'
  OBVIOUS
<1>1. CASE DecodeFails
  BY <1>1, RefuseStep DEF DecodeFails
<1>2. CASE CopyInstruction
  BY <1>2, CopyInstructionStep
<1>3. CASE JumpBack
  BY <1>3, JumpBackStep
<1>4. CASE FindRoom
  BY <1>4, FindRoomStep
<1>5. CASE UNCHANGED vars
  <2>1. UNCHANGED <<tramp, oldPos, newPos, jmpDest, status, padding, above, patchAbove>>
    BY <1>5 DEF vars
  <2>2. Copies' = Copies /\ ShapeInv'
    BY <2>1, Ending
  <2>3. TypeOK'
    BY <2>1 DEF IInv, TypeOK
  <2> QED
    BY <2>1, <2>2, <2>3 DEF IInv, Bounded, EndInv, Follows, Starts, SlotHoldsAnyPrologue
<1> QED
  BY <1>1, <1>2, <1>3, <1>4, <1>5 DEF Next

-------------------------------------------------------------------------------
(***************************************************************************)
(* The copy is laid out in order, its bookkeeping stays within its bounds, *)
(* and branches among the copied instructions have a destination there     *)
(* (the loop of CreateTrampolineFunction).                                 *)
(***************************************************************************)
THEOREM TrampolineInvariant == Spec => []IInv
<1> QED
  BY InitIInv, NextIInv, PTL DEF Spec

(***************************************************************************)
(* A slot of 32 bytes and eight boundaries hold what any function begins   *)
(* with: neither limit ever refuses a hook (trampoline.c).                 *)
(***************************************************************************)
THEOREM AnyPrologueFits == Spec => []SlotHoldsAnyPrologue
<1>1. IInv => SlotHoldsAnyPrologue
  BY DEF IInv
<1> QED
  BY <1>1, TrampolineInvariant, PTL

\* What is as far on as its original was is reached with the original operand.
LEMMA AsFar ==
  ASSUME NEW at \in Int, NEW m \in Int, NEW n \in Int, NEW o \in Int, NEW p \in Int,
         NEW len \in Int, n - m = o - p
  PROVE  at + n = at + m + len + (o - (p + len))
OBVIOUS

(***************************************************************************)
(* A trampoline runs the instructions it copied as the function does, but  *)
(* for jumps back over one that was lengthened and calls of overwritten    *)
(* bytes (trampoline.c).                                                   *)
(***************************************************************************)
THEOREM TrampolinesAreFaithful == Spec => []TrampolineFaithful
<1>1. IInv => TrampolineFaithful
  <2>1. SUFFICES ASSUME IInv, status = "built", NEW e \in Copies,
                        ~BackOverLonger(e), ~CallsInside(e)
                 PROVE  Faithful(e)
    BY DEF TrampolineFaithful
  <2>2. e.insn.kind \notin {"jmp", "ret", "back"} => Follows(e)
    BY <2>1 DEF IInv, EndInv
  <2>3. /\ e.old \in Nat /\ e.new \in Nat /\ e.size \in Nat /\ e.insn.len \in Nat
        /\ SlotAt \in Int /\ e.insn.dest \in Int \union {NoDest}
    BY <2>1, CopyFacts, DestAssumption DEF IInv
  <2>4. ASSUME Internal(e.insn)
        PROVE  \E f \in Copies : f.old = e.insn.dest /\ SlotAt + f.new = Arrives(e)
    <3>1. PICK f \in Copies : f.old = e.insn.dest
      BY <2>1, <2>4 DEF IInv, EndInv, Starts
    <3>2. f.old \in Nat /\ f.new \in Nat /\ f.size \in Nat
      BY <2>1, CopyFacts DEF IInv
    <3>3. e.size = e.insn.len
      BY <2>1, <2>4 DEF IInv, ShapeInv, Leads, Even
    <3>4. f.new - e.new = f.old - e.old
      <4>1. CASE e.old <= f.old
        <5>1. Alike(e, f.old, f.new) /\ EvenBetween(e.old, f.old)
          BY <2>1, <2>4, <3>1, <4>1 DEF IInv, ShapeInv, Leads
        <5> QED
          BY <5>1 DEF Alike
      <4>2. CASE f.old < e.old
        <5>1. Alike(f, e.old, e.new)
          BY <2>1, <2>3, <3>2, <4>2 DEF IInv, ShapeInv
        <5>2. EvenBetween(f.old, e.old)
          BY <2>1, <2>4, <3>1 DEF BackOverLonger, EvenBetween, Even
        <5>3. e.new - f.new = e.old - f.old
          BY <5>1, <5>2 DEF Alike
        <5> QED
          BY <5>3, <2>3, <3>2
      <4> QED
        BY <2>3, <3>2, <4>1, <4>2
    <3>5. Arrives(e) = SlotAt + e.new + e.size + (f.old - (e.old + e.insn.len))
      <4>1. Operand(e) = e.insn.dest - (e.old + e.insn.len)
        BY <2>4 DEF Operand, OperandFromOriginal, Rewritten
      <4> QED
        BY <4>1, <3>1 DEF Arrives
    <3>6. SlotAt + f.new = Arrives(e)
      <4>1. e.old \in Int /\ e.new \in Int /\ f.old \in Int /\ f.new \in Int /\ e.insn.len \in Int
        BY <2>3, <3>2
      <4>2. SlotAt + f.new = SlotAt + e.new + e.insn.len + (f.old - (e.old + e.insn.len))
        BY <2>3, <3>4, <4>1, AsFar
      <4> QED
        BY <3>3, <3>5, <4>2
    <3> QED
      BY <3>1, <3>6
  <2>5. ASSUME e.insn.dest # NoDest, ~Internal(e.insn)
        PROVE  Arrives(e) = e.insn.dest /\ Arrives(e) \notin Inside \ {0}
    <3>1. Arrives(e) = SlotAt + e.new + e.size + (e.insn.dest - (SlotAt + e.new + e.size))
      BY <2>5 DEF Arrives, Operand, Rewritten
    <3>2. Arrives(e) = e.insn.dest
      BY <2>3, <2>5, <3>1
    <3> QED
      BY <2>1, <2>5, <3>2 DEF Internal, CallsInside
  <2> QED
    BY <2>2, <2>4, <2>5 DEF Faithful, Follows
<1> QED
  BY <1>1, TrampolineInvariant, PTL
===============================================================================
