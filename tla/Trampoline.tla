------------------------------- MODULE Trampoline -------------------------------
(***************************************************************************)
(* CreateTrampolineFunction (trampoline.c, x86 build): the instructions a   *)
(* hook's five byte jump is about to overwrite are copied to a slot one by *)
(* one, relative branches out of those bytes are rewritten for their new   *)
(* place, and a jump to the rest of the function completes the copy.       *)
(*                                                                         *)
(* The function is discovered instruction by instruction: any sequence a   *)
(* function may begin with, that is one whose branches into its first      *)
(* bytes meet the start of an instruction.  Addresses are offsets from it. *)
(***************************************************************************)
EXTENDS Integers, Sequences, SequencesExt

CONSTANTS
  PlainLength,   \* lengths of the instructions that are just copied
  Outside,       \* the destinations of branches out of the overwritten bytes
  NoDest,        \* that of an instruction that is no branch
  SlotAt         \* pTrampoline

JMP_REL == 5         \* the jump a hook writes
JMP_REL_SHORT == 2   \* and the one it writes if that has to go above the function
JCC_REL == 6
MaxInstruction == 15

\* TRAMPOLINE_MAX_SIZE and the length of oldIPs.
MaxSize == 32
MaxBoundaries == 8

ASSUME PlainLengthAssumption == PlainLength \subseteq 1 .. MaxInstruction
Inside == 0 .. JMP_REL - 1
ASSUME DestAssumption ==
  Outside \subseteq Int \ Inside /\ NoDest \notin Int /\ SlotAt \in Int

VARIABLES
  tramp,            \* the boundaries: instruction, oldIPs, newIPs and size of the copy
  oldPos, newPos, jmpDest,
  status,           \* "copying", "copied", "built", or why it was refused
  padding,          \* bytes of padding after the copied instructions
  above,            \* what the five bytes before the function are
  patchAbove

vars == <<tramp, oldPos, newPos, jmpDest, status, padding, above, patchAbove>>

Init ==
  /\ tramp = <<>> /\ oldPos = 0 /\ newPos = 0 /\ jmpDest = 0
  /\ status = "copying" /\ patchAbove = FALSE
  /\ padding \in 0 .. JMP_REL
  /\ above \in {"padding", "code", "not executable"}

-------------------------------------------------------------------------------
(***************************************************************************)
(* Instructions, as the decoder reports them.  A jump through memory and a *)
(* far return are "plain": the loop takes them for instructions that fall  *)
(* through, and what lies behind them for more of the function.            *)
(***************************************************************************)
Insn ==
  [kind : {"plain"}, len : PlainLength, dest : {NoDest}]
    \union [kind : {"ret"}, len : {1, 3}, dest : {NoDest}]
    \union [kind : {"call"}, len : {5}, dest : Inside \union Outside]
    \union [kind : {"jmp"}, len : {2, 5}, dest : Inside \union Outside]
    \union [kind : {"jcc"}, len : {2, 6}, dest : Inside \union Outside]
    \union [kind : {"loop"}, len : {2}, dest : Inside \union Outside]

Copies == ToSet(tramp)
Starts == {e.old : e \in Copies}
Awaited == {d \in {e.insn.dest : e \in Copies} \intersect Inside : d > oldPos}

\* May a function go on with instruction i at oldPos?
Plausible(i) ==
  /\ \A d \in Awaited : d >= oldPos + i.len
  /\ i.dest \in Inside => \/ i.dest \in Starts \union {oldPos}
                          \/ i.dest >= oldPos + i.len

\* A jump within the overwritten bytes is simply copied; all other branches, and
\* every call, are rewritten with their longest form.
Internal(i) == i.dest \in Inside /\ i.kind # "call"
Rewritten(i) == i.dest # NoDest /\ ~Internal(i)

CopySize(i) ==
  IF ~Rewritten(i) THEN i.len ELSE IF i.kind = "jcc" THEN JCC_REL ELSE JMP_REL

\* The branch reaching furthest, of those met so far.
FurthestKept(i) == jmpDest
Furthest(i) == IF Internal(i) /\ i.dest > jmpDest THEN i.dest ELSE jmpDest

\* Does the function end with i?  A branch may still lead past it.
Ends(i) ==
  /\ i.kind = "ret" \/ (i.kind = "jmp" /\ ~Internal(i))
  /\ oldPos >= Furthest(i)

TooLargeAtLimit(size) == newPos + size >= MaxSize
TooLarge(size) == newPos + size > MaxSize

Unsupported(i) ==
  \/ i.kind = "loop" /\ ~Internal(i)
  \/ oldPos < Furthest(i) /\ CopySize(i) # i.len

Place(i, size) ==
  /\ tramp' = Append(tramp, [insn |-> i, old |-> oldPos, new |-> newPos, size |-> size])
  /\ newPos' = newPos + size
  /\ oldPos' = oldPos + i.len
  /\ UNCHANGED <<padding, above, patchAbove>>

Refuse(why) ==
  /\ status' = why
  /\ UNCHANGED <<tramp, oldPos, newPos, jmpDest, padding, above, patchAbove>>

-------------------------------------------------------------------------------
(***************************************************************************)
(* The loop over the instructions.                                         *)
(***************************************************************************)
LongEnough == oldPos >= JMP_REL

\* The decoder does not know the instruction.
DecodeFails == status = "copying" /\ Refuse("unknown instruction")

CopyInstruction ==
  /\ status = "copying" /\ ~LongEnough
  /\ \E i \in {j \in Insn : Plausible(j)} :
       IF Unsupported(i) THEN Refuse("unsupported")
       ELSE IF TooLarge(CopySize(i)) THEN Refuse("too large")
       ELSE IF Len(tramp) >= MaxBoundaries THEN Refuse("too many instructions")
       ELSE /\ Place(i, CopySize(i))
            /\ jmpDest' = Furthest(i)
            /\ status' = IF Ends(i) THEN "copied" ELSE "copying"

\* The instruction after the overwritten bytes stays where it is: whatever it is,
\* the copy ends with a jump to it.
BackJump(at) == [kind |-> "back", len |-> 1, dest |-> at]

JumpBack ==
  /\ status = "copying" /\ LongEnough
  /\ IF TooLarge(JMP_REL) THEN Refuse("too large")
     ELSE IF Len(tramp) >= MaxBoundaries THEN Refuse("too many instructions")
     ELSE /\ Place(BackJump(oldPos), JMP_REL)
          /\ status' = "copied"
          /\ UNCHANGED jmpDest

\* The operand of the branch a copy is, and where it leads from there: the code
\* reckons it from the end of the copy if it rewrites the branch, and leaves it as
\* it was, from the end of the original, otherwise.
OperandFromOriginal(e) == e.insn.dest - (e.old + e.insn.len)
Operand(e) ==
  IF Rewritten(e.insn) THEN e.insn.dest - (SlotAt + e.new + e.size)
  ELSE OperandFromOriginal(e)
Arrives(e) == SlotAt + e.new + e.size + Operand(e)

\* IsCodePadding on what is missing to n bytes.
Room(n) == oldPos + padding >= n

\* A short function's jump may take padding after it, or only a short one there
\* and the long one above the function.
FindRoom ==
  /\ status = "copied"
  /\ LET built == Room(JMP_REL) \/ (Room(JMP_REL_SHORT) /\ above = "padding") IN
     /\ status' = IF built THEN "built" ELSE "no room"
     /\ patchAbove' = (built /\ ~Room(JMP_REL))
  /\ UNCHANGED <<tramp, oldPos, newPos, jmpDest, padding, above>>

Next == DecodeFails \/ CopyInstruction \/ JumpBack \/ FindRoom

Spec == Init /\ [][Next]_vars

-------------------------------------------------------------------------------
\* oldIPs and newIPs have eight elements of eight bits and an entry counts them in
\* four; no instruction past the fifth byte is copied.
CopyType == [insn : Insn \union {BackJump(at) : at \in JMP_REL .. JMP_REL - 1 + MaxInstruction},
             old : 0 .. JMP_REL - 1 + MaxInstruction,
             new : 0 .. MaxSize, size : 1 .. MaxInstruction]

TypeOK ==
  /\ tramp \in Seq(CopyType)
  /\ Len(tramp) <= MaxBoundaries
  /\ oldPos \in 0 .. JMP_REL + MaxInstruction /\ newPos \in 0 .. MaxSize
  /\ jmpDest \in Inside /\ padding \in 0 .. JMP_REL
  /\ status \in {"copying", "copied", "built", "unknown instruction", "unsupported",
                 "too large", "too many instructions", "no room"}
  /\ patchAbove \in BOOLEAN

\* Control goes through the copy as through the original: what falls through
\* finds the next instruction's copy behind it, a jump within the overwritten bytes
\* arrives at the copy of its destination, and any other branch where it led before.
\* There it finds what it did before, the overwritten bytes excepted; who calls the
\* function itself calls the hook.
Faithful(e) ==
  /\ e.insn.kind \notin {"jmp", "ret", "back"} =>
       \E f \in Copies : f.old = e.old + e.insn.len /\ f.new = e.new + e.size
  /\ Internal(e.insn) =>
       \E f \in Copies : f.old = e.insn.dest /\ SlotAt + f.new = Arrives(e)
  /\ e.insn.dest # NoDest /\ ~Internal(e.insn) =>
       Arrives(e) = e.insn.dest /\ Arrives(e) \notin Inside \ {0}

\* A backward jump over an instruction whose copy is longer.
BackOverLonger(e) ==
  /\ Internal(e.insn)
  /\ \E f \in Copies : e.insn.dest <= f.old /\ f.old < e.old /\ f.size # f.insn.len

\* A call of what the hook overwrites, behind the function's first instruction.
CallsInside(e) == e.insn.kind = "call" /\ e.insn.dest \in Inside \ {0}

\* Whatever sequence of instructions a function begins with, its trampoline runs
\* it faithfully, jumps back over a lengthened instruction and calls of overwritten
\* bytes excepted: the checks of jmpDest keep forward jumps right and the end of the
\* function in reach, and operands lead where they led (CreateTrampolineFunction,
\* trampoline.c).
TrampolineFaithful ==
  status = "built" => \A e \in Copies : BackOverLonger(e) \/ CallsInside(e) \/ Faithful(e)

\* "Can't alter the instruction length in a branch" (trampoline.c): jumps inside the
\* copied bytes, backward ones included, are all right.
BranchesFaithful ==
  status = "built" => \A e \in Copies : e.insn.kind # "call" => Faithful(e)

\* No function is refused for its size: three long forms and the longest
\* instruction fill a slot exactly, and five bytes hold few enough boundaries, whose
\* offsets fit the bits they are kept in (TypeOK).
SlotHoldsAnyPrologue == TypeOK /\ status \notin {"too large", "too many instructions"}
================================================================================
