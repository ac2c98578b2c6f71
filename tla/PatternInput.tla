------------------------------ MODULE PatternInput ------------------------------
(***************************************************************************)
(* What a hook::pattern object is made from: the text of the pattern, as   *)
(* in "C6 05 ? ? ? ? 01", and the headers of the module that is scanned.   *)
(*                                                                         *)
(* A text is a sequence of hex digits (0 .. 15), Space, Question, and      *)
(* Other for any character that is none of these.                          *)
(***************************************************************************)
EXTENDS PatternScan, FiniteSets

CONSTANT Modules   \* the modules that may be searched

ASSUME ByteAssumption == Byte \subseteq 0 .. 255

Space == 16
Question == 17
Other == 18
NoDigit == -1

\* One character: half is a digit that waits for its second one.  It goes on
\* waiting over spaces and wildcards.
TransformedKeepHalf(st, ch) ==
  IF ch = Question THEN [st EXCEPT !.out = Append(@, Wild)]
  ELSE IF ch \notin 0 .. 15 THEN st
  ELSE IF st.half = NoDigit THEN [st EXCEPT !.half = ch]
  ELSE [st EXCEPT !.out = Append(@, 16 * st.half + ch)]
TransformedChar(st, ch) ==
  IF ch = Question THEN [st EXCEPT !.out = Append(@, Wild)]
  ELSE IF ch \notin 0 .. 15 THEN st
  ELSE IF st.half = NoDigit THEN [st EXCEPT !.half = ch]
  ELSE [half |-> NoDigit, out |-> Append(st.out, 16 * st.half + ch)]

TransformPattern(text) ==
  LET st[k \in 0 .. Len(text)] ==
        IF k = 0 THEN [half |-> NoDigit, out |-> <<>>] ELSE TransformedChar(st[k - 1], text[k])
  IN st[Len(text)].out

-------------------------------------------------------------------------------
(***************************************************************************)
(* executable_meta: a module is [mem |-> its bytes, sections |-> ...], and *)
(* is searched from its start to the end of its last executable section.   *)
(***************************************************************************)
SectionSize(s) == IF s.SizeOfRawData # 0 THEN s.SizeOfRawData ELSE s.VirtualSize

\* What the loader gives a section: its bytes in the file, and zeros behind them.
InMemory(s) == IF s.VirtualSize # 0 THEN s.VirtualSize ELSE s.SizeOfRawData

Executable(secs) == {k \in DOMAIN secs : secs[k].execute}
LastExecutable(secs) == CHOOSE k \in Executable(secs) : \A x \in Executable(secs) : x <= k

EndFirst(secs) ==
  LET k == CHOOSE k \in Executable(secs) : \A x \in Executable(secs) : k <= x
  IN IF Executable(secs) = {} THEN 0 ELSE secs[k].VirtualAddress + SectionSize(secs[k])
SearchEnd(secs) ==
  LET k == LastExecutable(secs)
      l == Len(secs)
  IN IF Executable(secs) # {} THEN secs[k].VirtualAddress + SectionSize(secs[k])
                              ELSE secs[l].PointerToRawData + SectionSize(secs[l])

\* A module has sections: without any, m_end would stay below the module itself.
ASSUME ModuleAssumption ==
  \A mo \in Modules :
    /\ mo.mem \in Seq(Byte)
    /\ Len(mo.sections) \in Nat \ {0} /\ DOMAIN mo.sections = 1 .. Len(mo.sections)
    /\ \A k \in DOMAIN mo.sections :
         LET s == mo.sections[k] IN
           /\ {s.VirtualAddress, s.SizeOfRawData, s.VirtualSize} \subseteq Nat
           /\ s.execute => /\ s.VirtualAddress + SectionSize(s) <= Len(mo.mem)
                           /\ s.VirtualAddress + InMemory(s) <= Len(mo.mem)

Searched(module) == SubSeq(module.mem, 1, SearchEnd(module.sections))

-------------------------------------------------------------------------------
\* The ways to write a pattern: with or without a space before each of its bytes,
\* and with both digits of a byte or, by mistake, only the second one.
Chunk(p, gaps, short, k) ==
  (IF k \in gaps THEN <<Space>> ELSE <<>>)
    \o (IF p[k] = Wild THEN <<Question>>
        ELSE IF k \in short THEN <<p[k] % 16>> ELSE <<p[k] \div 16, p[k] % 16>>)
Written(p, gaps, short) ==
  LET text[k \in 0 .. Len(p)] ==
        IF k = 0 THEN <<>> ELSE text[k - 1] \o Chunk(p, gaps, short, k)
  IN text[Len(p)]

\* How a text is to be read: every second of its digits ends a byte, whatever
\* stands between the two, and every question mark is a wildcard.
Digits(text, j) == {x \in 1 .. j : text[x] \in 0 .. 15}
LastDigit(text, j) == CHOOSE x \in Digits(text, j) : \A y \in Digits(text, j) : y <= x
Ends(text, j) ==
  {x \in 1 .. j : \/ text[x] = Question
                  \/ text[x] \in 0 .. 15 /\ Cardinality(Digits(text, x)) % 2 = 0}
ReadInOrder(text) ==
  LET out == TransformPattern(text) IN
  /\ Len(out) = Cardinality(Ends(text, Len(text)))
  /\ \A j \in Ends(text, Len(text)) :
       out[Cardinality(Ends(text, j))] =
         IF text[j] = Question THEN Wild ELSE 16 * text[LastDigit(text, j - 1)] + text[j]

(***************************************************************************)
(* However its text is spaced, a pattern is the bytes and wildcards it is  *)
(* written as.  A digit without a second one waits over spaces and         *)
(* wildcards and becomes half of the next byte, every byte behind it is    *)
(* put together of the halves of two, and the last one may be missing:     *)
(* but nothing is left out or comes in another order (TransformPattern,    *)
(* pattern.cc).                                                            *)
(***************************************************************************)
PatternAsWritten ==
  m_matches = <<>> /\ pc = "idle" =>
    \A gaps, short \in SUBSET (1 .. maskSize) :
      LET text == Written(pattern, gaps, short) IN
        /\ ReadInOrder(text)
        /\ short = {} => TransformPattern(text) = pattern

\* Sections lie in the module in the order of their headers, apart from each other.
InOrder(secs) ==
  \A k \in 1 .. Len(secs) - 1 :
    secs[k].VirtualAddress + InMemory(secs[k]) <= secs[k + 1].VirtualAddress

\* Does a match at p reach behind the bytes the file has for section s?
BehindFile(s, p) ==
  s.SizeOfRawData # 0 /\ p + maskSize - 1 > s.VirtualAddress + s.SizeOfRawData

(***************************************************************************)
(* A pattern that stands in code is found: whichever module the bytes that *)
(* were searched belong to, no match inside any executable section, as it  *)
(* is in memory, is missed, be it behind data, behind the bytes the file   *)
(* has for the section, or in a section without bytes in the file.  One    *)
(* place is not searched: the memory of the last executable section behind *)
(* the bytes the file has for it (executable_meta and EnsureMatches,       *)
(* pattern.cc).                                                            *)
(***************************************************************************)
CodeIsSearched ==
  m_matched /\ asked = UINT32_MAX =>
    \A mo \in Modules : Searched(mo) = image /\ InOrder(mo.sections) =>
      \A k \in Executable(mo.sections) :
        LET s == mo.sections[k]
            first == s.VirtualAddress + 1
        IN \A p \in first .. first + InMemory(s) - maskSize :
             (\A j \in 1 .. maskSize : pattern[j] \in {Wild, mo.mem[p + j - 1]})
               => \/ \E q \in 1 .. Len(m_matches) : m_matches[q] = p
                  \/ k = LastExecutable(mo.sections) /\ BehindFile(s, p)
===============================================================================
