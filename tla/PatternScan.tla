------------------------------ MODULE PatternScan ------------------------------
(***************************************************************************)
(* A hook::pattern object (pattern.cc, pattern.hh): a pattern of bytes and *)
(* wildcards, and the matches found for it.  The first question about the  *)
(* matches scans the image; the scan compares from the end of a window and *)
(* shifts it by a table of last occurrences; later questions are answered  *)
(* from the matches there are.                                             *)
(*                                                                         *)
(* Positions are counted from 1.  The image stands still here; CodePatch   *)
(* says what happens when it does not.                                     *)
(***************************************************************************)
EXTENDS Integers, Sequences

CONSTANTS
  Byte, Wild,         \* what an image, and besides a pattern, is made of
  Images, Patterns,   \* the images scanned and what they are scanned for
  Limits,             \* the arguments of count_hint
  UINT32_MAX          \* no limit; more than any image has matches

ASSUME WildAssumption == Wild \notin Byte
ASSUME DataAssumption ==
  Images \subseteq Seq(Byte) /\ Patterns \subseteq Seq(Byte \union {Wild}) \ {<<>>}
ASSUME LimitAssumption == Limits \union {UINT32_MAX} \subseteq Nat
ASSUME ImageAssumption == \A im \in Images : Len(im) < UINT32_MAX

VARIABLES
  image, pattern,
  m_matches, m_matched,
  pc,          \* "idle", or the loop of EnsureMatches under way
  maxCount,    \* its argument
  lastWild,    \* the last wildcard, once found
  Last,        \* the last occurrences, of the bytes seen so far
  i,           \* the next index of the pattern, or the next window
  asked        \* the limit of the question that made the scan (history)

vars == <<image, pattern, m_matches, m_matched, pc, maxCount, lastWild, Last, i, asked>>

maskSize == Len(pattern)

Init ==
  /\ image \in Images /\ pattern \in Patterns
  /\ m_matches = <<>> /\ m_matched = FALSE
  /\ pc = "idle" /\ maxCount = 0 /\ lastWild = 0 /\ Last = [b \in Byte |-> 0]
  /\ i = 0 /\ asked = UINT32_MAX

-------------------------------------------------------------------------------
(***************************************************************************)
(* Questions.                                                              *)
(***************************************************************************)
\* EnsureMatches returns at once if there has been a scan.
EnsureMatches(n) ==
  /\ pc = "idle" /\ ~m_matched
  /\ pc' = "wild" /\ i' = maskSize
  /\ maxCount' = n /\ asked' = n
  /\ UNCHANGED <<image, pattern, m_matches, m_matched, lastWild, Last>>

count_hint == \E n \in Limits : EnsureMatches(n)

\* size, empty, get and for_each_result.
for_each_result == EnsureMatches(UINT32_MAX)

\* It may be given another module to search from now on.
clear ==
  /\ pc = "idle" /\ m_matched
  /\ m_matches' = <<>> /\ m_matched' = FALSE
  /\ image' \in Images
  /\ UNCHANGED <<pattern, pc, maxCount, lastWild, Last, i, asked>>

-------------------------------------------------------------------------------
(***************************************************************************)
(* EnsureMatches.                                                          *)
(***************************************************************************)
\* What every byte's last occurrence is before the pattern's bytes are entered.
FillNothing(w) == [b \in Byte |-> 0]
Fill(w) == [b \in Byte |-> w]

\* m_mask.find_last_not_of(0xFF)
FindLastWild ==
  /\ pc = "wild"
  /\ IF i = 0 \/ pattern[i] = Wild
       THEN pc' = "table" /\ lastWild' = i /\ Last' = Fill(i) /\ i' = 1
       ELSE i' = i - 1 /\ UNCHANGED <<pc, lastWild, Last>>
  /\ UNCHANGED <<image, pattern, m_matches, m_matched, maxCount, asked>>

\* A wildcard's own byte, a zero, is entered below or at lastWild: to no effect.
Entered(b) == [Last EXCEPT ![b] = i]

EnterByte ==
  /\ pc = "table" /\ i <= maskSize
  /\ Last' = IF pattern[i] # Wild /\ Last[pattern[i]] < i THEN Entered(pattern[i]) ELSE Last
  /\ i' = i + 1
  /\ UNCHANGED <<image, pattern, m_matches, m_matched, pc, maxCount, lastWild, asked>>

StartScan ==
  /\ pc = "table" /\ i > maskSize
  /\ pc' = "scan" /\ i' = 1
  /\ UNCHANGED <<image, pattern, m_matches, m_matched, maxCount, lastWild, Last, asked>>

\* The last window that ends with the image.
End == Len(image) + 1 - maskSize

Agrees(p, j) == pattern[j] \in {Wild, image[p + j - 1]}
MatchAt(p) == \A j \in 1 .. maskSize : Agrees(p, j)

\* The index the comparison from the end stops at.
Mismatch(p, j) == ~Agrees(p, j) /\ \A k \in j + 1 .. maskSize : Agrees(p, k)

\* How far a window that differs at j may move on.
ShiftStuck(j) == IF j > Last[image[i + j - 1]] THEN j - Last[image[i + j - 1]] ELSE 0
Shift(j) == IF j > Last[image[i + j - 1]] THEN j - Last[image[i + j - 1]] ELSE 1

\* matchSuccess: as many as were asked for?
IsLastOrMore(n) == n >= maxCount
IsLast(n) == n = maxCount

Found ==
  /\ pc = "scan" /\ i <= End /\ MatchAt(i)
  /\ m_matches' = Append(m_matches, i)
  /\ IF IsLast(Len(m_matches) + 1)
       THEN pc' = "idle" /\ m_matched' = TRUE
       ELSE UNCHANGED <<pc, m_matched>>
  /\ i' = i + 1
  /\ UNCHANGED <<image, pattern, maxCount, lastWild, Last, asked>>

MoveOn ==
  /\ pc = "scan" /\ i <= End
  /\ \E j \in 1 .. maskSize : Mismatch(i, j) /\ i' = i + Shift(j)
  /\ UNCHANGED <<image, pattern, m_matches, m_matched, pc, maxCount, lastWild, Last, asked>>

EndOfRange ==
  /\ pc = "scan" /\ i > End
  /\ pc' = "idle" /\ m_matched' = TRUE
  /\ UNCHANGED <<image, pattern, m_matches, maxCount, lastWild, Last, i, asked>>

Scan == FindLastWild \/ EnterByte \/ StartScan \/ Found \/ MoveOn \/ EndOfRange

Next == count_hint \/ for_each_result \/ clear \/ Scan

\* The caller's thread runs through the scan; it waits for nobody.
Spec == Init /\ [][Next]_vars /\ WF_vars(Scan)

-------------------------------------------------------------------------------
TypeOK ==
  /\ image \in Seq(Byte) /\ pattern \in Seq(Byte \union {Wild}) \ {<<>>}
  /\ m_matches \in Seq(Nat) /\ m_matched \in BOOLEAN
  /\ pc \in {"idle", "wild", "table", "scan"}
  /\ {maxCount, asked} \subseteq Nat
  /\ lastWild \in 0 .. maskSize /\ Last \in [Byte -> 0 .. maskSize]
  /\ i \in Nat

\* Where the pattern matches, by its definition.
Occurrences == {p \in 1 .. Len(image) : p + maskSize - 1 <= Len(image) /\ MatchAt(p)}

\* However far windows are shifted, no match is passed over and none is made up: the
\* matches behind the window are those the scan has, in ascending order
\* (EnsureMatches, pattern.cc).
NothingSkipped ==
  pc = "scan" =>
    /\ {m_matches[k] : k \in 1 .. Len(m_matches)} = {p \in Occurrences : p < i}
    /\ \A k \in 1 .. Len(m_matches) - 1 : m_matches[k] < m_matches[k + 1]

\* The matches a question is answered from are the first ones of the image, all of
\* them unless the question that made the scan had a limit and was given that many;
\* a limit of zero limits nothing.
AnswersFirst ==
  m_matched =>
    LET found == {m_matches[k] : k \in 1 .. Len(m_matches)} IN
    /\ \A p \in Occurrences \ found : \A q \in found : q < p
    /\ found \subseteq Occurrences
    /\ found = Occurrences \/ Len(m_matches) = asked

(***************************************************************************)
(* The inductive invariant: what each loop of EnsureMatches has settled.   *)
(***************************************************************************)
FirstLoop ==
  pc = "wild" => /\ i \in 0 .. maskSize
                 /\ \A j \in i + 1 .. maskSize : pattern[j] # Wild

\* Nothing the pattern has for byte b, wildcards included, lies behind Last[b], of
\* what has been entered.
TableLoop ==
  pc = "table" =>
    /\ i \in 1 .. maskSize + 1
    /\ \A b \in Byte : \A j \in 1 .. maskSize :
         pattern[j] = Wild \/ (pattern[j] = b /\ j < i) => j <= Last[b]

TableRight ==
  pc = "scan" =>
    \A b \in Byte : \A j \in 1 .. maskSize : pattern[j] \in {Wild, b} => j <= Last[b]

Protocol ==
  /\ m_matches # <<>> => m_matched \/ pc = "scan"
  /\ pc # "idle" => ~m_matched /\ asked = maxCount
  /\ pc = "scan" => i > 0

\* While it builds its table and scans, EnsureMatches keeps all of this (pattern.cc).
IInv ==
  TypeOK /\ Protocol /\ FirstLoop /\ TableLoop /\ TableRight
         /\ NothingSkipped /\ AnswersFirst

\* A scan ends: every window is behind the one before it.
ScanEnds == pc # "idle" ~> pc = "idle"
================================================================================
