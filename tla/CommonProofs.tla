------------------------------ MODULE CommonProofs ------------------------------
(***************************************************************************)
(* For every image, pattern, module and limit, the scan of PatternScan     *)
(* finds what it should in what PatternInput gives it, and for all export  *)
(* and import tables the lookups of PeLookup find what Windows finds among *)
(* the modules that are loaded.                                            *)
(*                                                                         *)
(* The heart of the scan is NoneBetween: a window that differs at index j  *)
(* may be shifted past the last occurrence of the byte it differs in,      *)
(* because the pattern cannot match anywhere in between.  The heart of the *)
(* lookup is Forwarded: following a forward does not change the answer.    *)
(***************************************************************************)
EXTENDS PatternInput, PeLookup, WellFoundedInduction, FiniteSetTheorems, TLAPS

-------------------------------------------------------------------------------
(***************************************************************************)
(* The scan.                                                               *)
(***************************************************************************)
\* No matches are a sequence of positions.
LEMMA EmptySeqNat == <<>> \in Seq(Nat)
OBVIOUS

\* Before a question has been asked, the invariant holds.
LEMMA InitInv == Init => IInv
<1> SUFFICES ASSUME Init PROVE IInv
  OBVIOUS
<1>1. /\ image \in Seq(Byte) /\ pattern \in Seq(Byte \union {Wild}) \ {<<>>}
      /\ maskSize \in Nat
  BY DataAssumption DEF Init, maskSize
<1>2. TypeOK
  <2>1. 0 \in 0 .. maskSize
    BY <1>1
  <2>2. Last \in [Byte -> 0 .. maskSize] /\ lastWild \in 0 .. maskSize
    BY <2>1 DEF Init
  <2>3. UINT32_MAX \in Nat
    BY LimitAssumption
  <2>4. m_matches \in Seq(Nat) /\ m_matched \in BOOLEAN
    BY EmptySeqNat DEF Init
  <2>5. {maxCount, asked} \subseteq Nat /\ i \in Nat /\ pc = "idle"
    BY <2>3 DEF Init
  <2>q. QED BY <1>1, <2>2, <2>4, <2>5 DEF TypeOK
<1>3. Protocol /\ FirstLoop /\ TableLoop /\ TableRight /\ NothingSkipped /\ AnswersFirst
  BY DEF Init, Protocol, FirstLoop, TableLoop, TableRight, NothingSkipped, AnswersFirst
<1>q. QED BY <1>2, <1>3 DEF IInv

\* The shift table is sound: no occurrence lies strictly between a window that
\* differs at j and the next window compared (pattern.cc, the bad byte rule).
LEMMA NoneBetween ==
  ASSUME IInv, pc = "scan", i <= End,
         NEW j \in 1 .. maskSize, Mismatch(i, j)
  PROVE  /\ Shift(j) \in Nat /\ Shift(j) > 0
         /\ \A p \in Occurrences : p < i + Shift(j) => p < i
<1> USE DEF maskSize
<1> DEFINE c == image[i + j - 1]
<1>1. i \in Nat /\ i > 0 /\ maskSize \in Nat
  BY DEF IInv, TypeOK, Protocol
<1>2. i + j - 1 \in 1 .. Len(image)
  BY <1>1 DEF End, IInv, TypeOK
<1>3. c \in Byte /\ Last[c] \in 0 .. maskSize
  BY <1>2 DEF IInv, TypeOK
<1>4. Shift(j) \in Nat /\ Shift(j) > 0
  BY <1>3 DEF Shift
<1>5. ASSUME NEW p \in Occurrences, p < i + Shift(j), ~(p < i)
      PROVE  FALSE
  <2>1. p \in Nat /\ p + maskSize - 1 <= Len(image) /\ MatchAt(p)
    BY DEF Occurrences, IInv, TypeOK
  <2>2. CASE p = i
    BY <2>1, <2>2 DEF Mismatch, MatchAt
  <2>3. CASE p > i
    <3>1. Shift(j) > 1
      BY <2>1, <2>3, <1>1, <1>4, <1>5
    <3>2. Shift(j) = j - Last[c]
      BY <3>1, <1>3 DEF Shift
    <3> DEFINE k == i + j - p
    <3>3. k \in 1 .. maskSize /\ k > Last[c] /\ p + k - 1 = i + j - 1
      BY <1>1, <1>3, <1>5, <2>1, <2>3, <3>2
    <3>4. Agrees(p, k)
      BY <2>1, <3>3 DEF MatchAt
    <3>5. pattern[k] \in {Wild, c}
      BY <3>3, <3>4 DEF Agrees
    <3>6. k <= Last[c]
      BY <1>3, <3>3, <3>5 DEF IInv, TableRight
    <3>q. QED BY <3>3, <3>6, <1>3
  <2>q. QED BY <1>1, <1>5, <2>1, <2>2, <2>3
<1>q. QED BY <1>4, <1>5

-------------------------------------------------------------------------------
(***************************************************************************)
(* One lemma per step of EnsureMatches that does more than start or stop.  *)
(***************************************************************************)
LEMMA FindLastWildInv == IInv /\ FindLastWild => IInv'
<1> SUFFICES ASSUME IInv, FindLastWild PROVE IInv'
  OBVIOUS
<1> USE DEF maskSize
<1>0. pc = "wild" /\ i \in 0 .. maskSize /\ maskSize \in Nat /\ maskSize > 0
  BY DEF FindLastWild, IInv, FirstLoop, TypeOK
<1>1. TypeOK'
  BY <1>0 DEF FindLastWild, IInv, TypeOK, Fill
<1>2. Protocol'
  BY <1>0 DEF FindLastWild, IInv, Protocol
<1>3. FirstLoop'
  BY <1>0 DEF FindLastWild, IInv, FirstLoop, TypeOK
<1>4. TableLoop'
  <2> SUFFICES ASSUME pc' = "table" PROVE TableLoop'
    BY DEF TableLoop
  <2>1. i' = 1 /\ Last' = [b \in Byte |-> i]
    BY <1>0 DEF FindLastWild, Fill
  <2>2. \A j \in 1 .. maskSize : pattern[j] = Wild => j <= i
    BY <1>0 DEF IInv, FirstLoop
  <2>q. QED BY <1>0, <2>1, <2>2 DEF TableLoop, FindLastWild
<1>5. TableRight' /\ NothingSkipped' /\ AnswersFirst'
  BY <1>0 DEF FindLastWild, TableRight, NothingSkipped, AnswersFirst, IInv, Protocol
<1>q. QED BY <1>1, <1>2, <1>3, <1>4, <1>5 DEF IInv

LEMMA EnterByteInv == IInv /\ EnterByte => IInv'
<1> SUFFICES ASSUME IInv, EnterByte PROVE IInv'
  OBVIOUS
<1> USE DEF maskSize
<1>0. /\ pc = "table" /\ i \in 1 .. maskSize /\ maskSize \in Nat
      /\ pattern[i] \in Byte \union {Wild} /\ Last \in [Byte -> 0 .. maskSize]
      /\ pc' = pc /\ i' = i + 1 /\ pattern' = pattern
  BY DEF EnterByte, IInv, TableLoop, TypeOK
<1>1. Last' \in [Byte -> 0 .. maskSize]
  BY <1>0 DEF EnterByte, Entered
<1>2. TypeOK'
  BY <1>0, <1>1 DEF EnterByte, IInv, TypeOK
<1>3. Protocol' /\ FirstLoop' /\ TableRight' /\ NothingSkipped' /\ AnswersFirst'
  BY <1>0 DEF EnterByte, IInv, Protocol, FirstLoop, TableRight, NothingSkipped, AnswersFirst
<1>4. ASSUME NEW b \in Byte
      PROVE  Last[b] <= Last'[b] /\ (pattern[i] = b => i <= Last'[b])
  <2>1. Last[b] \in 0 .. maskSize
    BY <1>0
  <2>2. CASE pattern[i] # Wild /\ Last[pattern[i]] < i
    BY <1>0, <2>1, <2>2 DEF EnterByte, Entered
  <2>3. CASE ~(pattern[i] # Wild /\ Last[pattern[i]] < i)
    <3>1. Last' = Last
      BY <2>3 DEF EnterByte
    <3>2. pattern[i] = b => Last[b] >= i
      BY <2>1, <2>3, <1>0, WildAssumption
    <3>q. QED BY <3>1, <3>2, <2>1, <1>0
  <2>q. QED BY <2>2, <2>3
<1>5. ASSUME NEW b \in Byte, NEW j \in 1 .. maskSize,
             pattern[j] = Wild \/ (pattern[j] = b /\ j < i + 1)
      PROVE  j <= Last'[b]
  <2>0. Last[b] \in Nat /\ Last'[b] \in Nat
    BY <1>0, <1>1
  <2>1. CASE j = i /\ pattern[j] = b
    BY <2>1, <1>4
  <2>2. CASE ~(j = i /\ pattern[j] = b)
    BY <2>0, <2>2, <1>0, <1>4, <1>5 DEF IInv, TableLoop
  <2>q. QED BY <2>1, <2>2
<1>6. TableLoop'
  BY <1>0, <1>5 DEF TableLoop
<1>q. QED BY <1>2, <1>3, <1>6 DEF IInv

LEMMA StartScanInv == IInv /\ StartScan => IInv'
<1> SUFFICES ASSUME IInv, StartScan PROVE IInv'
  OBVIOUS
<1> USE DEF maskSize
<1>0. TypeOK' /\ Protocol'
  BY DEF StartScan, IInv, TypeOK, Protocol
<1>1. FirstLoop' /\ TableLoop' /\ AnswersFirst'
  BY DEF StartScan, IInv, FirstLoop, TableLoop, Protocol, AnswersFirst
<1>2. TableRight'
  BY DEF StartScan, IInv, TableLoop, TableRight, TypeOK
<1>3. NothingSkipped'
  BY DEF StartScan, IInv, Protocol, TypeOK, NothingSkipped, Occurrences
<1>q. QED BY <1>0, <1>1, <1>2, <1>3 DEF IInv

\* The window agrees everywhere: it is the next match, and the last one asked for
\* ends the scan.
LEMMA FoundInv == IInv /\ Found => IInv'
<1> SUFFICES ASSUME IInv, Found PROVE IInv'
  OBVIOUS
<1> USE DEF maskSize
<1> DEFINE n == Len(m_matches)
<1> DEFINE F == {m_matches[k] : k \in 1 .. n}
<1> DEFINE G == {m_matches'[k] : k \in 1 .. Len(m_matches')}
<1>0. /\ pc = "scan" /\ i \in Nat /\ i > 0 /\ i <= End /\ MatchAt(i)
      /\ maskSize \in Nat /\ maskSize > 0 /\ Len(image) \in Nat
      /\ m_matches \in Seq(Nat) /\ n \in Nat /\ m_matches' = Append(m_matches, i)
      /\ i' = i + 1 /\ image' = image /\ pattern' = pattern
      /\ asked = maxCount /\ asked' = asked /\ maxCount' = maxCount
  BY DEF Found, IInv, Protocol, TypeOK
<1>1. i \in Occurrences
  BY <1>0 DEF End, Occurrences
<1>2. Occurrences' = Occurrences /\ Occurrences \subseteq Nat
  BY <1>0 DEF Occurrences, MatchAt, Agrees
<1>3. F = {p \in Occurrences : p < i}
  BY <1>0 DEF IInv, NothingSkipped
<1>4. /\ Len(m_matches') = n + 1 /\ m_matches'[n + 1] = i
      /\ \A k \in 1 .. n : m_matches'[k] = m_matches[k]
  BY <1>0
<1>5. G = F \union {i}
  BY <1>0, <1>4
<1>6. G = {p \in Occurrences : p < i + 1}
  <2>1. \A p \in Occurrences : p < i + 1 <=> p < i \/ p = i
    BY <1>0, <1>2
  <2> HIDE DEF G, F
  <2>q. QED BY <2>1, <1>1, <1>3, <1>5
<1>7. \A k \in 1 .. n : m_matches[k] < m_matches'[k + 1]
  <2>1. \A k \in 1 .. n : m_matches[k] \in F /\ m_matches[k] \in Nat
    BY <1>0
  <2>2. \A k \in 1 .. n - 1 : m_matches[k] < m_matches[k + 1]
    BY <1>0 DEF IInv, NothingSkipped
  <2>3. ASSUME NEW k \in 1 .. n PROVE m_matches[k] < m_matches'[k + 1]
    <3>1. CASE k = n
      BY <2>1, <3>1, <1>3, <1>4
    <3>2. CASE k # n
      BY <2>2, <3>2, <1>0, <1>4
    <3>q. QED BY <3>1, <3>2
  <2>q. QED BY <2>3
<1>8. TypeOK'
  <2>1. m_matches' \in Seq(Nat) /\ i' \in Nat
    BY <1>0
  <2>2. m_matched' \in BOOLEAN /\ pc' \in {"idle", "scan"}
    BY <1>0 DEF Found, IInv, TypeOK
  <2>q. QED BY <2>1, <2>2 DEF Found, IInv, TypeOK
<1>9. Protocol' /\ FirstLoop' /\ TableLoop' /\ TableRight'
  BY <1>0 DEF Found, IInv, Protocol, FirstLoop, TableLoop, TableRight
<1>10. NothingSkipped'
  <2>1. G = {p \in Occurrences' : p < i'}
    BY <1>0, <1>2, <1>6
  <2>2. \A k \in 1 .. Len(m_matches') - 1 : m_matches'[k] < m_matches'[k + 1]
    BY <1>0, <1>4, <1>7
  <2>q. QED BY <2>1, <2>2 DEF NothingSkipped
<1>11. AnswersFirst'
  <2> SUFFICES ASSUME m_matched' PROVE AnswersFirst'
    BY DEF AnswersFirst
  <2>1. n + 1 = maxCount
    BY <1>0 DEF Found, IsLast, IInv, Protocol
  <2>2. \A p \in Occurrences \ G : \A q \in G : q < p
    <3>1. ASSUME NEW p \in Occurrences \ G, NEW q \in G PROVE q < p
      <4>1. p \in Nat /\ q \in Nat /\ ~(p < i + 1) /\ q < i + 1
        BY <1>2, <1>6, <3>1
      <4>q. QED BY <4>1, <1>0
    <3>q. QED BY <3>1
  <2>3. G \subseteq Occurrences
    BY <1>6
  <2>q. QED BY <1>0, <1>2, <1>4, <2>1, <2>2, <2>3 DEF AnswersFirst
<1>q. QED BY <1>8, <1>9, <1>10, <1>11 DEF IInv

LEMMA MoveOnInv == IInv /\ MoveOn => IInv'
<1> SUFFICES ASSUME IInv, MoveOn PROVE IInv'
  OBVIOUS
<1> USE DEF maskSize
<1>0. /\ pc = "scan" /\ i \in Nat /\ i > 0 /\ i <= End
  BY DEF MoveOn, IInv, Protocol, TypeOK
<1>1. PICK j \in 1 .. maskSize : Mismatch(i, j) /\ i' = i + Shift(j)
  BY DEF MoveOn
<1>2. /\ Shift(j) \in Nat /\ Shift(j) > 0
      /\ \A p \in Occurrences : p < i' => p < i
  BY <1>0, <1>1, NoneBetween
<1>3. Occurrences' = Occurrences /\ Occurrences \subseteq Nat
  BY DEF MoveOn, Occurrences, MatchAt, Agrees
<1>4. {p \in Occurrences : p < i} = {p \in Occurrences : p < i'}
  <2>1. i' \in Nat /\ i < i'
    BY <1>0, <1>1, <1>2
  <2>2. \A p \in Occurrences : p < i <=> p < i'
    BY <1>0, <1>2, <1>3, <2>1
  <2>q. QED BY <2>2
<1>5. TypeOK' /\ Protocol'
  BY <1>0, <1>1, <1>2 DEF MoveOn, IInv, TypeOK, Protocol
<1>6. FirstLoop' /\ TableLoop' /\ TableRight'
  BY <1>0 DEF MoveOn, IInv, FirstLoop, TableLoop, TableRight
<1>7. NothingSkipped'
  BY <1>3, <1>4 DEF MoveOn, IInv, NothingSkipped
<1>8. AnswersFirst'
  BY <1>0 DEF MoveOn, IInv, Protocol, AnswersFirst
<1>q. QED BY <1>5, <1>6, <1>7, <1>8 DEF IInv

LEMMA EndOfRangeInv == IInv /\ EndOfRange => IInv'
<1> SUFFICES ASSUME IInv, EndOfRange PROVE IInv'
  OBVIOUS
<1> USE DEF maskSize
<1> DEFINE F == {m_matches[k] : k \in 1 .. Len(m_matches)}
<1>0. /\ pc = "scan" /\ i \in Nat /\ i > End /\ maskSize \in Nat /\ Len(image) \in Nat
  BY DEF EndOfRange, IInv, TypeOK
<1>1. Occurrences' = Occurrences
  BY DEF EndOfRange, Occurrences, MatchAt, Agrees
<1>2. \A p \in Occurrences : p < i
  BY <1>0 DEF Occurrences, End
<1>3. F = Occurrences
  BY <1>0, <1>2 DEF IInv, NothingSkipped
<1>4. AnswersFirst'
  BY <1>1, <1>3 DEF EndOfRange, AnswersFirst
<1>5. TypeOK' /\ Protocol'
  BY DEF EndOfRange, IInv, TypeOK, Protocol
<1>6. FirstLoop' /\ TableLoop' /\ TableRight' /\ NothingSkipped'
  BY DEF EndOfRange, FirstLoop, TableLoop, TableRight, NothingSkipped
<1>q. QED BY <1>4, <1>5, <1>6 DEF IInv

\* Asking starts a scan on an object that has no matches yet; clearing makes one.
LEMMA QuestionInv ==
  IInv /\ (count_hint \/ for_each_result \/ clear) => IInv'
<1> SUFFICES ASSUME IInv PROVE count_hint \/ for_each_result \/ clear => IInv'
  OBVIOUS
<1> USE DEF maskSize
<1>1. ASSUME NEW n \in Nat, EnsureMatches(n) PROVE IInv'
  <2>0. maskSize \in Nat
    BY DEF IInv, TypeOK
  <2>1. TypeOK' /\ Protocol'
    BY <1>1, <2>0 DEF EnsureMatches, IInv, TypeOK, Protocol
  <2>2. FirstLoop' /\ TableLoop' /\ TableRight' /\ NothingSkipped' /\ AnswersFirst'
    BY <1>1, <2>0
       DEF EnsureMatches, FirstLoop, TableLoop, TableRight, NothingSkipped, AnswersFirst
  <2>q. QED BY <2>1, <2>2 DEF IInv
<1>2. ASSUME clear PROVE IInv'
  <2>0. m_matches' \in Seq(Nat) /\ m_matched' \in BOOLEAN
    BY <1>2, EmptySeqNat DEF clear
  <2>1. TypeOK' /\ Protocol'
    BY <1>2, <2>0, DataAssumption DEF clear, IInv, TypeOK, Protocol, maskSize
  <2>2. FirstLoop' /\ TableLoop' /\ TableRight' /\ NothingSkipped' /\ AnswersFirst'
    BY <1>2 DEF clear, FirstLoop, TableLoop, TableRight, NothingSkipped, AnswersFirst
  <2>q. QED BY <2>1, <2>2 DEF IInv
<1>3. Limits \subseteq Nat /\ UINT32_MAX \in Nat
  BY LimitAssumption
<1>q. QED BY <1>1, <1>2, <1>3 DEF count_hint, for_each_result

-------------------------------------------------------------------------------
\* The inductive invariant of a pattern object holds for every image, pattern and
\* sequence of questions (EnsureMatches, pattern.cc).
THEOREM Inductive == Spec => []IInv
<1>1. Init => IInv
  BY InitInv
<1>2. IInv /\ [Next]_vars => IInv'
  <2> SUFFICES ASSUME IInv, [Next]_vars PROVE IInv'
    OBVIOUS
  <2>1. CASE UNCHANGED vars
    <3> USE <2>1 DEF vars, maskSize
    <3>1. TypeOK' /\ Protocol' /\ FirstLoop'
      BY DEF IInv, TypeOK, Protocol, FirstLoop
    <3>2. TableLoop' /\ TableRight'
      BY DEF IInv, TableLoop, TableRight
    <3>3. Occurrences' = Occurrences
      BY DEF Occurrences, MatchAt, Agrees
    <3>4. NothingSkipped' /\ AnswersFirst'
      BY <3>3 DEF IInv, NothingSkipped, AnswersFirst
    <3>q. QED BY <3>1, <3>2, <3>4 DEF IInv
  <2>2. CASE count_hint \/ for_each_result \/ clear
    BY <2>2, QuestionInv
  <2>3. CASE Scan
    BY <2>3, FindLastWildInv, EnterByteInv, StartScanInv, FoundInv, MoveOnInv, EndOfRangeInv
       DEF Scan
  <2>q. QED BY <2>1, <2>2, <2>3 DEF Next
<1>q. QED BY <1>1, <1>2, PTL DEF Spec

\* Every variable keeps its type: the table's entries are indices of the pattern.
THEOREM TypeCorrect == Spec => []TypeOK
<1>1. IInv => TypeOK
  BY DEF IInv
<1>q. QED BY <1>1, Inductive, PTL

\* The shift table never makes the scan pass over a match, nor report a place that is
\* none, and matches come in ascending order.
THEOREM NoMatchSkipped == Spec => []NothingSkipped
<1>1. IInv => NothingSkipped
  BY DEF IInv
<1>q. QED BY <1>1, Inductive, PTL

\* A question is answered from the first matches of the image: all, or as many as
\* the question that made the scan asked for.
THEOREM AnswersAreFirst == Spec => []AnswersFirst
<1>1. IInv => AnswersFirst
  BY DEF IInv
<1>q. QED BY <1>1, Inductive, PTL

-------------------------------------------------------------------------------
(***************************************************************************)
(* The range that is searched.                                             *)
(***************************************************************************)
\* There are no more matches than positions, so UINT32_MAX stops no scan.
CountInv ==
  /\ image \in Images
  /\ \A k \in 1 .. Len(m_matches) : k <= m_matches[k]

LEMMA CountStep ==
  ASSUME IInv, CountInv, [Next]_vars
  PROVE  CountInv'
<1>1. m_matches \in Seq(Nat) /\ Len(m_matches) \in Nat
  BY DEF IInv, TypeOK
<1>2. CASE Found
  <2> DEFINE n == Len(m_matches)
  <2>1. /\ pc = "scan" /\ i \in Nat /\ i > 0 /\ i <= End /\ MatchAt(i)
        /\ m_matches' = Append(m_matches, i) /\ image' = image
    BY <1>2 DEF Found, IInv, Protocol, TypeOK
  <2>2. /\ Len(m_matches') = n + 1 /\ m_matches'[n + 1] = i
        /\ \A k \in 1 .. n : m_matches'[k] = m_matches[k]
    BY <1>1, <2>1
  <2>3. n + 1 <= i
    <3>1. CASE n = 0
      BY <3>1, <2>1
    <3>2. CASE n # 0
      <4>1. n \in 1 .. n /\ n <= m_matches[n] /\ m_matches[n] \in Nat
        BY <3>2, <1>1 DEF CountInv
      <4>2. m_matches[n] < i
        BY <4>1, <2>1 DEF IInv, NothingSkipped
      <4> QED
        BY <4>1, <4>2, <2>1, <1>1
    <3> QED
      BY <3>1, <3>2
  <2>4. ASSUME NEW k \in 1 .. n + 1 PROVE k <= m_matches'[k]
    <3>1. CASE k = n + 1
      BY <3>1, <2>2, <2>3
    <3>2. CASE k # n + 1
      <4>1. k \in 1 .. n
        BY <3>2, <1>1
      <4> QED
        BY <4>1, <2>2 DEF CountInv
    <3> QED
      BY <3>1, <3>2
  <2> QED
    BY <2>1, <2>2, <2>4 DEF CountInv
<1>3. CASE clear
  BY <1>3 DEF clear, CountInv
<1>4. CASE UNCHANGED <<image, m_matches>>
  BY <1>4 DEF CountInv
<1> QED
  BY <1>2, <1>3, <1>4 DEF Next, Scan, count_hint, for_each_result, EnsureMatches, FindLastWild,
     EnterByte, StartScan, MoveOn, EndOfRange, vars

LEMMA AllFound ==
  ASSUME IInv, CountInv, m_matched, asked = UINT32_MAX
  PROVE  {m_matches[k] : k \in 1 .. Len(m_matches)} = Occurrences
<1> DEFINE n == Len(m_matches)
           found == {m_matches[k] : k \in 1 .. n}
<1>1. /\ found \subseteq Occurrences
      /\ found = Occurrences \/ n = asked
  BY DEF IInv, AnswersFirst
<1>2. n \in Nat /\ Len(image) \in Nat /\ image \in Images
  BY DEF IInv, TypeOK, CountInv
<1>3. n # UINT32_MAX
  <2>1. CASE n = 0
    BY <2>1, <1>2, ImageAssumption, LimitAssumption
  <2>2. CASE n # 0
    <3>1. n \in 1 .. n
      BY <2>2, <1>2
    <3>2. m_matches[n] \in found /\ n <= m_matches[n]
      BY <3>1 DEF CountInv
    <3>3. m_matches[n] \in 1 .. Len(image)
      BY <3>2, <1>1 DEF Occurrences
    <3>4. n <= Len(image)
      BY <3>2, <3>3, <1>2
    <3> QED
      BY <3>4, <1>2, ImageAssumption, LimitAssumption
  <2> QED
    BY <2>1, <2>2
<1> QED
  BY <1>1, <1>3

LEMMA Least ==
  ASSUME NEW T \in SUBSET Nat, T # {}
  PROVE  \E m \in T : \A k \in T : m <= k
<1> DEFINE Less == {ss \in Nat \X Nat : ss[1] < ss[2]}
<1>1. IsWellFoundedOn(Less, Nat)
  BY NatLessThanWellFounded, Zenon DEF OpToRel
<1>2. PICK m \in T : \A k \in T : <<k, m>> \notin Less
  <2> HIDE DEF Less
  <2> QED
    BY <1>1, WFMin
<1>3. \A k \in T : ~ (k < m)
  BY <1>2
<1> QED
  BY <1>2, <1>3

LEMMA Greatest ==
  ASSUME NEW n \in Nat, NEW T \in SUBSET 1 .. n, T # {}
  PROVE  \E m \in T : \A k \in T : k <= m
<1> DEFINE U == {n - k : k \in T}
<1>1. U \in SUBSET Nat /\ U # {}
  <2>1. PICK t : t \in T
    OBVIOUS
  <2>2. n - t \in U
    BY <2>1
  <2>3. \A k \in T : n - k \in Nat
    OBVIOUS
  <2> QED
    BY <2>2, <2>3
<1> HIDE DEF U
<1>2. PICK u \in U : \A v \in U : u <= v
  BY <1>1, Least
<1>3. PICK m \in T : u = n - m
  BY DEF U
<1>4. ASSUME NEW k \in T PROVE k <= m
  <2>1. n - k \in U
    BY DEF U
  <2>2. n - m <= n - k
    BY <2>1, <1>2, <1>3
  <2>3. n - m \in Int /\ k \in 1 .. n /\ m \in 1 .. n
    OBVIOUS
  <2> QED
    BY <2>2, <2>3
<1> QED
  BY <1>4

\* Where a section ends; those behind it begin no earlier.
EndOf(s) == s.VirtualAddress + InMemory(s)

LEMMA LaterEndsLater ==
  ASSUME NEW mo \in Modules, InOrder(mo.sections),
         NEW j \in DOMAIN mo.sections, NEW k \in DOMAIN mo.sections, j <= k
  PROVE  EndOf(mo.sections[j]) <= EndOf(mo.sections[k])
<1> DEFINE secs == mo.sections
           l == Len(secs)
<1>1. l \in Nat /\ DOMAIN secs = 1 .. l
  BY ModuleAssumption
<1>2. \A x \in 1 .. l : secs[x].VirtualAddress \in Nat /\ InMemory(secs[x]) \in Nat
                        /\ EndOf(secs[x]) \in Nat
  BY <1>1, ModuleAssumption DEF EndOf, InMemory
<1>3. \A x \in 1 .. l - 1 : EndOf(secs[x]) <= secs[x + 1].VirtualAddress
  BY DEF InOrder, EndOf
<1>4. SUFFICES ASSUME EndOf(secs[k]) < EndOf(secs[j]) PROVE FALSE
  BY <1>1, <1>2
<1> DEFINE T == {x \in j .. l : EndOf(secs[x]) < EndOf(secs[j])}
<1> HIDE DEF secs, l
<1>5. T \in SUBSET Nat /\ k \in T
  BY <1>1, <1>4 DEF secs, l
<1>6. PICK m \in T : \A x \in T : m <= x
  BY <1>5, Least
<1>7. m # j /\ m \in j .. l /\ j \in 1 .. l
  BY <1>1, <1>2, <1>6 DEF secs, l
<1>8. m - 1 \in j .. l /\ m - 1 \in 1 .. l - 1 /\ m \in 1 .. l
  BY <1>1, <1>7
<1>9. ~(EndOf(secs[m - 1]) < EndOf(secs[j]))
  BY <1>6, <1>8
<1>10. EndOf(secs[m - 1]) <= secs[m].VirtualAddress
  BY <1>3, <1>8
<1>11. EndOf(secs[m]) = secs[m].VirtualAddress + InMemory(secs[m])
  BY DEF EndOf
<1>12. /\ EndOf(secs[m]) \in Nat /\ secs[m].VirtualAddress \in Nat /\ InMemory(secs[m]) \in Nat
       /\ EndOf(secs[m - 1]) \in Nat /\ EndOf(secs[j]) \in Nat
  BY <1>1, <1>2, <1>7, <1>8
<1>13. EndOf(secs[m]) < EndOf(secs[j])
  BY <1>6
<1> QED
  BY <1>9, <1>10, <1>11, <1>12, <1>13

\* What is searched reaches from the module's start over all of its code.
LEMMA CodeInRange ==
  ASSUME NEW mo \in Modules, InOrder(mo.sections), NEW k \in Executable(mo.sections)
  PROVE  /\ \/ EndOf(mo.sections[k]) <= SearchEnd(mo.sections)
            \/ /\ k = LastExecutable(mo.sections)
               /\ SearchEnd(mo.sections)
                    = mo.sections[k].VirtualAddress + SectionSize(mo.sections[k])
         /\ SearchEnd(mo.sections) \in Nat /\ SearchEnd(mo.sections) <= Len(mo.mem)
<1> DEFINE secs == mo.sections
           x == LastExecutable(secs)
<1>1. /\ Len(secs) \in Nat /\ DOMAIN secs = 1 .. Len(secs)
      /\ Executable(secs) \in SUBSET (1 .. Len(secs)) /\ Executable(secs) # {}
  BY ModuleAssumption DEF Executable
<1>2. \E m \in Executable(secs) : \A y \in Executable(secs) : y <= m
  BY <1>1, Greatest
<1>3. x \in Executable(secs) /\ k <= x
  BY <1>2 DEF LastExecutable
<1>4. SearchEnd(secs) = secs[x].VirtualAddress + SectionSize(secs[x])
  BY <1>1 DEF SearchEnd
<1> HIDE DEF x
<1>5. x \in DOMAIN secs /\ k \in DOMAIN secs /\ secs[x].execute
  BY <1>1, <1>3 DEF Executable
<1>6. /\ secs[x].VirtualAddress \in Nat /\ SectionSize(secs[x]) \in Nat
      /\ SearchEnd(secs) <= Len(mo.mem)
  BY <1>4, <1>5, ModuleAssumption DEF SectionSize
<1>7. CASE k = x
  BY <1>4, <1>6, <1>7 DEF x
<1>8. CASE k # x
  <2>1. x - 1 \in 1 .. Len(secs) - 1 /\ x - 1 \in DOMAIN secs /\ k <= x - 1
    BY <1>1, <1>3, <1>5, <1>8
  <2>2. EndOf(secs[k]) <= EndOf(secs[x - 1])
    BY <1>5, <2>1, LaterEndsLater
  <2>3. EndOf(secs[x - 1]) <= secs[x].VirtualAddress
    BY <2>1, <1>1, <1>5 DEF InOrder, EndOf
  <2>4. EndOf(secs[k]) \in Nat /\ EndOf(secs[x - 1]) \in Nat
    <3>1. ASSUME NEW y \in DOMAIN secs PROVE EndOf(secs[y]) \in Nat
      <4>1. secs[y].VirtualAddress \in Nat /\ InMemory(secs[y]) \in Nat
        BY ModuleAssumption DEF InMemory
      <4> QED
        BY <4>1 DEF EndOf
    <3> QED
      BY <3>1, <1>5, <2>1
  <2> QED
    BY <2>2, <2>3, <2>4, <1>4, <1>6
<1> QED
  BY <1>7, <1>8

LEMMA SearchedBytes ==
  ASSUME NEW mo \in Modules, SearchEnd(mo.sections) \in Nat, SearchEnd(mo.sections) <= Len(mo.mem)
  PROVE  /\ Len(Searched(mo)) = SearchEnd(mo.sections)
         /\ \A p \in 1 .. SearchEnd(mo.sections) : Searched(mo)[p] = mo.mem[p]
<1>1. mo.mem \in Seq(Byte)
  BY ModuleAssumption
<1>2. PICK e \in Nat : e = SearchEnd(mo.sections)
  OBVIOUS
<1>3. e <= Len(mo.mem) /\ Searched(mo) = SubSeq(mo.mem, 1, e)
  BY <1>2 DEF Searched
<1>4. Len(SubSeq(mo.mem, 1, e)) = e /\ \A p \in 1 .. e : SubSeq(mo.mem, 1, e)[p] = mo.mem[p]
  BY <1>1, <1>3
<1> QED
  BY <1>2, <1>3, <1>4

LEMMA FoundInCode == IInv /\ CountInv => CodeIsSearched
<1> SUFFICES ASSUME IInv, CountInv, m_matched, asked = UINT32_MAX,
                    NEW mo \in Modules, Searched(mo) = image, InOrder(mo.sections),
                    NEW k \in Executable(mo.sections),
                    NEW p \in mo.sections[k].VirtualAddress + 1
                                .. mo.sections[k].VirtualAddress + 1
                                     + InMemory(mo.sections[k]) - maskSize,
                    \A j \in 1 .. maskSize : pattern[j] \in {Wild, mo.mem[p + j - 1]},
                    ~(k = LastExecutable(mo.sections) /\ BehindFile(mo.sections[k], p))
             PROVE  \E q \in 1 .. Len(m_matches) : m_matches[q] = p
  BY DEF CodeIsSearched
<1> DEFINE s == mo.sections[k]
<1>1. /\ s.VirtualAddress \in Nat /\ s.SizeOfRawData \in Nat /\ s.VirtualSize \in Nat
      /\ InMemory(s) \in Nat /\ EndOf(s) = s.VirtualAddress + InMemory(s)
      /\ maskSize \in Nat /\ maskSize > 0
  BY ModuleAssumption DEF Executable, EndOf, InMemory, IInv, TypeOK, maskSize
<1>2. /\ \/ EndOf(s) <= SearchEnd(mo.sections)
         \/ /\ k = LastExecutable(mo.sections)
            /\ SearchEnd(mo.sections) = s.VirtualAddress + SectionSize(s)
      /\ SearchEnd(mo.sections) \in Nat /\ Len(image) = SearchEnd(mo.sections)
      /\ \A x \in 1 .. SearchEnd(mo.sections) : image[x] = mo.mem[x]
  BY CodeInRange, SearchedBytes
<1>3. p \in s.VirtualAddress + 1 .. s.VirtualAddress + 1 + InMemory(s) - maskSize
  OBVIOUS
<1>4. ~(k = LastExecutable(mo.sections) /\ BehindFile(s, p))
  OBVIOUS
<1> HIDE DEF s
<1>5. p \in Nat /\ p >= 1 /\ p + maskSize - 1 <= s.VirtualAddress + InMemory(s)
  BY <1>1, <1>3
<1>6. p + maskSize - 1 <= Len(image)
  <2>1. CASE EndOf(s) <= SearchEnd(mo.sections)
    BY <2>1, <1>1, <1>2, <1>5
  <2>2. CASE /\ k = LastExecutable(mo.sections)
             /\ SearchEnd(mo.sections) = s.VirtualAddress + SectionSize(s)
    <3>1. CASE s.SizeOfRawData = 0
      <4>1. SectionSize(s) = InMemory(s)
        BY <3>1 DEF SectionSize, InMemory
      <4> QED
        BY <4>1, <2>2, <1>1, <1>2, <1>5
    <3>2. CASE s.SizeOfRawData # 0
      <4>1. SectionSize(s) = s.SizeOfRawData
        BY <3>2 DEF SectionSize
      <4>2. ~(p + maskSize - 1 > s.VirtualAddress + s.SizeOfRawData)
        BY <3>2, <2>2, <1>4 DEF BehindFile
      <4> QED
        BY <4>1, <4>2, <2>2, <1>1, <1>2, <1>5
    <3> QED
      BY <3>1, <3>2
  <2> QED
    BY <2>1, <2>2, <1>2
<1>7. p \in 1 .. Len(image)
  BY <1>1, <1>2, <1>5, <1>6
<1>8. ASSUME NEW j \in 1 .. maskSize PROVE Agrees(p, j)
  <2>1. p + j - 1 \in 1 .. SearchEnd(mo.sections)
    BY <1>1, <1>2, <1>5, <1>6
  <2>2. image[p + j - 1] = mo.mem[p + j - 1]
    BY <2>1, <1>2
  <2> QED
    BY <2>2 DEF Agrees
<1>9. p \in Occurrences
  BY <1>6, <1>7, <1>8 DEF Occurrences, MatchAt
<1> QED
  BY <1>9, AllFound

(***************************************************************************)
(* However large a module, however large its sections are in the file and  *)
(* in memory, and whatever is looked for: a pattern that stands in code is *)
(* among the matches of a question without a limit, but for the memory of  *)
(* the last executable section the file has no bytes for (executable_meta  *)
(* and EnsureMatches, pattern.cc).                                         *)
(***************************************************************************)
THEOREM CodeIsAlwaysSearched == Spec => []CodeIsSearched
<1>1. Init => CountInv
  BY DEF Init, CountInv
<1>2. IInv /\ CountInv /\ [Next]_vars => CountInv'
  BY CountStep
<1> QED
  BY <1>1, <1>2, FoundInCode, Inductive, PTL DEF Spec

-------------------------------------------------------------------------------
(***************************************************************************)
(* The text of a pattern.                                                  *)
(***************************************************************************)
\* Induction over the numbers up to N, for the set of those something holds of.
LEMMA UpTo ==
  ASSUME NEW N \in Nat, NEW T \in SUBSET (0 .. N), 0 \in T,
         \A k \in 1 .. N : k - 1 \in T => k \in T
  PROVE  \A k \in 0 .. N : k \in T
<1> DEFINE Rest == (0 .. N) \ T
<1>1. SUFFICES ASSUME Rest # {} PROVE FALSE
  OBVIOUS
<1>2. PICK m \in Rest : \A k \in Rest : m <= k
  <2>1. Rest \in SUBSET Nat
    OBVIOUS
  <2> HIDE DEF Rest
  <2> QED
    BY <1>1, <2>1, Least
<1>3. m \in 1 .. N /\ m \notin T
  OBVIOUS
<1>4. m - 1 \in 0 .. N /\ ~(m <= m - 1)
  BY <1>3
<1>5. m - 1 \in T
  BY <1>2, <1>4
<1> QED
  BY <1>3, <1>5

\* A function can be defined by what it is at 0 and how each value follows from
\* the one before.
LEMMA Recursion ==
  ASSUME NEW S, NEW first \in S, NEW N \in Nat, NEW step \in [1 .. N -> [S -> S]]
  PROVE  \E g \in [0 .. N -> S] :
           g[0] = first /\ \A k \in 1 .. N : g[k] = step[k][g[k - 1]]
<1> DEFINE Good(m) == \E g \in [0 .. N -> S] :
                        g[0] = first /\ \A k \in 1 .. m : g[k] = step[k][g[k - 1]]
           T == {m \in 0 .. N : Good(m)}
<1>1. Good(0)
  <2> DEFINE g == [k \in 0 .. N |-> first]
  <2>1. g \in [0 .. N -> S] /\ g[0] = first
    OBVIOUS
  <2> HIDE DEF g
  <2> QED
    BY <2>1
<1>2. ASSUME NEW m \in 1 .. N, Good(m - 1) PROVE Good(m)
  <2>1. PICK g \in [0 .. N -> S] :
          g[0] = first /\ \A k \in 1 .. m - 1 : g[k] = step[k][g[k - 1]]
    BY <1>2
  <2>2. m - 1 \in 0 .. N
    OBVIOUS
  <2>3. PICK v \in S : v = step[m][g[m - 1]]
    BY <2>2
  <2> DEFINE h == [g EXCEPT ![m] = v]
  <2>4. h \in [0 .. N -> S] /\ h[m] = v /\ \A k \in 0 .. N : k # m => h[k] = g[k]
    BY <2>2
  <2> HIDE DEF h
  <2>5. ASSUME NEW k \in 1 .. m PROVE h[k] = step[k][h[k - 1]]
    <3>1. k - 1 \in 0 .. N /\ k - 1 # m /\ k \in 0 .. N
      OBVIOUS
    <3>2. CASE k = m
      BY <3>1, <3>2, <2>3, <2>4
    <3>3. CASE k # m
      <4>1. k \in 1 .. m - 1
        BY <3>3
      <4> QED
        BY <4>1, <3>1, <3>3, <2>1, <2>4
    <3> QED
      BY <3>2, <3>3
  <2>6. h[0] = first
    BY <2>1, <2>4
  <2> QED
    BY <2>4, <2>5, <2>6
<1> HIDE DEF Good
<1>3. 0 \in T /\ \A k \in 1 .. N : k - 1 \in T => k \in T
  BY <1>1, <1>2
<1>4. N \in T
  <2>1. T \in SUBSET (0 .. N) /\ N \in 0 .. N
    OBVIOUS
  <2> HIDE DEF T
  <2> QED
    BY <2>1, <1>3, UpTo
<1> QED
  BY <1>4 DEF Good

\* What TransformPattern has read and what it has written.
Reading == [half : Int, out : Seq(Int \union {Wild})]

LEMMA ReadingType ==
  ASSUME NEW st \in Reading, NEW ch
  PROVE  TransformedChar(st, ch) \in Reading
<1>1. CASE ch = Question
  <2>1. Append(st.out, Wild) \in Seq(Int \union {Wild})
    BY DEF Reading
  <2> QED
    BY <1>1, <2>1 DEF TransformedChar, Reading
<1>2. CASE ch # Question /\ ch \notin 0 .. 15
  BY <1>2 DEF TransformedChar
<1>3. CASE ch # Question /\ ch \in 0 .. 15 /\ st.half = NoDigit
  BY <1>3 DEF TransformedChar, Reading
<1>4. CASE ch # Question /\ ch \in 0 .. 15 /\ st.half # NoDigit
  <2>1. 16 * st.half + ch \in Int
    BY <1>4 DEF Reading
  <2>2. Append(st.out, 16 * st.half + ch) \in Seq(Int \union {Wild})
    BY <2>1 DEF Reading
  <2> QED
    BY <1>4, <2>2 DEF TransformedChar, Reading, NoDigit
<1> QED
  BY <1>1, <1>2, <1>3, <1>4

LEMMA Transformed ==
  ASSUME NEW text, Len(text) \in Nat
  PROVE  \E h : /\ h[0] = [half |-> NoDigit, out |-> <<>>]
                /\ \A k \in 1 .. Len(text) : h[k] = TransformedChar(h[k - 1], text[k])
                /\ TransformPattern(text) = h[Len(text)].out
<1> DEFINE N == Len(text)
           first == [half |-> NoDigit, out |-> <<>>]
           step == [k \in 1 .. N |-> [st \in Reading |-> TransformedChar(st, text[k])]]
           F(g) == [k \in 0 .. N |-> IF k = 0 THEN first ELSE TransformedChar(g[k - 1], text[k])]
           h == CHOOSE st : st = F(st)
<1>1. step \in [1 .. N -> [Reading -> Reading]] /\ N \in Nat
  BY ReadingType
<1>2. first \in Reading
  BY DEF Reading, NoDigit
<1>3. PICK g \in [0 .. N -> Reading] :
        g[0] = first /\ \A k \in 1 .. N : g[k] = step[k][g[k - 1]]
  <2> HIDE DEF step, first, N
  <2> QED
    BY <1>1, <1>2, Recursion
<1>4. ASSUME NEW k \in 1 .. N PROVE g[k] = TransformedChar(g[k - 1], text[k])
  <2>1. g[k - 1] \in Reading
    OBVIOUS
  <2>2. step[k][g[k - 1]] = TransformedChar(g[k - 1], text[k])
    BY <2>1
  <2> HIDE DEF step
  <2> QED
    BY <2>2, <1>3
<1>5. g = F(g)
  <2>1. g = [k \in 0 .. N |-> g[k]]
    OBVIOUS
  <2>2. \A k \in 0 .. N : g[k] = IF k = 0 THEN first ELSE TransformedChar(g[k - 1], text[k])
    BY <1>3, <1>4
  <2> QED
    BY <2>1, <2>2
<1>6. h = F(h)
  BY <1>5
<1>7. TransformPattern(text) = h[N].out
  BY DEF TransformPattern
<1> HIDE DEF h
<1>8. \A k \in 0 .. N : h[k] = F(h)[k]
  <2> HIDE DEF F
  <2> QED
    BY <1>6
<1> HIDE DEF first
<1>9. h[0] = first /\ \A k \in 1 .. N : h[k] = TransformedChar(h[k - 1], text[k])
  BY <1>8
<1> QED
  BY <1>7, <1>9 DEF first

LEMMA Divided ==
  ASSUME NEW n \in Nat \ {0}, NEW b \in Nat
  PROVE  b = n * (b \div n) + (b % n) /\ b % n \in 0 .. n - 1 /\ b \div n \in Nat
<1> DEFINE q == b \div n
           r == b % n
<1>1. b = n * q + r /\ q \in Nat /\ r \in 0 .. n - 1
  OBVIOUS
<1> QED
  BY <1>1

LEMMA TwoDigits ==
  ASSUME NEW b \in 0 .. 255
  PROVE  b \div 16 \in 0 .. 15 /\ b % 16 \in 0 .. 15 /\ 16 * (b \div 16) + (b % 16) = b
<1>1. b = 16 * (b \div 16) + (b % 16) /\ b % 16 \in 0 .. 16 - 1 /\ b \div 16 \in Int
  <2>1. 16 \in Nat \ {0} /\ b \in Nat
    OBVIOUS
  <2> QED
    BY <2>1, Divided
<1> QED
  BY <1>1

LEMMA ChunkType ==
  ASSUME NEW p \in Seq(Byte \union {Wild}), NEW gaps, NEW short, NEW k \in 1 .. Len(p)
  PROVE  /\ p[k] \in Byte \union {Wild}
         /\ p[k] # Wild => /\ p[k] \div 16 \in 0 .. 15 /\ p[k] % 16 \in 0 .. 15
                           /\ 16 * (p[k] \div 16) + (p[k] % 16) = p[k]
         /\ Chunk(p, gaps, short, k) \in Seq(Int)
<1>1. p[k] \in Byte \union {Wild}
  OBVIOUS
<1>2. ASSUME p[k] # Wild
      PROVE  /\ p[k] \div 16 \in 0 .. 15 /\ p[k] % 16 \in 0 .. 15
             /\ 16 * (p[k] \div 16) + (p[k] % 16) = p[k]
  <2>1. p[k] \in 0 .. 255
    BY <1>1, <1>2, ByteAssumption
  <2> QED
    BY <2>1, TwoDigits
<1>3. (IF k \in gaps THEN <<Space>> ELSE <<>>) \in Seq(Int)
  BY DEF Space
<1>4. (IF p[k] = Wild THEN <<Question>>
       ELSE IF k \in short THEN <<p[k] % 16>> ELSE <<p[k] \div 16, p[k] % 16>>) \in Seq(Int)
  <2>1. CASE p[k] = Wild
    BY <2>1 DEF Question
  <2>2. CASE p[k] # Wild
    BY <2>2, <1>2
  <2> QED
    BY <2>1, <2>2
<1> QED
  BY <1>1, <1>2, <1>3, <1>4 DEF Chunk

LEMMA WrittenText ==
  ASSUME NEW p \in Seq(Byte \union {Wild}), NEW gaps, NEW short
  PROVE  \E w : /\ \A k \in 0 .. Len(p) : w[k] \in Seq(Int)
                /\ w[0] = <<>>
                /\ \A k \in 1 .. Len(p) : w[k] = w[k - 1] \o Chunk(p, gaps, short, k)
                /\ Written(p, gaps, short) = w[Len(p)]
<1> DEFINE N == Len(p)
           S == Seq(Int)
           step == [k \in 1 .. N |-> [w \in Seq(Int) |-> w \o Chunk(p, gaps, short, k)]]
           first == <<>>
           F(g) == [k \in 0 .. N |-> IF k = 0 THEN first ELSE g[k - 1] \o Chunk(p, gaps, short, k)]
           h == CHOOSE w : w = F(w)
<1>1. step \in [1 .. N -> [S -> S]]
  BY ChunkType
<1>2. first \in S /\ N \in Nat
  OBVIOUS
<1>3. PICK g \in [0 .. N -> S] :
        g[0] = first /\ \A k \in 1 .. N : g[k] = step[k][g[k - 1]]
  <2> HIDE DEF step, N, first, S
  <2> QED
    BY <1>1, <1>2, Recursion
<1>4. ASSUME NEW k \in 1 .. N PROVE g[k] = g[k - 1] \o Chunk(p, gaps, short, k)
  <2>1. g[k - 1] \in Seq(Int)
    OBVIOUS
  <2>2. step[k][g[k - 1]] = g[k - 1] \o Chunk(p, gaps, short, k)
    BY <2>1
  <2> HIDE DEF step
  <2> QED
    BY <2>2, <1>3
<1>5. g = F(g)
  <2>1. g = [k \in 0 .. N |-> g[k]]
    OBVIOUS
  <2>2. \A k \in 0 .. N : g[k] = IF k = 0 THEN first ELSE g[k - 1] \o Chunk(p, gaps, short, k)
    BY <1>3, <1>4
  <2> QED
    BY <2>1, <2>2
<1>6. h = F(h)
  BY <1>5
<1>7. Written(p, gaps, short) = h[N]
  BY DEF Written
<1> HIDE DEF h
<1>8. \A k \in 0 .. N : h[k] = F(h)[k]
  <2> HIDE DEF F
  <2> QED
    BY <1>6
<1>9. h[0] = <<>>
  BY <1>8
<1>10. ASSUME NEW k \in 1 .. N PROVE h[k] = h[k - 1] \o Chunk(p, gaps, short, k)
  <2>1. k \in 0 .. N /\ k # 0
    OBVIOUS
  <2> QED
    BY <2>1, <1>8
<1> DEFINE T == {k \in 0 .. N : h[k] \in Seq(Int)}
<1>11. \A k \in 0 .. N : h[k] \in Seq(Int)
  <2>1. 0 \in T
    BY <1>9
  <2>2. ASSUME NEW k \in 1 .. N, k - 1 \in T PROVE k \in T
    <3>1. h[k - 1] \in Seq(Int)
      BY <2>2
    <3>2. Chunk(p, gaps, short, k) \in Seq(Int)
      BY ChunkType
    <3>3. h[k - 1] \o Chunk(p, gaps, short, k) \in Seq(Int)
      BY <3>1, <3>2
    <3>4. h[k] = h[k - 1] \o Chunk(p, gaps, short, k)
      BY <1>10
    <3>5. h[k] \in Seq(Int)
      BY <3>3, <3>4
    <3>6. k \in 0 .. N
      OBVIOUS
    <3> QED
      BY <3>5, <3>6
  <2>3. \A k \in 0 .. N : k \in T
    <3>1. T \in SUBSET (0 .. N)
      OBVIOUS
    <3> HIDE DEF T, N
    <3> QED
      BY <3>1, <2>1, <2>2, <1>2, UpTo
  <2> QED
    BY <2>3
<1> HIDE DEF N
<1> QED
  BY <1>7, <1>9, <1>10, <1>11 DEF N

\* What a byte or a wildcard is written as, after a space or not.
LEMMA ChunkParts ==
  ASSUME NEW p \in Seq(Byte \union {Wild}), NEW gaps, NEW k \in 1 .. Len(p)
  PROVE  \E s \in {0, 1} :
           /\ s = 1 => Chunk(p, gaps, {}, k)[1] = Space
           /\ p[k] = Wild => /\ Len(Chunk(p, gaps, {}, k)) = s + 1
                             /\ Chunk(p, gaps, {}, k)[s + 1] = Question
           /\ p[k] # Wild => /\ Len(Chunk(p, gaps, {}, k)) = s + 2
                             /\ Chunk(p, gaps, {}, k)[s + 1] = p[k] \div 16
                             /\ Chunk(p, gaps, {}, k)[s + 2] = p[k] % 16
<1> DEFINE gap == IF k \in gaps THEN <<Space>> ELSE <<>>
           byte == IF p[k] = Wild THEN <<Question>> ELSE <<p[k] \div 16, p[k] % 16>>
           s == IF k \in gaps THEN 1 ELSE 0
<1>1. gap \in Seq(Int) /\ Len(gap) = s /\ s \in {0, 1} /\ (s = 1 => gap[1] = Space)
  BY DEF Space
<1>2. /\ byte \in Seq(Int)
      /\ p[k] = Wild => Len(byte) = 1 /\ byte[1] = Question
      /\ p[k] # Wild => Len(byte) = 2 /\ byte[1] = p[k] \div 16 /\ byte[2] = p[k] % 16
  <2>1. CASE p[k] = Wild
    BY <2>1 DEF Question
  <2>2. CASE p[k] # Wild
    <3> DEFINE d1 == p[k] \div 16
               d2 == p[k] % 16
    <3>1. byte = <<d1, d2>>
      BY <2>2
    <3>2. d1 \in 0 .. 15 /\ d2 \in 0 .. 15
      BY <2>2, ChunkType
    <3> HIDE DEF d1, d2, byte
    <3>3. byte \in Seq(Int) /\ Len(byte) = 2 /\ byte[1] = d1 /\ byte[2] = d2
      BY <3>1, <3>2
    <3> QED
      BY <3>3, <2>2 DEF d1, d2
  <2> QED
    BY <2>1, <2>2
<1>3. Chunk(p, gaps, {}, k) = gap \o byte
  BY DEF Chunk
<1> HIDE DEF gap, byte, s
<1>4. /\ Len(gap \o byte) = s + Len(byte)
      /\ s = 1 => (gap \o byte)[1] = gap[1]
      /\ \A j \in 1 .. Len(byte) : (gap \o byte)[s + j] = byte[j]
  BY <1>1, <1>2
<1>5. CASE p[k] = Wild
  <2>0. Len(byte) = 1
    BY <1>2, <1>5
  <2>1. 1 \in 1 .. Len(byte)
    BY <2>0
  <2> QED
    BY <2>1, <1>1, <1>2, <1>3, <1>4, <1>5
<1>6. CASE p[k] # Wild
  <2>0. Len(byte) = 2
    BY <1>2, <1>6
  <2>1. 1 \in 1 .. Len(byte) /\ 2 \in 1 .. Len(byte)
    BY <2>0
  <2> QED
    BY <2>1, <1>1, <1>2, <1>3, <1>4, <1>6
<1> QED
  BY <1>5, <1>6

\* However it is spaced, the text of a pattern is read as that pattern.
LEMMA WrittenReads ==
  ASSUME NEW p \in Seq(Byte \union {Wild}), NEW gaps
  PROVE  TransformPattern(Written(p, gaps, {})) = p
<1> DEFINE n == Len(p)
<1>1. PICK w : /\ \A k \in 0 .. n : w[k] \in Seq(Int)
               /\ w[0] = <<>>
               /\ \A k \in 1 .. n : w[k] = w[k - 1] \o Chunk(p, gaps, {}, k)
               /\ Written(p, gaps, {}) = w[n]
  BY WrittenText
<1> DEFINE text == w[n]
<1>2. n \in Nat /\ Len(text) \in Nat
  BY <1>1
<1>3. PICK h : /\ h[0] = [half |-> NoDigit, out |-> <<>>]
               /\ \A k \in 1 .. Len(text) : h[k] = TransformedChar(h[k - 1], text[k])
               /\ TransformPattern(text) = h[Len(text)].out
  BY <1>2, Transformed
<1>4. ASSUME NEW k \in 1 .. n
      PROVE  /\ Len(w[k]) = Len(w[k - 1]) + Len(Chunk(p, gaps, {}, k))
             /\ Len(w[k - 1]) \in Nat /\ Len(Chunk(p, gaps, {}, k)) \in Nat
             /\ \A j \in 1 .. Len(w[k - 1]) : w[k][j] = w[k - 1][j]
             /\ \A j \in 1 .. Len(Chunk(p, gaps, {}, k)) :
                  w[k][Len(w[k - 1]) + j] = Chunk(p, gaps, {}, k)[j]
  <2>1. k - 1 \in 0 .. n
    OBVIOUS
  <2>2. w[k - 1] \in Seq(Int) /\ Chunk(p, gaps, {}, k) \in Seq(Int)
    BY <2>1, <1>1, ChunkType
  <2>3. w[k] = w[k - 1] \o Chunk(p, gaps, {}, k)
    BY <1>1
  <2> QED
    BY <2>2, <2>3
<1> DEFINE Begins(k) == /\ Len(w[k]) <= Len(text)
                        /\ \A j \in 1 .. Len(w[k]) : text[j] = w[k][j]
           T1 == {m \in 0 .. n : Begins(n - m)}
           T2 == {k \in 0 .. n : h[Len(w[k])] = [half |-> NoDigit, out |-> SubSeq(p, 1, k)]}
<1>5. \A k \in 0 .. n : Begins(k)
  <2>1. 0 \in T1
    BY <1>2
  <2>2. ASSUME NEW m \in 1 .. n, m - 1 \in T1 PROVE m \in T1
    <3> DEFINE k == n - m + 1
    <3>1. k \in 1 .. n /\ k - 1 = n - m /\ n - (m - 1) = k /\ m \in 0 .. n
      BY <1>2
    <3>2. Begins(k)
      BY <2>2, <3>1
    <3> HIDE DEF k
    <3>3. Begins(k - 1)
      <4>1. Len(w[k - 1]) <= Len(w[k]) /\ Len(w[k]) \in Nat /\ Len(w[k - 1]) \in Nat
        BY <3>1, <1>4
      <4>2. \A j \in 1 .. Len(w[k - 1]) : j \in 1 .. Len(w[k]) /\ w[k][j] = w[k - 1][j]
        BY <4>1, <3>1, <1>4
      <4> QED
        BY <4>1, <4>2, <3>2, <1>2
    <3> QED
      BY <3>1, <3>3
  <2>3. \A m \in 0 .. n : m \in T1
    <3>1. T1 \in SUBSET (0 .. n)
      OBVIOUS
    <3> HIDE DEF T1, n
    <3> QED
      BY <3>1, <2>1, <2>2, <1>2, UpTo
  <2>4. ASSUME NEW k \in 0 .. n PROVE Begins(k)
    <3>1. n - k \in 0 .. n /\ n - (n - k) = k
      BY <1>2
    <3> QED
      BY <3>1, <2>3
  <2> QED
    BY <2>4
<1>6. \A k \in 0 .. n : k \in T2
  <2>1. 0 \in T2
    BY <1>1, <1>2, <1>3
  <2>2. ASSUME NEW k \in 1 .. n, k - 1 \in T2 PROVE k \in T2
    <3> DEFINE a == Len(w[k - 1])
               out == SubSeq(p, 1, k - 1)
               c == Chunk(p, gaps, {}, k)
    <3>1. h[a] = [half |-> NoDigit, out |-> out]
      BY <2>2
    <3>2. a \in Nat /\ Len(c) \in Nat /\ Len(w[k]) = a + Len(c) /\ k \in 0 .. n
      BY <1>4
    <3>3. Begins(k)
      BY <3>2, <1>5
    <3>4. ASSUME NEW j \in 1 .. Len(c)
          PROVE  text[a + j] = c[j] /\ h[a + j] = TransformedChar(h[a + j - 1], text[a + j])
      <4>1. a + j \in 1 .. Len(w[k]) /\ a + j \in 1 .. Len(text)
        BY <3>2, <3>3, <1>2
      <4>2. text[a + j] = w[k][a + j]
        BY <4>1, <3>3
      <4>3. w[k][a + j] = c[j]
        BY <1>4
      <4>4. h[a + j] = TransformedChar(h[a + j - 1], text[a + j])
        BY <4>1, <1>3
      <4> QED
        BY <4>2, <4>3, <4>4
    <3>5. h[a + Len(c)] = [half |-> NoDigit, out |-> Append(out, p[k])]
      <4>0. k \in 1 .. Len(p) /\ c = Chunk(p, gaps, {}, k) /\ a \in Nat
        BY <3>2
      <4> HIDE DEF a, out, text, n, c
      <4>1. PICK s \in {0, 1} :
              /\ s = 1 => c[1] = Space
              /\ p[k] = Wild => Len(c) = s + 1 /\ c[s + 1] = Question
              /\ p[k] # Wild => Len(c) = s + 2 /\ c[s + 1] = p[k] \div 16 /\ c[s + 2] = p[k] % 16
        BY <4>0, ChunkParts
      <4>2. \A j \in 1 .. Len(c) : h[a + j] = TransformedChar(h[a + j - 1], c[j])
        BY <3>4
      \* A space, if there is one, leaves no digit waiting.
      <4>3. h[a + s] = [half |-> NoDigit, out |-> out]
        <5>1. CASE s = 0
          BY <5>1, <4>0, <3>1
        <5>2. CASE s = 1
          <6>1. 1 \in 1 .. Len(c) /\ a + 1 - 1 = a
            BY <5>2, <4>0, <4>1
          <6>2. h[a + 1] = TransformedChar(h[a], Space)
            BY <6>1, <5>2, <4>1, <4>2
          <6> QED
            BY <6>2, <5>2, <3>1 DEF TransformedChar, Space, Question
        <5> QED
          BY <5>1, <5>2
      <4>4. CASE p[k] = Wild
        <5>1. s + 1 \in 1 .. Len(c) /\ a + (s + 1) - 1 = a + s /\ Len(c) = s + 1
          BY <4>0, <4>1, <4>4
        <5>2. h[a + (s + 1)] = TransformedChar(h[a + s], Question)
          BY <5>1, <4>1, <4>2, <4>4
        <5>3. TransformedChar([half |-> NoDigit, out |-> out], Question)
                = [half |-> NoDigit, out |-> Append(out, p[k])]
          BY <4>4 DEF TransformedChar
        <5> QED
          BY <5>1, <5>2, <5>3, <4>3
      <4>5. CASE p[k] # Wild
        <5> DEFINE d1 == p[k] \div 16
                   d2 == p[k] % 16
        <5>1. /\ s + 1 \in 1 .. Len(c) /\ a + (s + 1) - 1 = a + s
              /\ s + 2 \in 1 .. Len(c) /\ a + (s + 2) - 1 = a + (s + 1) /\ Len(c) = s + 2
          BY <4>0, <4>1, <4>5
        <5>2. d1 \in 0 .. 15 /\ d2 \in 0 .. 15 /\ 16 * d1 + d2 = p[k]
          BY <4>0, <4>5, ChunkType
        <5>3. h[a + (s + 1)] = TransformedChar(h[a + s], d1)
          BY <5>1, <4>1, <4>2, <4>5
        <5>4. h[a + (s + 2)] = TransformedChar(h[a + (s + 1)], d2)
          BY <5>1, <4>1, <4>2, <4>5
        <5> HIDE DEF d1, d2
        <5>5. TransformedChar([half |-> NoDigit, out |-> out], d1) = [half |-> d1, out |-> out]
          <6>1. d1 # Question
            BY <5>2 DEF Question
          <6> QED
            BY <6>1, <5>2 DEF TransformedChar
        <5>6. TransformedChar([half |-> d1, out |-> out], d2)
                = [half |-> NoDigit, out |-> Append(out, p[k])]
          <6>1. d2 # Question /\ d1 # NoDigit
            BY <5>2 DEF Question, NoDigit
          <6> QED
            BY <6>1, <5>2 DEF TransformedChar
        <5> QED
          BY <5>1, <5>3, <5>4, <5>5, <5>6, <4>3
      <4> QED
        BY <4>4, <4>5
    <3>6. Append(out, p[k]) = SubSeq(p, 1, k)
      OBVIOUS
    <3>7. h[Len(w[k])] = [half |-> NoDigit, out |-> SubSeq(p, 1, k)]
      BY <3>2, <3>5, <3>6
    <3> QED
      BY <3>2, <3>7
  <2>3. T2 \in SUBSET (0 .. n)
    OBVIOUS
  <2> HIDE DEF T2, n
  <2> QED
    BY <2>1, <2>2, <2>3, <1>2, UpTo
<1>7. h[Len(w[n])] = [half |-> NoDigit, out |-> SubSeq(p, 1, n)]
  BY <1>2, <1>6
<1>8. SubSeq(p, 1, n) = p
  OBVIOUS
<1> QED
  BY <1>1, <1>3, <1>7, <1>8

\* The digits and the ends of bytes up to a place, and up to the next one.
LEMMA Prefixes ==
  ASSUME NEW text, NEW j \in Nat
  PROVE  /\ IsFiniteSet(Digits(text, j)) /\ Cardinality(Digits(text, j)) \in Nat
         /\ IsFiniteSet(Ends(text, j)) /\ Cardinality(Ends(text, j)) \in Nat
<1>1. IsFiniteSet(1 .. j)
  BY FS_Interval
<1>2. Digits(text, j) \in SUBSET (1 .. j) /\ Ends(text, j) \in SUBSET (1 .. j)
  BY DEF Digits, Ends
<1>3. IsFiniteSet(Digits(text, j)) /\ IsFiniteSet(Ends(text, j))
  BY <1>1, <1>2, FS_Subset
<1> QED
  BY <1>3, FS_CardinalityType

LEMMA DigitsGrow ==
  ASSUME NEW text, NEW k \in Nat \ {0}
  PROVE  IF text[k] \in 0 .. 15
           THEN /\ Digits(text, k) = Digits(text, k - 1) \union {k}
                /\ Cardinality(Digits(text, k)) = Cardinality(Digits(text, k - 1)) + 1
           ELSE Digits(text, k) = Digits(text, k - 1)
<1>1. k - 1 \in Nat /\ k \notin 1 .. k - 1 /\ 1 .. k = (1 .. k - 1) \union {k}
  OBVIOUS
<1>2. CASE text[k] \in 0 .. 15
  <2>1. Digits(text, k) = Digits(text, k - 1) \union {k} /\ k \notin Digits(text, k - 1)
    BY <1>1, <1>2 DEF Digits
  <2> QED
    BY <2>1, <1>1, <1>2, Prefixes, FS_AddElement
<1>3. CASE text[k] \notin 0 .. 15
  BY <1>1, <1>3 DEF Digits
<1> QED
  BY <1>2, <1>3

LEMMA EndsGrow ==
  ASSUME NEW text, NEW k \in Nat \ {0}
  PROVE  IF \/ text[k] = Question
            \/ text[k] \in 0 .. 15 /\ Cardinality(Digits(text, k)) % 2 = 0
           THEN /\ Ends(text, k) = Ends(text, k - 1) \union {k}
                /\ Cardinality(Ends(text, k)) = Cardinality(Ends(text, k - 1)) + 1
           ELSE Ends(text, k) = Ends(text, k - 1)
<1> DEFINE Here(x) == \/ text[x] = Question
                      \/ text[x] \in 0 .. 15 /\ Cardinality(Digits(text, x)) % 2 = 0
<1>1. k - 1 \in Nat /\ k \notin 1 .. k - 1 /\ 1 .. k = (1 .. k - 1) \union {k}
  OBVIOUS
<1>2. Ends(text, k) = {x \in 1 .. k : Here(x)} /\ Ends(text, k - 1) = {x \in 1 .. k - 1 : Here(x)}
  BY DEF Ends
<1> HIDE DEF Here
<1>3. CASE Here(k)
  <2>1. Ends(text, k) = Ends(text, k - 1) \union {k} /\ k \notin Ends(text, k - 1)
    BY <1>1, <1>2, <1>3
  <2> QED
    BY <2>1, <1>1, <1>3, Prefixes, FS_AddElement DEF Here
<1>4. CASE ~Here(k)
  <2>1. Ends(text, k) = Ends(text, k - 1)
    BY <1>1, <1>2, <1>4
  <2> QED
    BY <2>1, <1>4 DEF Here
<1> QED
  BY <1>3, <1>4

\* The byte or wildcard an end stands for comes at its place among the ends.
LEMMA EndsCounted ==
  ASSUME NEW text, NEW k \in Nat, NEW j \in Ends(text, k)
  PROVE  Cardinality(Ends(text, j)) \in 1 .. Cardinality(Ends(text, k))
<1>1. j \in 1 .. k /\ j \in Ends(text, j) /\ Ends(text, j) \in SUBSET Ends(text, k)
  BY DEF Ends
<1>2. /\ IsFiniteSet(Ends(text, k)) /\ IsFiniteSet(Ends(text, j))
      /\ Cardinality(Ends(text, k)) \in Nat /\ Cardinality(Ends(text, j)) \in Nat
  BY <1>1, Prefixes
<1>3. Cardinality(Ends(text, j)) <= Cardinality(Ends(text, k))
  BY <1>1, <1>2, FS_Subset
<1>4. Cardinality(Ends(text, j)) # 0
  BY <1>1, <1>2, FS_EmptySet
<1> QED
  BY <1>2, <1>3, <1>4

LEMMA Parity ==
  ASSUME NEW n \in Nat
  PROVE  (n + 1) % 2 = 0 <=> n % 2 # 0
OBVIOUS

\* Whatever the text, every second digit ends a byte.
LEMMA AlwaysInOrder ==
  ASSUME NEW text, Len(text) \in Nat
  PROVE  ReadInOrder(text)
<1> DEFINE n == Len(text)
           value == [j \in 1 .. n |-> IF text[j] = Question THEN Wild
                                      ELSE 16 * text[LastDigit(text, j - 1)] + text[j]]
<1>1. PICK h : /\ h[0] = [half |-> NoDigit, out |-> <<>>]
               /\ \A k \in 1 .. n : h[k] = TransformedChar(h[k - 1], text[k])
               /\ TransformPattern(text) = h[n].out
  BY Transformed
<1> DEFINE Ended(k) == /\ Len(h[k].out) = Cardinality(Ends(text, k))
                       /\ \A j \in Ends(text, k) :
                            h[k].out[Cardinality(Ends(text, j))] = value[j]
           Waits(k) == IF Cardinality(Digits(text, k)) % 2 = 0 THEN h[k].half = NoDigit
                       ELSE h[k].half = text[LastDigit(text, k)] /\ h[k].half \in 0 .. 15
           Good(k) == h[k] \in Reading /\ Ended(k) /\ Waits(k)
           T == {k \in 0 .. n : Good(k)}
<1>2. 0 \in T
  <2>1. Digits(text, 0) = {} /\ Ends(text, 0) = {}
    BY DEF Digits, Ends
  <2>2. Cardinality(Digits(text, 0)) = 0 /\ Cardinality(Ends(text, 0)) = 0 /\ 0 % 2 = 0
    BY <2>1, FS_EmptySet
  <2>3. h[0] \in Reading /\ h[0].half = NoDigit /\ Len(h[0].out) = 0
    BY <1>1 DEF Reading, NoDigit
  <2>4. Ended(0)
    BY <2>1, <2>2, <2>3
  <2>5. Waits(0)
    BY <2>2, <2>3
  <2> HIDE DEF Ended, Waits
  <2> QED
    BY <2>3, <2>4, <2>5
<1>3. ASSUME NEW k \in 1 .. n, k - 1 \in T PROVE k \in T
  <2> DEFINE st == h[k - 1]
             ch == text[k]
  <2>1. /\ st \in Reading /\ Ended(k - 1) /\ Waits(k - 1)
        /\ h[k] = TransformedChar(st, ch)
        /\ k \in Nat \ {0} /\ k - 1 \in Nat /\ k \in 0 .. n
    BY <1>1, <1>3
  <2>0. value[k] = IF ch = Question THEN Wild ELSE 16 * text[LastDigit(text, k - 1)] + ch
    OBVIOUS
  <2>2. h[k] \in Reading
    BY <2>1, ReadingType
  <2>3. st.out \in Seq(Int \union {Wild})
    BY <2>1 DEF Reading
  <2>4. Cardinality(Digits(text, k - 1)) \in Nat
    BY <2>1, Prefixes
  <2>8. /\ Len(st.out) = Cardinality(Ends(text, k - 1))
        /\ \A j \in Ends(text, k - 1) : st.out[Cardinality(Ends(text, j))] = value[j]
    BY <2>1
  <2>9. ASSUME Ends(text, k) = Ends(text, k - 1) \union {k},
               Cardinality(Ends(text, k)) = Cardinality(Ends(text, k - 1)) + 1,
               value[k] \in Int \union {Wild}, h[k].out = Append(st.out, value[k])
        PROVE  Ended(k)
    <3> DEFINE before == st.out
               after == h[k].out
    <3>1. /\ before \in Seq(Int \union {Wild}) /\ Len(before) = Cardinality(Ends(text, k - 1))
          /\ \A j \in Ends(text, k - 1) : before[Cardinality(Ends(text, j))] = value[j]
          /\ after = Append(before, value[k]) /\ k \in Nat \ {0}
      BY <2>1, <2>3, <2>8, <2>9
    <3> HIDE DEF before, after
    <3>2. /\ Len(after) = Len(before) + 1 /\ after[Len(before) + 1] = value[k]
          /\ \A x \in 1 .. Len(before) : after[x] = before[x]
      BY <3>1, <2>9
    <3>3. ASSUME NEW j \in Ends(text, k) PROVE after[Cardinality(Ends(text, j))] = value[j]
      <4>1. CASE j = k
        BY <4>1, <3>1, <3>2, <2>9
      <4>2. CASE j # k
        <5>1. j \in Ends(text, k - 1)
          BY <4>2, <2>9
        <5>2. Cardinality(Ends(text, j)) \in 1 .. Len(before)
          BY <5>1, <2>1, <3>1, EndsCounted
        <5> QED
          BY <5>1, <5>2, <3>1, <3>2
      <4> QED
        BY <4>1, <4>2
    <3> QED
      BY <3>1, <3>2, <3>3, <2>9 DEF after
  <2> HIDE DEF st, ch, n, value
  <2>5. CASE ch = Question
    <3>1. ch \notin 0 .. 15
      BY <2>5 DEF Question
    <3>2. h[k].half = st.half /\ h[k].out = Append(st.out, Wild)
      BY <2>1, <2>5 DEF TransformedChar, Reading
    <3>3. Digits(text, k) = Digits(text, k - 1)
      BY <3>1, <2>1, DigitsGrow DEF ch
    <3>4. Waits(k)
      BY <3>2, <3>3, <2>1 DEF LastDigit, st
    <3>5. /\ Ends(text, k) = Ends(text, k - 1) \union {k}
          /\ Cardinality(Ends(text, k)) = Cardinality(Ends(text, k - 1)) + 1
      BY <2>1, <2>5, EndsGrow DEF ch
    <3>6. value[k] = Wild
      BY <2>0, <2>5
    <3>7. Ended(k)
      BY <3>2, <3>5, <3>6, <2>9
    <3> QED
      BY <3>4, <3>7, <2>1, <2>2
  <2>6. CASE ch # Question /\ ch \notin 0 .. 15
    <3>1. h[k] = st
      BY <2>1, <2>6 DEF TransformedChar
    <3>2. Digits(text, k) = Digits(text, k - 1) /\ Ends(text, k) = Ends(text, k - 1)
      BY <2>1, <2>6, DigitsGrow, EndsGrow DEF ch
    <3>3. LastDigit(text, k) = LastDigit(text, k - 1)
      BY <3>2 DEF LastDigit
    <3> QED
      BY <3>1, <3>2, <3>3, <2>1, <2>2 DEF st
  <2>7. CASE ch # Question /\ ch \in 0 .. 15
    <3>1. /\ Digits(text, k) = Digits(text, k - 1) \union {k}
          /\ Cardinality(Digits(text, k)) = Cardinality(Digits(text, k - 1)) + 1
      BY <2>1, <2>7, DigitsGrow DEF ch
    <3>2. CASE Cardinality(Digits(text, k - 1)) % 2 = 0
      <4>1. st.half = NoDigit
        BY <3>2, <2>1 DEF st
      <4>2. h[k].half = ch /\ h[k].out = st.out
        BY <4>1, <2>1, <2>7 DEF TransformedChar, Reading
      <4>3. Cardinality(Digits(text, k)) % 2 # 0
        BY <3>1, <3>2, <2>4, Parity
      <4>4. Ends(text, k) = Ends(text, k - 1)
        BY <4>3, <2>1, <2>7, EndsGrow DEF ch
      <4>5. LastDigit(text, k) = k
        <5>1. k \in Digits(text, k) /\ \A y \in Digits(text, k) : y <= k
          BY <3>1, <2>1 DEF Digits
        <5>2. \A x \in Digits(text, k) : x \in Nat
          BY DEF Digits
        <5> QED
          BY <5>1, <5>2, <2>1 DEF LastDigit
      <4> QED
        BY <4>2, <4>3, <4>4, <4>5, <2>1, <2>2, <2>7 DEF ch, st
    <3>3. CASE Cardinality(Digits(text, k - 1)) % 2 # 0
      <4>1. st.half = text[LastDigit(text, k - 1)] /\ st.half \in 0 .. 15
        BY <3>3, <2>1 DEF st
      <4>2. st.half # NoDigit
        BY <4>1 DEF NoDigit
      <4>3. h[k].half = NoDigit /\ h[k].out = Append(st.out, 16 * st.half + ch)
        BY <4>2, <2>1, <2>7 DEF TransformedChar
      <4>4. Cardinality(Digits(text, k)) % 2 = 0
        BY <3>1, <3>3, <2>4, Parity
      <4>5. /\ Ends(text, k) = Ends(text, k - 1) \union {k}
            /\ Cardinality(Ends(text, k)) = Cardinality(Ends(text, k - 1)) + 1
        BY <4>4, <2>1, <2>7, EndsGrow DEF ch
      <4>6. value[k] = 16 * st.half + ch /\ value[k] \in Int
        <5> HIDE DEF Good
        <5>1. value[k] = 16 * text[LastDigit(text, k - 1)] + ch
          BY <2>0, <2>7
        <5>2. PICK d \in 0 .. 15 : d = st.half
          BY <4>1
        <5>3. PICK c \in 0 .. 15 : c = ch
          BY <2>7
        <5> QED
          BY <5>1, <5>2, <5>3, <4>1
      <4>7. Ended(k)
        BY <4>3, <4>5, <4>6, <2>9
      <4> QED
        BY <4>3, <4>4, <4>7, <2>1, <2>2
    <3> QED
      BY <3>2, <3>3
  <2> QED
    BY <2>5, <2>6, <2>7
<1>4. n \in T
  <2>1. T \in SUBSET (0 .. n) /\ n \in 0 .. n /\ n \in Nat
    OBVIOUS
  <2> HIDE DEF T, n
  <2> QED
    BY <2>1, <1>2, <1>3, UpTo
<1>5. ASSUME NEW j \in Ends(text, n)
      PROVE  value[j] = IF text[j] = Question THEN Wild
                        ELSE 16 * text[LastDigit(text, j - 1)] + text[j]
  <2>1. j \in 1 .. n
    BY DEF Ends
  <2> QED
    BY <2>1
<1> HIDE DEF value
<1> QED
  BY <1>1, <1>4, <1>5 DEF ReadInOrder

LEMMA WrittenInOrder ==
  ASSUME NEW p \in Seq(Byte \union {Wild}), NEW gaps, NEW short
  PROVE  ReadInOrder(Written(p, gaps, short))
<1>1. PICK w : /\ \A k \in 0 .. Len(p) : w[k] \in Seq(Int)
               /\ Written(p, gaps, short) = w[Len(p)]
  BY WrittenText
<1>2. Len(Written(p, gaps, short)) \in Nat
  BY <1>1
<1> QED
  BY <1>2, AlwaysInOrder

(***************************************************************************)
(* However its text is spaced and whichever digits are missing from it, it *)
(* is read in order, and a pattern written in full is read as that pattern *)
(* (TransformPattern, pattern.cc:65).                                      *)
(***************************************************************************)
THEOREM PatternAlwaysAsWritten == Spec => []PatternAsWritten
<1>1. IInv => PatternAsWritten
  <2>1. SUFFICES ASSUME IInv, NEW gaps \in SUBSET (1 .. maskSize),
                        NEW short \in SUBSET (1 .. maskSize)
                 PROVE  /\ ReadInOrder(Written(pattern, gaps, short))
                        /\ TransformPattern(Written(pattern, gaps, {})) = pattern
    BY DEF PatternAsWritten
  <2>2. pattern \in Seq(Byte \union {Wild})
    BY <2>1, DataAssumption DEF IInv, TypeOK
  <2> QED
    BY <2>2, WrittenReads, WrittenInOrder
<1> QED
  BY <1>1, Inductive, PTL DEF Spec

-------------------------------------------------------------------------------
(***************************************************************************)
(* Exports and imports.  Following a forward does not change what Windows  *)
(* answers in the end.                                                     *)
(***************************************************************************)
LEMMA NotForwarded ==
  ASSUME NEW d, NEW w, Entry(d, w).is # "forward"
  PROVE  GetProcAddress(d, w) = IF Entry(d, w).is = "code" THEN <<Entry(d, w).at>> ELSE NULL
<1> DEFINE e == Entry(d, w)
<1>1. e \notin Forwards
  BY DEF Forwards
<1>2. Followed(d, w) = {}
  <2> HIDE DEF e
  <2>1. {} \in SUBSET Forwards /\ (e \in Forwards => e \in {})
    BY <1>1
  <2>2. \A f \in {} : Entry(f.dll, f.want) \in Forwards => Entry(f.dll, f.want) \in {}
    OBVIOUS
  <2>3. ASSUME NEW f \in Followed(d, w) PROVE f \in {}
    BY <2>1, <2>2, <2>3 DEF Followed, e
  <2> QED
    BY <2>3
<1>3. Reached(d, w) = {e}
  BY <1>2 DEF Reached
<1> HIDE DEF e
<1>4. CASE e.is = "code"
  <2>1. {x \in Reached(d, w) : x.is = "code"} = {e}
    BY <1>3, <1>4
  <2>2. (CHOOSE x \in {e} : TRUE) = e /\ {e} # {}
    OBVIOUS
  <2> QED
    BY <2>1, <2>2, <1>4 DEF GetProcAddress, e
<1>5. CASE e.is # "code"
  <2>1. {x \in Reached(d, w) : x.is = "code"} = {}
    BY <1>3, <1>5
  <2> QED
    BY <2>1, <1>5 DEF GetProcAddress, e
<1> QED
  BY <1>4, <1>5

LEMMA Forwarded ==
  ASSUME NEW d, NEW w, Entry(d, w) \in Forwards
  PROVE  /\ GetProcAddress(d, w) = GetProcAddress(Entry(d, w).dll, Entry(d, w).want)
         /\ Loading(Entry(d, w).dll, Entry(d, w).want) \subseteq Loading(d, w)
         /\ Entry(d, w).dll \in Dll => Entry(d, w).dll \in Loading(d, w)
<1> DEFINE e == Entry(d, w)
           d2 == e.dll
           w2 == e.want
           To(f) == Entry(f.dll, f.want)
           On(S) == \A f \in S : To(f) \in Forwards => To(f) \in S
<1>1. ASSUME NEW c, NEW v
      PROVE  /\ Followed(c, v) \in SUBSET Forwards
             /\ \A f \in Forwards :
                  f \in Followed(c, v)
                    <=> \A S \in SUBSET Forwards :
                          (Entry(c, v) \in Forwards => Entry(c, v) \in S) /\ On(S) => f \in S
  BY DEF Followed
<1>2. e \in Forwards /\ e.is = "forward" /\ To(e) = Entry(d2, w2)
  BY DEF Forwards
<1> HIDE DEF e, d2, w2
<1>3. Followed(d, w) = {e} \union Followed(d2, w2)
  <2>1. ASSUME NEW f \in Followed(d, w), f # e PROVE f \in Followed(d2, w2)
    <3>1. SUFFICES ASSUME NEW S \in SUBSET Forwards,
                          To(e) \in Forwards => To(e) \in S, On(S)
                   PROVE  f \in S
      BY <1>1, <1>2, <2>1
    <3>2. S \union {e} \in SUBSET Forwards /\ On(S \union {e}) /\ Entry(d, w) \in S \union {e}
      BY <3>1, <1>2 DEF e
    <3>3. f \in S \union {e}
      BY <3>2, <1>1, <2>1
    <3> QED
      BY <3>3, <2>1
  <2>2. e \in Followed(d, w)
    BY <1>1, <1>2 DEF e
  <2>3. ASSUME NEW f \in Followed(d2, w2) PROVE f \in Followed(d, w)
    <3>1. f \in Forwards
      BY <1>1
    <3>2. SUFFICES ASSUME NEW S \in SUBSET Forwards, e \in S, On(S) PROVE f \in S
      BY <3>1, <1>1, <1>2 DEF e
    <3>3. To(e) \in Forwards => To(e) \in S
      BY <3>2
    <3> QED
      BY <3>1, <3>2, <3>3, <1>1, <1>2
  <2> QED
    BY <2>1, <2>2, <2>3
<1>4. Reached(d, w) = {e} \union Reached(d2, w2)
  <2>1. Reached(d, w) = {e} \union {To(f) : f \in Followed(d, w)}
    BY DEF Reached, e
  <2>2. Reached(d2, w2) = {To(e)} \union {To(f) : f \in Followed(d2, w2)}
    BY <1>2 DEF Reached
  <2> HIDE DEF To
  <2> QED
    BY <2>1, <2>2, <1>3
<1> DEFINE Codes(c, v) == {x \in Reached(c, v) : x.is = "code"}
           Answer(code) == IF code = {} THEN NULL ELSE <<(CHOOSE x \in code : TRUE).at>>
<1>5. Codes(d, w) = Codes(d2, w2)
  BY <1>2, <1>4
<1>6. GetProcAddress(d, w) = GetProcAddress(d2, w2)
  <2>1. \A c, v : GetProcAddress(c, v) = Answer(Codes(c, v))
    BY DEF GetProcAddress
  <2> HIDE DEF Codes, Answer
  <2> QED
    BY <2>1, <1>5
<1>7. Loading(d2, w2) \subseteq Loading(d, w) /\ (d2 \in Dll => d2 \in Loading(d, w))
  <2>1. \A c, v : Loading(c, v) = {f.dll : f \in Followed(c, v)} \intersect Dll
    BY DEF Loading
  <2> QED
    BY <2>1, <1>3 DEF d2
<1> QED
  BY <1>6, <1>7 DEF e, d2, w2

\* Windows looks at no more of a request than how and for what it asks.
LEMMA SameRequest ==
  ASSUME NEW d, NEW v, NEW w, v.by = w.by, v.of = w.of
  PROVE  GetProcAddress(d, v) = GetProcAddress(d, w)
<1>1. Entry(d, v) = Entry(d, w)
  BY DEF Entry
<1> QED
  BY <1>1 DEF GetProcAddress, Reached, Followed

LEMMA NotLoaded ==
  ASSUME NEW d, NEW w, d \notin Dll
  PROVE  Entry(d, w) = Nowhere /\ GetProcAddress(d, w) = NULL
<1>1. Entry(d, w) = Nowhere
  BY DEF Entry
<1>2. Nowhere.is = "nowhere"
  BY DEF Nowhere
<1> QED
  BY <1>1, <1>2, NotForwarded

\* What was asked for is what Windows finds here, and nothing more has to be loaded.
Leads(d, w) ==
  /\ GetProcAddress(d, w) = GetProcAddress(request.dll, request.want)
  /\ Loading(d, w) \subseteq Loading(request.dll, request.want)

\* The call that is under way gets what was asked for, and the search for a name has
\* it between left_index and right_index, if the module exports it.
Wanted(k) == exports[dll].names[k] = want.of
CallInv ==
  /\ exports \in ExportTables /\ imports \in ImportTables /\ loaded \subseteq Dll
  /\ pepc \in {"idle", "search", "resolve", "walk", "done"}
  /\ pepc = "idle" => request.op = "none"
  /\ pepc \in {"search", "resolve"} =>
       /\ request.op = "proc" /\ dll \in loaded /\ Leads(dll, want)
  /\ pepc = "search" =>
       /\ want.by # "ordinal" /\ want.of \in Int
       /\ left_index \in Nat /\ right_index \in Int /\ right_index < Len(exports[dll].names)
       /\ \/ /\ ordinal_index = -1
             /\ \A k \in DOMAIN exports[dll].names :
                  Wanted(k) => k \in left_index + 1 .. right_index + 1
          \/ /\ left_index > right_index
             /\ \E k \in DOMAIN exports[dll].names :
                  Wanted(k) /\ ordinal_index = exports[dll].ordinals[k]
  /\ pepc = "resolve" => Resolved = Entry(dll, want)
  /\ ExportFound

\* Imports that were walked past are not the one that is looked for.
Means(k, x) == GetProcAddress(imports[k].dll, imports[k].thunks[x])
WalkInv ==
  /\ pepc = "walk" =>
       /\ request.op = "iat" /\ target # NULL /\ result = NULL
       /\ descriptor \in Nat \ {0} /\ thunk \in Nat \ {0}
       /\ ByOrdinal =>
            \A k \in DOMAIN imports : imports[k].dll = request.dll =>
              \A x \in DOMAIN imports[k].thunks :
                k < descriptor \/ (k = descriptor /\ x < thunk) => Means(k, x) # target
  /\ pepc = "done" /\ request.op = "iat" /\ ByOrdinal =>
       IF result # NULL
         THEN imports[result[1]].dll = request.dll /\ Means(result[1], result[2]) = target
         ELSE target # NULL =>
                \A k \in DOMAIN imports : imports[k].dll = request.dll =>
                  \A x \in DOMAIN imports[k].thunks : Means(k, x) # target

PeInv == CallInv /\ WalkInv

LEMMA PeInitInv == PeInit => PeInv
BY DllAssumption DEF PeInit, PeInv, CallInv, WalkInv, ExportFound

\* What a table's assumptions say of the module that is searched.
LEMMA Tables ==
  ASSUME exports \in ExportTables, NEW d \in Dll
  PROVE  /\ exports[d].names \in Seq(Int) /\ exports[d].ordinals \in Seq(Int)
         /\ exports[d].base \in Int
         /\ Len(exports[d].ordinals) = Len(exports[d].names)
         /\ Len(exports[d].functions) \in Nat
         /\ DOMAIN exports[d].functions = 1 .. Len(exports[d].functions)
         /\ \A j, k \in DOMAIN exports[d].names :
              exports[d].names[j] = exports[d].names[k] => j = k
         /\ \A j, k \in DOMAIN exports[d].names :
              j < k => exports[d].names[j] < exports[d].names[k]
<1> DEFINE ns == exports[d].names
<1>1. /\ ns \in Seq(Int) /\ exports[d].ordinals \in Seq(Int)
      /\ exports[d].base \in Int
      /\ Len(exports[d].ordinals) = Len(ns)
      /\ Len(exports[d].functions) \in Nat
      /\ DOMAIN exports[d].functions = 1 .. Len(exports[d].functions)
      /\ \A j, k \in DOMAIN ns : j < k => ns[j] < ns[k]
  BY TableAssumption
<1> HIDE DEF ns
<1>2. ASSUME NEW j \in DOMAIN ns, NEW k \in DOMAIN ns, ns[j] = ns[k] PROVE j = k
  <2>1. j \in Int /\ k \in Int /\ ns[j] \in Int /\ ns[k] \in Int
    BY <1>1
  <2>2. ~(j < k) /\ ~(k < j)
    BY <2>1, <1>1, <1>2
  <2> QED
    BY <2>1, <2>2
<1> QED
  BY <1>1, <1>2 DEF ns

\* The function an entry of the table of names or an ordinal stands for.
At(d, index) ==
  IF index \in 0 .. Len(exports[d].functions) - 1 THEN exports[d].functions[index + 1] ELSE Nowhere

LEMMA Entries ==
  ASSUME exports \in ExportTables, NEW d \in Dll, NEW w
  PROVE  /\ w.by = "ordinal" =>
              Entry(d, w) = IF w.of = 0 THEN Nowhere ELSE At(d, w.of - exports[d].base)
         /\ w.by # "ordinal" =>
              /\ \A k \in DOMAIN exports[d].names :
                   exports[d].names[k] = w.of => Entry(d, w) = At(d, exports[d].ordinals[k])
              /\ (\A k \in DOMAIN exports[d].names : exports[d].names[k] # w.of)
                   => Entry(d, w) = Nowhere
<1>1. CASE w.by = "ordinal"
  BY <1>1 DEF Entry, At
<1>2. ASSUME w.by # "ordinal", NEW k \in DOMAIN exports[d].names, exports[d].names[k] = w.of
      PROVE  Entry(d, w) = At(d, exports[d].ordinals[k])
  <2> DEFINE c == CHOOSE j \in DOMAIN exports[d].names : exports[d].names[j] = w.of
  <2>1. c \in DOMAIN exports[d].names /\ exports[d].names[c] = w.of
    BY <1>2
  <2>2. Entry(d, w) = At(d, exports[d].ordinals[c])
    BY <1>2 DEF Entry, At
  <2> HIDE DEF c
  <2>3. c = k
    BY <2>1, <1>2, Tables
  <2> QED
    BY <2>2, <2>3
<1>3. ASSUME w.by # "ordinal", \A k \in DOMAIN exports[d].names : exports[d].names[k] # w.of
      PROVE  Entry(d, w) = Nowhere
  BY <1>3 DEF Entry
<1> QED
  BY <1>1, <1>2, <1>3

\* A request that is forwarded is for a number too.
LEMMA EntryWants ==
  ASSUME exports \in ExportTables, NEW d \in Dll, NEW w, Entry(d, w).is = "forward"
  PROVE  Entry(d, w) \in Forwards /\ Entry(d, w).want.of \in Int
<1>1. Nowhere.is # "forward"
  BY DEF Nowhere
<1>2. PICK k \in DOMAIN exports[d].functions : Entry(d, w) = exports[d].functions[k]
  <2>1. PICK index : Entry(d, w) = At(d, index)
    <3>1. CASE w.by = "ordinal"
      BY <3>1, <1>1, Entries
    <3>2. CASE w.by # "ordinal"
      BY <3>2, <1>1, Entries
    <3> QED
      BY <3>1, <3>2
  <2>2. index \in 0 .. Len(exports[d].functions) - 1 /\ At(d, index) = exports[d].functions[index + 1]
    BY <2>1, <1>1 DEF At
  <2>3. index + 1 \in DOMAIN exports[d].functions
    BY <2>2, Tables
  <2> QED
    BY <2>1, <2>2, <2>3
<1> QED
  BY <1>2, TableAssumption DEF Forwards

\* What Windows answers changes with the export tables only.
LEMMA Unmoved ==
  ASSUME exports' = exports
  PROVE  \A d, w : /\ Entry(d, w)' = Entry(d, w)
                  /\ GetProcAddress(d, w)' = GetProcAddress(d, w)
                  /\ Loading(d, w)' = Loading(d, w)
<1>1. \A d, w : Entry(d, w)' = Entry(d, w)
  BY DEF Entry
<1>2. Forwards' = Forwards
  BY DEF Forwards
<1>3. ASSUME NEW d, NEW w
      PROVE  GetProcAddress(d, w)' = GetProcAddress(d, w) /\ Loading(d, w)' = Loading(d, w)
  <2>1. Followed(d, w)' = Followed(d, w)
    BY <1>1, <1>2 DEF Followed
  <2>2. Reached(d, w)' = Reached(d, w)
    BY <1>1, <2>1 DEF Reached
  <2> QED
    BY <2>1, <2>2 DEF GetProcAddress, Loading
<1> QED
  BY <1>1, <1>3

\* Nor does what a request leads to.
LEMMA LeadsStill ==
  ASSUME UNCHANGED <<exports, request>>
  PROVE  \A d, w : Leads(d, w)' = Leads(d, w)
<1>1. ASSUME NEW d, NEW w
      PROVE  /\ GetProcAddress(d, w)' = GetProcAddress(d, w)
             /\ Loading(d, w)' = Loading(d, w)
             /\ GetProcAddress(request.dll, request.want)' = GetProcAddress(request.dll, request.want)
             /\ Loading(request.dll, request.want)' = Loading(request.dll, request.want)
  BY Unmoved
<1> QED
  BY <1>1 DEF Leads

LEMMA Calling ==
  ASSUME exports \in ExportTables, exports' = exports, imports \in ImportTables,
         imports' = imports, loaded \subseteq Dll, loaded' = loaded,
         NEW d \in loaded, NEW w, w.of \in Int, Called(d, w),
         request'.op = "proc", Leads(d, w)'
  PROVE  PeInv'
<1> d \in Dll
  OBVIOUS
<1>1. exports[d].names \in Seq(Int) /\ exports[d].base \in Int
  BY Tables
<1>2. /\ dll' = d /\ want' = w /\ pepc' \in {"search", "resolve"}
      /\ left_index' = 0 /\ right_index' = Len(exports[d].names) - 1
  BY DEF Called
<1>3. Leads(dll, want)'
  BY <1>2
<1>4. pepc' = "search" =>
        /\ w.by # "ordinal" /\ ordinal_index' = -1
        /\ left_index' \in Nat /\ right_index' \in Int /\ right_index' < Len(exports[d].names)
        /\ \A k \in DOMAIN exports[d].names : k \in left_index' + 1 .. right_index' + 1
  BY <1>1, <1>2 DEF Called
<1>5. pepc' = "resolve" => Resolved' = Entry(dll, want)'
  <2>1. SUFFICES ASSUME pepc' = "resolve" PROVE Resolved' = Entry(dll, want)'
    OBVIOUS
  <2>2. w.by = "ordinal" /\ ordinal_index' = IF w.of = 0 THEN -1 ELSE w.of - exports[d].base
    BY <2>1 DEF Called
  <2>3. Entry(d, w) = IF w.of = 0 THEN Nowhere ELSE At(d, w.of - exports[d].base)
    BY <2>2, Entries
  <2>4. At(d, -1) = Nowhere
    BY Tables DEF At
  <2>5. Resolved' = At(d, ordinal_index')
    BY <1>2 DEF At, Resolved
  <2>6. Resolved' = Entry(d, w)
    BY <2>2, <2>3, <2>4, <2>5
  <2> QED
    BY <2>6, <1>2, Unmoved
<1>6. CallInv'
  BY <1>2, <1>3, <1>4, <1>5 DEF CallInv, Wanted, ExportFound
<1>7. WalkInv'
  BY <1>2 DEF WalkInv
<1> QED
  BY <1>6, <1>7 DEF PeInv

\* A name that is not here is before or behind cur, where the names ascend.
LEMMA CompareNameStep == PeInv /\ CompareName => PeInv'
<1> SUFFICES ASSUME PeInv, CompareName PROVE PeInv'
  OBVIOUS
<1> DEFINE ns == exports[dll].names
           cur == (left_index + right_index) \div 2
<1>1. /\ pepc = "search" /\ left_index <= right_index /\ exports \in ExportTables /\ dll \in Dll
      /\ Leads(dll, want)
      /\ want.of \in Int /\ left_index \in Nat /\ right_index \in Int /\ right_index < Len(ns)
      /\ want.by # "ordinal"
  BY DEF PeInv, CallInv, CompareName, MoreNames
<1>2. /\ UNCHANGED <<exports, imports, loaded, request, pepc, dll, want, result>>
      /\ \/ /\ ns[cur + 1] = want.of
            /\ ordinal_index' = exports[dll].ordinals[cur + 1]
            /\ left_index' = right_index + 1 /\ UNCHANGED right_index
         \/ ns[cur + 1] > want.of /\ right_index' = cur - 1 /\ UNCHANGED <<left_index, ordinal_index>>
         \/ ns[cur + 1] < want.of /\ left_index' = cur + 1 /\ UNCHANGED <<right_index, ordinal_index>>
  BY DEF CompareName, Above
<1>3. /\ ns \in Seq(Int) /\ Len(ns) \in Nat /\ DOMAIN ns = 1 .. Len(ns)
      /\ \A j, k \in DOMAIN ns : j < k => ns[j] < ns[k]
  BY <1>1, Tables
<1>4. cur \in Int /\ left_index <= cur /\ cur <= right_index
  BY <1>1
<1>5. Leads(dll, want)'
  BY <1>1, <1>2, LeadsStill
<1>6. ExportFound'
  BY <1>1, <1>2 DEF ExportFound
<1>7. /\ ordinal_index = -1
      /\ \A k \in DOMAIN ns : ns[k] = want.of => k \in left_index + 1 .. right_index + 1
  BY <1>1 DEF PeInv, CallInv, Wanted
<1> HIDE DEF cur
<1>8. cur + 1 \in DOMAIN ns /\ ns[cur + 1] \in Int
  BY <1>1, <1>3, <1>4
<1> HIDE DEF ns
<1>9. /\ left_index' \in Nat /\ right_index' \in Int /\ right_index' < Len(ns)
      /\ \/ /\ ordinal_index' = -1
            /\ \A k \in DOMAIN ns : ns[k] = want.of => k \in left_index' + 1 .. right_index' + 1
         \/ /\ left_index' > right_index'
            /\ \E k \in DOMAIN ns : ns[k] = want.of /\ ordinal_index' = exports[dll].ordinals[k]
  <2>1. CASE /\ ns[cur + 1] = want.of
             /\ ordinal_index' = exports[dll].ordinals[cur + 1]
             /\ left_index' = right_index + 1 /\ UNCHANGED right_index
    BY <2>1, <1>1, <1>4, <1>8
  <2>2. CASE ns[cur + 1] > want.of /\ right_index' = cur - 1 /\ UNCHANGED <<left_index, ordinal_index>>
    <3>1. ASSUME NEW k \in DOMAIN ns, ns[k] = want.of PROVE k \in left_index + 1 .. cur
      <4>1. k \in Int /\ ns[k] < ns[cur + 1] /\ k # cur + 1
        BY <1>1, <1>3, <1>8, <2>2, <3>1
      <4>2. ~(cur + 1 < k)
        BY <4>1, <1>1, <1>3, <1>8, <3>1
      <4> QED
        BY <4>1, <4>2, <1>4, <1>7, <3>1
    <3>2. cur - 1 + 1 = cur /\ cur - 1 \in Int /\ cur - 1 < Len(ns)
      BY <1>1, <1>3, <1>4
    <3> QED
      BY <3>1, <3>2, <2>2, <1>1, <1>7
  <2>3. CASE ns[cur + 1] < want.of /\ left_index' = cur + 1 /\ UNCHANGED <<right_index, ordinal_index>>
    <3>1. ASSUME NEW k \in DOMAIN ns, ns[k] = want.of PROVE k \in cur + 1 + 1 .. right_index + 1
      <4>1. k \in Int /\ ns[cur + 1] < ns[k] /\ k # cur + 1
        BY <1>1, <1>3, <1>8, <2>3, <3>1
      <4>2. ~(k < cur + 1)
        BY <4>1, <1>1, <1>3, <1>8, <3>1
      <4> QED
        BY <4>1, <4>2, <1>1, <1>4, <1>7, <3>1
    <3>2. cur + 1 \in Nat
      BY <1>1, <1>4
    <3> QED
      BY <3>1, <3>2, <2>3, <1>1, <1>7
  <2> QED
    BY <1>2, <2>1, <2>2, <2>3
<1>10. CallInv'
  BY <1>1, <1>2, <1>5, <1>6, <1>9 DEF PeInv, CallInv, Wanted, ns
<1>11. WalkInv'
  BY <1>1, <1>2 DEF WalkInv
<1> QED
  BY <1>10, <1>11 DEF PeInv

\* The search has come to the function, or to none.
LEMMA NameSearchedStep == PeInv /\ NameSearched => PeInv'
<1> SUFFICES ASSUME PeInv, NameSearched PROVE PeInv'
  OBVIOUS
<1> DEFINE ns == exports[dll].names
<1>1. /\ pepc = "search" /\ ~(left_index <= right_index) /\ exports \in ExportTables /\ dll \in Dll
      /\ want.by # "ordinal" /\ left_index \in Nat /\ right_index \in Int
      /\ pepc' = "resolve" /\ Leads(dll, want)
      /\ UNCHANGED <<exports, imports, loaded, request, dll, want, ordinal_index, result>>
  BY DEF PeInv, CallInv, NameSearched, MoreNames, searchvars
<1>2. Leads(dll, want)'
  BY <1>1, LeadsStill
<1>3. ExportFound'
  BY <1>1 DEF ExportFound
<1>4. Resolved = Entry(dll, want)
  <2>1. Resolved = At(dll, ordinal_index)
    BY DEF Resolved, At
  <2>2. CASE \E k \in DOMAIN ns : ns[k] = want.of /\ ordinal_index = exports[dll].ordinals[k]
    BY <2>1, <2>2, <1>1, Entries
  <2>3. CASE /\ ordinal_index = -1
             /\ \A k \in DOMAIN ns : ns[k] = want.of => k \in left_index + 1 .. right_index + 1
    <3>1. \A k \in DOMAIN ns : ns[k] # want.of
      BY <2>3, <1>1
    <3>2. Entry(dll, want) = Nowhere
      BY <3>1, <1>1, Entries
    <3>3. Len(exports[dll].functions) \in Nat
      BY <1>1, Tables
    <3>4. At(dll, ordinal_index) = Nowhere
      BY <2>3, <3>3 DEF At
    <3> QED
      BY <2>1, <3>2, <3>4
  <2> QED
    BY <2>2, <2>3, <1>1 DEF PeInv, CallInv, Wanted
<1>5. Resolved' = Resolved /\ Entry(dll, want)' = Entry(dll, want)
  BY <1>1, Unmoved DEF Resolved
<1>6. CallInv'
  BY <1>1, <1>2, <1>3, <1>4, <1>5 DEF PeInv, CallInv
<1>7. WalkInv'
  BY <1>1 DEF WalkInv
<1> QED
  BY <1>6, <1>7 DEF PeInv

LEMMA ReturnAddressStep == PeInv /\ ReturnAddress => PeInv'
<1> SUFFICES ASSUME PeInv, ReturnAddress PROVE PeInv'
  OBVIOUS
<1>1. /\ pepc = "resolve" /\ exports \in ExportTables /\ dll \in Dll /\ Resolved = Entry(dll, want)
      /\ request.op = "proc" /\ pepc' = "done" /\ UNCHANGED <<exports, imports, loaded, request>>
      /\ Leads(dll, want) /\ loaded \subseteq Dll
      /\ result' = IF Resolved.is = "code" THEN <<Resolved.at>> ELSE NULL
      /\ Resolved.is = "forward" => Resolved.dll \notin loaded
  BY DEF PeInv, CallInv, ReturnAddress
<1>2. /\ GetProcAddress(request.dll, request.want)' = GetProcAddress(request.dll, request.want)
      /\ Loading(request.dll, request.want)' = Loading(request.dll, request.want)
  BY <1>1, Unmoved
<1>3. IF Loading(dll, want) \subseteq loaded THEN result' = GetProcAddress(dll, want)
      ELSE result' \in {NULL, GetProcAddress(dll, want)}
  <2>1. CASE Resolved.is # "forward"
    BY <2>1, <1>1, NotForwarded
  <2>2. CASE Resolved.is = "forward"
    <3>1. /\ GetProcAddress(dll, want) = GetProcAddress(Resolved.dll, Resolved.want)
          /\ Resolved.dll \in Dll => Resolved.dll \in Loading(dll, want)
      BY <2>2, <1>1, EntryWants, Forwarded
    <3>2. result' = NULL
      BY <2>2, <1>1
    <3>3. CASE Resolved.dll \notin Dll
      BY <3>1, <3>2, <3>3, NotLoaded
    <3>4. CASE Resolved.dll \in Dll
      BY <3>1, <3>2, <3>4, <2>2, <1>1
    <3> QED
      BY <3>3, <3>4
  <2> QED
    BY <2>1, <2>2
<1>10. ExportFound'
  BY <1>1, <1>2, <1>3 DEF Leads, ExportFound
<1>4. CallInv'
  BY <1>1, <1>10 DEF PeInv, CallInv
<1>5. WalkInv'
  BY <1>1 DEF WalkInv
<1> QED
  BY <1>4, <1>5 DEF PeInv

LEMMA FollowForwardStep == PeInv /\ FollowForward => PeInv'
<1> SUFFICES ASSUME PeInv, FollowForward PROVE PeInv'
  OBVIOUS
<1>1. /\ pepc = "resolve" /\ exports \in ExportTables /\ dll \in Dll /\ Resolved = Entry(dll, want)
      /\ imports \in ImportTables /\ request.op = "proc"
      /\ UNCHANGED <<exports, imports, loaded, request>>
      /\ Leads(dll, want) /\ loaded \subseteq Dll
      /\ Resolved.is = "forward" /\ Resolved.dll \in loaded
      /\ Called(Resolved.dll, Resolved.want)
  BY DEF PeInv, CallInv, FollowForward
<1>2. Resolved.want.of \in Int
  BY <1>1, EntryWants
<1>3. Leads(Resolved.dll, Resolved.want)
  BY <1>1, EntryWants, Forwarded DEF Leads
<1>4. PICK d, w : d \in loaded /\ d = Resolved.dll /\ w = Resolved.want
  BY <1>1
<1>5. Leads(d, w)'
  BY <1>1, <1>3, <1>4, LeadsStill
<1> QED
  BY <1>1, <1>2, <1>4, <1>5, Calling

LEMMA ProcStep ==
  ASSUME PeInv, NEW d \in loaded, NEW w \in Requests, InternalGetProcAddress(d, w) PROVE PeInv'
<1>1. /\ exports \in ExportTables /\ imports \in ImportTables /\ w.of \in Int
      /\ UNCHANGED <<exports, imports, loaded>> /\ Called(d, w) /\ loaded \subseteq Dll
      /\ request' = [op |-> "proc", dll |-> d, want |-> w]
  BY RequestAssumption DEF PeInv, CallInv, InternalGetProcAddress
<1>2. Leads(d, w)'
  BY <1>1 DEF Leads
<1> QED
  BY <1>1, <1>2, Calling

LEMMA IatStep ==
  ASSUME PeInv, NEW d, NEW w, get_iat_entry(d, w) PROVE PeInv'
<1>1. /\ exports' = exports /\ imports' = imports
      /\ request' = [op |-> "iat", dll |-> d, want |-> w]
      /\ descriptor' = 1 /\ thunk' = 1 /\ result' = NULL
      /\ \/ pepc' = "done" /\ target' = NULL /\ loaded' = loaded
         \/ /\ target' = GetProcAddress(d, w) /\ loaded' = loaded \union Loading(d, w)
            /\ pepc' = IF target' = NULL THEN "done" ELSE "walk"
  BY DEF get_iat_entry
<1>2. CallInv'
  <2>1. loaded' \subseteq Dll
    BY <1>1 DEF PeInv, CallInv, Loading
  <2> QED
    BY <2>1, <1>1 DEF PeInv, CallInv, ExportFound
<1>3. pepc' = "done" => target' = NULL
  BY <1>1
<1>4. imports' \in ImportTables
  BY <1>1 DEF PeInv, CallInv
<1>5. ASSUME pepc' = "walk"
      PROVE  \A k \in DOMAIN imports' : \A x \in DOMAIN imports'[k].thunks :
               ~(k < descriptor' \/ (k = descriptor' /\ x < thunk'))
  <2>1. \A k \in DOMAIN imports' : k \in Nat \ {0}
    BY <1>4, ImportAssumption
  <2>2. \A k \in DOMAIN imports' : \A x \in DOMAIN imports'[k].thunks : x \in Nat \ {0}
    BY <1>4, ImportAssumption
  <2> QED
    BY <1>1, <2>1, <2>2
<1>6. WalkInv'
  BY <1>1, <1>3, <1>5 DEF WalkInv
<1> QED
  BY <1>2, <1>6 DEF PeInv

\* What stays the same while the imports are walked.
LEMMA WalkSame ==
  ASSUME UNCHANGED <<exports, imports, request, target>>
  PROVE  /\ ByOrdinal' = ByOrdinal
         /\ \A k, x : Means(k, x)' = Means(k, x)
<1>1. ByOrdinal' = ByOrdinal
  BY DEF ByOrdinal
<1>2. ASSUME NEW k, NEW x PROVE Means(k, x)' = Means(k, x)
  <2>1. PICK d, w : d = imports[k].dll /\ w = imports[k].thunks[x]
    OBVIOUS
  <2>2. d = imports'[k].dll /\ w = imports'[k].thunks[x]
    BY <2>1
  <2> QED
    BY <2>1, <2>2, Unmoved DEF Means
<1> QED
  BY <1>1, <1>2

\* The inductive invariant while the walk goes on.
LEMMA Walked ==
  ASSUME PeInv, pepc = "walk", pepc' \in {"walk", "done"}, loaded' \subseteq Dll,
         UNCHANGED <<exports, imports, request, target>>
  PROVE  CallInv'
BY DEF PeInv, CallInv, WalkInv, ExportFound

LEMMA NextDescriptorStep == PeInv /\ NextDescriptor => PeInv'
<1> SUFFICES ASSUME PeInv, NextDescriptor PROVE PeInv'
  OBVIOUS
<1>1. /\ pepc = "walk" /\ pepc' = "walk" /\ descriptor <= Len(imports)
      /\ imports[descriptor].dll # request.dll \/ thunk > Len(imports[descriptor].thunks)
      /\ descriptor' = descriptor + 1 /\ thunk' = 1
      /\ UNCHANGED <<exports, imports, loaded, request, target, result>>
  BY DEF NextDescriptor, NextThunk
<1>2. CallInv'
  BY <1>1, Walked DEF PeInv, CallInv
<1>3. /\ imports \in ImportTables /\ request.op = "iat" /\ target # NULL /\ result = NULL
      /\ descriptor \in Nat \ {0} /\ thunk \in Nat \ {0}
  BY <1>1 DEF PeInv, CallInv, WalkInv
<1>4. ASSUME ByOrdinal, NEW k \in DOMAIN imports, imports[k].dll = request.dll,
             NEW x \in DOMAIN imports[k].thunks,
             k < descriptor + 1 \/ (k = descriptor + 1 /\ x < 1)
      PROVE  Means(k, x) # target
  <2>1. /\ k \in Nat \ {0} /\ x \in Nat \ {0} /\ Len(imports[k].thunks) \in Nat
        /\ x <= Len(imports[k].thunks)
    BY <1>3, ImportAssumption
  <2>2. k < descriptor \/ k = descriptor
    BY <1>3, <1>4, <2>1
  <2>3. CASE k = descriptor
    <3>1. x < thunk
      BY <1>1, <1>3, <1>4, <2>1, <2>3
    <3> QED
      BY <3>1, <2>3, <1>1, <1>4 DEF PeInv, WalkInv
  <2> QED
    BY <2>2, <2>3, <1>1, <1>4 DEF PeInv, WalkInv
<1>5. WalkInv'
  <2>1. descriptor' \in Nat \ {0} /\ thunk' \in Nat \ {0}
    BY <1>1, <1>3
  <2>2. ByOrdinal' = ByOrdinal /\ \A k, x : Means(k, x)' = Means(k, x)
    BY <1>1, WalkSame
  <2> QED
    BY <2>1, <2>2, <1>1, <1>3, <1>4 DEF WalkInv
<1> QED
  BY <1>2, <1>5 DEF PeInv

LEMMA CompareThunkStep == PeInv /\ CompareThunk => PeInv'
<1> SUFFICES ASSUME PeInv, CompareThunk PROVE PeInv'
  OBVIOUS
<1> DEFINE n == ordinal_number(imports[descriptor].thunks[thunk])
           found == GetProcAddress(request.dll, [by |-> "ordinal", of |-> n]) = target
<1>1. /\ pepc = "walk" /\ descriptor <= Len(imports)
      /\ imports[descriptor].dll = request.dll /\ thunk <= Len(imports[descriptor].thunks)
      /\ \/ UNCHANGED <<pepc, result, thunk>>
         \/ found /\ pepc' = "done" /\ result' = <<descriptor, thunk>>
         \/ ~found /\ thunk' = thunk + 1 /\ UNCHANGED <<pepc, result>>
      /\ UNCHANGED <<exports, imports, request, target, descriptor>>
      /\ loaded' \subseteq Dll
  BY DEF CompareThunk, searchvars, Loading, PeInv, CallInv
<1>2. CallInv'
  BY <1>1, Walked
<1>3. /\ imports \in ImportTables /\ request.op = "iat" /\ target # NULL /\ result = NULL
      /\ descriptor \in Nat \ {0} /\ thunk \in Nat \ {0}
  BY <1>1 DEF PeInv, CallInv, WalkInv
<1>4. ByOrdinal' = ByOrdinal /\ \A k, x : Means(k, x)' = Means(k, x)
  BY <1>1, WalkSame
<1>5. descriptor \in DOMAIN imports /\ thunk \in DOMAIN imports[descriptor].thunks
  BY <1>1, <1>3, ImportAssumption
<1>6. ASSUME ByOrdinal PROVE found <=> Means(descriptor, thunk) = target
  <2>1. /\ imports[descriptor].thunks[thunk].by = "ordinal"
        /\ n = imports[descriptor].thunks[thunk].of
    BY <1>1, <1>5, <1>6 DEF ByOrdinal, ordinal_number
  <2> QED
    BY <2>1, <1>1, SameRequest DEF Means
<1> HIDE DEF n, found
<1>7. CASE UNCHANGED <<pepc, result, thunk>>
  BY <1>1, <1>2, <1>4, <1>7 DEF PeInv, WalkInv
<1>8. CASE found /\ pepc' = "done" /\ result' = <<descriptor, thunk>>
  <2>1. result' # NULL /\ result'[1] = descriptor /\ result'[2] = thunk
    BY <1>8 DEF NULL
  <2> QED
    BY <2>1, <1>1, <1>2, <1>4, <1>6, <1>8 DEF PeInv, WalkInv
<1>9. CASE ~found /\ thunk' = thunk + 1 /\ UNCHANGED <<pepc, result>>
  <2>1. ASSUME ByOrdinal, NEW k \in DOMAIN imports, imports[k].dll = request.dll,
               NEW x \in DOMAIN imports[k].thunks,
               k < descriptor \/ (k = descriptor /\ x < thunk + 1)
        PROVE  Means(k, x) # target
    <3>1. x \in Nat
      BY <1>3, ImportAssumption
    <3>2. k < descriptor \/ (k = descriptor /\ x < thunk) \/ (k = descriptor /\ x = thunk)
      BY <1>3, <2>1, <3>1
    <3> QED
      BY <3>2, <2>1, <1>1, <1>6, <1>9 DEF PeInv, WalkInv
  <2>2. thunk' \in Nat \ {0}
    BY <1>3, <1>9
  <2>3. WalkInv'
    BY <2>1, <2>2, <1>1, <1>3, <1>4, <1>9 DEF WalkInv
  <2> QED
    BY <2>3, <1>2 DEF PeInv
<1> QED
  BY <1>1, <1>2, <1>7, <1>8, <1>9 DEF PeInv

LEMMA EndOfImportsStep == PeInv /\ EndOfImports => PeInv'
<1> SUFFICES ASSUME PeInv, EndOfImports PROVE PeInv'
  OBVIOUS
<1>1. /\ pepc = "walk" /\ pepc' = "done" /\ descriptor > Len(imports)
      /\ UNCHANGED <<exports, imports, loaded, request, target, result>>
  BY DEF EndOfImports, walkvars
<1>2. CallInv'
  BY <1>1, Walked DEF PeInv, CallInv
<1>3. /\ imports \in ImportTables /\ request.op = "iat" /\ result = NULL
      /\ descriptor \in Nat \ {0}
  BY <1>1 DEF PeInv, CallInv, WalkInv
<1>4. ByOrdinal' = ByOrdinal /\ \A k, x : Means(k, x)' = Means(k, x)
  BY <1>1, WalkSame
<1>5. \A k \in DOMAIN imports : k < descriptor
  BY <1>1, <1>3, ImportAssumption
<1>6. WalkInv'
  BY <1>1, <1>3, <1>4, <1>5 DEF PeInv, WalkInv
<1> QED
  BY <1>2, <1>6 DEF PeInv

THEOREM PeInductive == PeSpec => []PeInv
<1>1. PeInv /\ [PeNext]_pevars => PeInv'
  <2> SUFFICES ASSUME PeInv, [PeNext]_pevars PROVE PeInv'
    OBVIOUS
  <2>1. CASE UNCHANGED pevars
    <3>1. UNCHANGED <<exports, imports, loaded, request, target, pepc, dll, want, left_index, right_index,
                      ordinal_index, descriptor, thunk, result>>
      BY <2>1 DEF pevars
    <3>2. Leads(dll, want)' = Leads(dll, want)
      BY <3>1, LeadsStill
    <3>3. ExportFound' = ExportFound
      <4>1. /\ GetProcAddress(request.dll, request.want)' = GetProcAddress(request.dll, request.want)
            /\ Loading(request.dll, request.want)' = Loading(request.dll, request.want)
        BY <3>1, Unmoved
      <4> QED
        BY <4>1, <3>1 DEF ExportFound
    <3>4. Resolved' = Resolved /\ Entry(dll, want)' = Entry(dll, want)
      BY <3>1, Unmoved DEF Resolved
    <3>5. ByOrdinal' = ByOrdinal /\ \A k, x : Means(k, x)' = Means(k, x)
      BY <3>1, WalkSame
    <3>6. CallInv'
      BY <3>1, <3>2, <3>3, <3>4 DEF PeInv, CallInv, Wanted
    <3>7. WalkInv'
      BY <3>1, <3>5 DEF PeInv, WalkInv
    <3> QED
      BY <3>6, <3>7 DEF PeInv
  <2>2. CASE Lookup
    BY <2>2, CompareNameStep, NameSearchedStep, ReturnAddressStep, FollowForwardStep,
       NextDescriptorStep, CompareThunkStep, EndOfImportsStep DEF Lookup
  <2> QED
    BY <2>1, <2>2, ProcStep, IatStep DEF PeNext
<1> QED
  BY <1>1, PeInitInv, PTL DEF PeSpec

\* A function is found by name or ordinal exactly if Windows finds it, at the same
\* address, where the forwards lead to modules that are loaded; where Windows would
\* load one, it is that address or NULL (InternalGetProcAddress, nt.cc:153 and 254).
THEOREM ExportAlwaysFound == PeSpec => []ExportFound
<1>1. PeInv => ExportFound
  BY DEF PeInv, CallInv
<1> QED
  BY <1>1, PeInductive, PTL

\* In a module that imports by ordinal, get_iat_entry finds the slot a function is
\* called through, and none for a function that is not imported (nt.cc:281).
THEOREM ImportAlwaysFound == PeSpec => []ImportFound
<1>1. PeInv => ImportFound
  BY DEF PeInv, WalkInv, ImportFound, Means
<1> QED
  BY <1>1, PeInductive, PTL
================================================================================
