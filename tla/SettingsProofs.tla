---------------------------- MODULE SettingsProofs -----------------------------
(***************************************************************************)
(* Proofs about the settings: what the parser makes of a file written by   *)
(* CreateNewConfigFile, however far it came; that the game runs with the   *)
(* defaults until the user writes a file; what the parser makes of any     *)
(* file, told by the text of its lines; that options and lookups obey the  *)
(* file read at launch, whatever the user writes; and that a file written  *)
(* through the parser is read back as it was.                              *)
(***************************************************************************)
EXTENDS Settings, FiniteSetTheorems, SequenceTheorems, WellFoundedInduction, TLAPS

-------------------------------------------------------------------------------
(***************************************************************************)
(* Lines.                                                                  *)
(***************************************************************************)
\* A word is a token that no part of the parser looks for.
Sign == {Semicolon, "#", "//", "[", "]", "=", Space, Tab, "BOM"} \union Quote

LEMMA SignsDiffer ==
  /\ White \intersect {Semicolon, "#", "//", "=", "[", "]", "BOM"} = {} /\ Space \in White
  /\ "=" \notin {Semicolon, "#", "//", "BOM"}
  /\ "[" \notin {Semicolon, "#", "//", "BOM"}
  /\ "]" \notin {Semicolon, "#", "//"}
BY Zenon DEF White, Space, Tab, Semicolon

\* Lines of a few tokens.
LEMMA One ==
  ASSUME NEW T, NEW a \in T
  PROVE  <<a>> \in Seq(T) /\ Len(<<a>>) = 1 /\ DOMAIN <<a>> = 1 .. 1 /\ <<a>> # <<>>
  OBVIOUS

LEMMA Two ==
  ASSUME NEW T, NEW a \in T, NEW b \in T
  PROVE  /\ <<a, b>> \in Seq(T) /\ Len(<<a, b>>) = 2 /\ DOMAIN <<a, b>> = 1 .. 2
         /\ <<a, b>> # <<>> /\ <<a, b>>[1] = a /\ <<a, b>>[2] = b /\ SubSeq(<<a, b>>, 2, 2) = <<b>>
<1> DEFINE s == <<a, b>>
<1>1. s \in Seq(T) /\ Len(s) = 2 /\ DOMAIN s = 1 .. 2 /\ s[1] = a /\ s[2] = b
  OBVIOUS
<1>2. <<b>> \in Seq(T) /\ Len(<<b>>) = 1 /\ <<b>>[1] = b
  OBVIOUS
<1> HIDE DEF s
<1>3. SubSeq(s, 2, 2) \in Seq(T) /\ Len(SubSeq(s, 2, 2)) = 1 /\ SubSeq(s, 2, 2)[1] = b
  BY <1>1
<1> DEFINE u == SubSeq(s, 2, 2)
           r == <<b>>
<1>4. u = r
  <2>1. /\ u \in Seq(T) /\ Len(u) = 1 /\ u[1] = b
        /\ r \in Seq(T) /\ Len(r) = 1 /\ r[1] = b
    BY <1>2, <1>3
  <2> HIDE DEF u, r
  <2> QED
    BY <2>1, SeqEqual
<1>5. s # <<>>
  <2>1. Len(s) # 0
    BY <1>1
  <2> QED
    BY <2>1, EmptySeq
<1> QED
  BY <1>1, <1>4, <1>5 DEF s

IsThree(s, T, a, b, c) ==
  /\ s \in Seq(T) /\ s # <<>> /\ Len(s) = 3 /\ DOMAIN s = 1 .. 3
  /\ s[1] = a /\ s[2] = b /\ s[3] = c
  /\ SubSeq(s, 1, 1) = <<a>> /\ SubSeq(s, 2, 2) = <<b>> /\ SubSeq(s, 3, 3) = <<c>>

LEMMA Three ==
  ASSUME NEW T, NEW a \in T, NEW b \in T, NEW c \in T
  PROVE  IsThree(<<a, b, c>>, T, a, b, c) /\ <<a, b>> \o <<c>> = <<a, b, c>>
<1> DEFINE s == <<a, b, c>>
           t == <<a, b>> \o <<c>>
<1>1. s \in Seq(T) /\ Len(s) = 3 /\ DOMAIN s = 1 .. 3 /\ s[1] = a /\ s[2] = b /\ s[3] = c
  OBVIOUS
<1>2. /\ t \in Seq(T) /\ Len(t) = Len(<<a, b>>) + Len(<<c>>)
      /\ \A i \in 1 .. Len(<<a, b>>) + Len(<<c>>) :
           t[i] = IF i <= Len(<<a, b>>) THEN <<a, b>>[i] ELSE <<c>>[i - Len(<<a, b>>)]
  <2>1. <<a, b>> \in Seq(T) /\ <<c>> \in Seq(T)
    OBVIOUS
  <2> QED
    BY <2>1, ConcatProperties
<1>3. Len(<<a, b>>) = 2 /\ Len(<<c>>) = 1
  BY One, Two
<1>4. t[1] = a /\ t[2] = b /\ t[3] = c /\ Len(t) = 3
  BY <1>2, <1>3
<1>5. \A x : x \in T => <<x>> \in Seq(T) /\ Len(<<x>>) = 1 /\ <<x>>[1] = x
  OBVIOUS
<1> HIDE DEF s, t
<1>6. s # <<>>
  BY <1>1, EmptySeq
<1>7. t = s
  <2>1. \A i \in 1 .. Len(t) : t[i] = s[i]
    BY <1>1, <1>4
  <2> QED
    BY <2>1, <1>1, <1>2, <1>4, SeqEqual
<1>8. ASSUME NEW k \in 1 .. 3 PROVE SubSeq(s, k, k) = <<s[k]>>
  <2>1. s[k] \in T
    BY <1>1
  <2>2. SubSeq(s, k, k) \in Seq(T) /\ Len(SubSeq(s, k, k)) = 1 /\ SubSeq(s, k, k)[1] = s[k]
    BY <1>1
  <2> DEFINE u == SubSeq(s, k, k)
             r == <<s[k]>>
  <2>3. /\ u \in Seq(T) /\ Len(u) = 1 /\ u[1] = s[k]
        /\ r \in Seq(T) /\ Len(r) = 1 /\ r[1] = s[k]
    BY <2>1, <2>2, <1>5
  <2> HIDE DEF u, r
  <2>4. u = r
    BY <2>3, SeqEqual
  <2> QED
    BY <2>4 DEF u, r
<1>9. SubSeq(s, 1, 1) = <<a>> /\ SubSeq(s, 2, 2) = <<b>> /\ SubSeq(s, 3, 3) = <<c>>
  BY <1>1, <1>8
<1> QED
  BY <1>1, <1>6, <1>7, <1>9 DEF s, t, IsThree

IsFour(s, T, a, b, c, d) ==
  /\ s \in Seq(T) /\ s # <<>> /\ Len(s) = 4 /\ DOMAIN s = 1 .. 4
  /\ s[1] = a /\ s[2] = b /\ s[3] = c /\ s[4] = d
  /\ SubSeq(s, 1, 1) = <<a>> /\ SubSeq(s, 3, 4) = <<c, d>>

LEMMA Four ==
  ASSUME NEW T, NEW a \in T, NEW b \in T, NEW c \in T, NEW d \in T
  PROVE  IsFour(<<a, b, c, d>>, T, a, b, c, d) /\ <<a, b>> \o <<c, d>> = <<a, b, c, d>>
<1> DEFINE s == <<a, b, c, d>>
           t == <<a, b>> \o <<c, d>>
           u == <<c, d>>
<1>1. /\ s \in Seq(T) /\ Len(s) = 4 /\ DOMAIN s = 1 .. 4
      /\ s[1] = a /\ s[2] = b /\ s[3] = c /\ s[4] = d
  OBVIOUS
<1>2. /\ t \in Seq(T) /\ Len(t) = Len(<<a, b>>) + Len(<<c, d>>)
      /\ \A i \in 1 .. Len(<<a, b>>) + Len(<<c, d>>) :
           t[i] = IF i <= Len(<<a, b>>) THEN <<a, b>>[i] ELSE <<c, d>>[i - Len(<<a, b>>)]
  <2>1. <<a, b>> \in Seq(T) /\ <<c, d>> \in Seq(T)
    OBVIOUS
  <2> QED
    BY <2>1, ConcatProperties
<1>3. Len(<<a, b>>) = 2 /\ Len(<<c, d>>) = 2
  BY Two
<1>4. t[1] = a /\ t[2] = b /\ t[3] = c /\ t[4] = d /\ Len(t) = 4
  BY <1>2, <1>3
<1>5. /\ <<a>> \in Seq(T) /\ Len(<<a>>) = 1 /\ <<a>>[1] = a
      /\ u \in Seq(T) /\ Len(u) = 2 /\ u[1] = c /\ u[2] = d
  OBVIOUS
<1> HIDE DEF s, t, u
<1>6. s # <<>>
  <2>1. Len(s) # 0
    BY <1>1
  <2> QED
    BY <2>1, EmptySeq
<1>7. t = s
  <2>1. \A i \in 1 .. Len(t) : t[i] = s[i]
    BY <1>1, <1>4
  <2> QED
    BY <2>1, <1>1, <1>2, <1>4, SeqEqual
<1>8. SubSeq(s, 1, 1) = <<a>>
  <2>1. SubSeq(s, 1, 1) \in Seq(T) /\ Len(SubSeq(s, 1, 1)) = 1 /\ SubSeq(s, 1, 1)[1] = a
    BY <1>1
  <2> DEFINE x == SubSeq(s, 1, 1)
             r == <<a>>
  <2>2. /\ x \in Seq(T) /\ Len(x) = 1 /\ x[1] = a
        /\ r \in Seq(T) /\ Len(r) = 1 /\ r[1] = a
    BY <2>1, <1>5
  <2> HIDE DEF x, r
  <2>3. x = r
    BY <2>2, SeqEqual
  <2> QED
    BY <2>3 DEF x, r
<1>9. SubSeq(s, 3, 4) = u
  <2>1. /\ SubSeq(s, 3, 4) \in Seq(T) /\ Len(SubSeq(s, 3, 4)) = 2
        /\ SubSeq(s, 3, 4)[1] = c /\ SubSeq(s, 3, 4)[2] = d
    BY <1>1
  <2>2. \A i \in 1 .. 2 : SubSeq(s, 3, 4)[i] = u[i]
    BY <2>1, <1>5
  <2> QED
    BY <2>1, <2>2, <1>5, SeqEqual
<1> QED
  BY <1>1, <1>6, <1>7, <1>8, <1>9 DEF s, t, u, IsFour

\* Nothing is dropped of what does not begin with it.
LEMMA DropNone ==
  ASSUME NEW T, NEW s \in Seq(T), s # <<>>, NEW t, s[1] \notin t
  PROVE  Dropped(s, t) = s
<1> DEFINE rest == {i \in DOMAIN s : s[i] \notin t}
<1>1. 1 \in rest /\ \A i \in rest : i \in Nat /\ 1 <= i
  OBVIOUS
<1>2. Min(rest) = 1
  <2> HIDE DEF rest
  <2>1. \A x \in rest : (\A y \in rest : x <= y) => x = 1
    BY <1>1
  <2> QED
    BY <1>1, <2>1 DEF Min
<1>3. SubSeq(s, 1, Len(s)) = s
  OBVIOUS
<1> QED
  BY <1>1, <1>2, <1>3 DEF Dropped

LEMMA ReverseTwice ==
  ASSUME NEW T, NEW s \in Seq(T), s # <<>>
  PROVE  /\ Reverse(s) \in Seq(T) /\ Reverse(s) # <<>> /\ Reverse(s)[1] = s[Len(s)]
         /\ Reverse(Reverse(s)) = s
<1>1. Len(s) \in Nat \ {0} /\ s \in [1 .. Len(s) -> T]
  OBVIOUS
<1>2. \A i \in 1 .. Len(s) : Len(s) - i + 1 \in 1 .. Len(s) /\ Len(s) - (Len(s) - i + 1) + 1 = i
  BY <1>1
<1>3. Reverse(s) = [i \in 1 .. Len(s) |-> s[(Len(s) - i) + 1]]
  BY DEF Reverse
<1>4. Reverse(s) \in Seq(T) /\ Len(Reverse(s)) = Len(s)
  BY <1>1, <1>2, <1>3
<1>5. Reverse(s) # <<>> /\ Reverse(s)[1] = s[Len(s)]
  BY <1>1, <1>3, <1>4
<1>6. Reverse(Reverse(s)) = [i \in 1 .. Len(s) |-> Reverse(s)[(Len(s) - i) + 1]]
  BY <1>4 DEF Reverse
<1>7. \A i \in 1 .. Len(s) : Reverse(s)[(Len(s) - i) + 1] = s[i]
  BY <1>2, <1>3
<1> QED
  BY <1>1, <1>4, <1>5, <1>6, <1>7

\* Nothing is trimmed of a line that neither begins nor ends with white space.
LEMMA TrimNone ==
  ASSUME NEW T, NEW s \in Seq(T), s # <<>>, s[1] \notin White \union {"BOM"},
         s[Len(s)] \notin White, NEW left \in BOOLEAN, NEW right \in BOOLEAN
  PROVE  trim(s, left, right) = s
<1>1. Dropped(s, {"BOM"}) = s /\ Dropped(s, White) = s
  BY DropNone
<1>2. Dropped(Reverse(s), White) = Reverse(s) /\ Reverse(Reverse(s)) = s
  BY ReverseTwice, DropNone
<1> QED
  BY <1>1, <1>2 DEF trim

LEMMA OnlyTwo == Min({2}) = 2
<1>1. \A x \in {2} : (\A y \in {2} : x <= y) <=> x = 2
  OBVIOUS
<1> QED
  BY <1>1 DEF Min

LEMMA TrimWord ==
  ASSUME NEW t, t \notin Sign
  PROVE  /\ \A left, right \in BOOLEAN : trim(<<t>>, left, right) = <<t>>
         /\ trim(<<Space, t>>, TRUE, FALSE) = <<t>>
<1> DEFINE T == {t, Space}
<1>0. t \in T /\ Space \in T /\ t \notin White \union {"BOM"} /\ Space # "BOM"
      /\ Space \in White
  BY SignsDiffer DEF Sign, White
<1> HIDE DEF T
<1>1. <<t>> \in Seq(T) /\ <<t>> # <<>> /\ Len(<<t>>) = 1
  BY <1>0, One
<1>2. /\ <<Space, t>> \in Seq(T) /\ <<Space, t>> # <<>> /\ DOMAIN <<Space, t>> = 1 .. 2
      /\ Len(<<Space, t>>) = 2 /\ <<Space, t>>[1] = Space /\ SubSeq(<<Space, t>>, 2, 2) = <<t>>
  BY <1>0, Two
<1>3. Dropped(<<Space, t>>, {"BOM"}) = <<Space, t>>
  <2> DEFINE s == <<Space, t>>
  <2>1. s \in Seq(T) /\ s # <<>> /\ s[1] \notin {"BOM"}
    BY <1>0, <1>2
  <2> HIDE DEF s
  <2>2. Dropped(s, {"BOM"}) = s
    BY <2>1, DropNone
  <2> QED
    BY <2>2 DEF s
<1>4. Dropped(<<Space, t>>, White) = <<t>>
  <2> DEFINE s == <<Space, t>>
             rest == {i \in DOMAIN s : s[i] \notin White}
  <2>1. rest = {2}
    BY <1>0, <1>2
  <2> HIDE DEF rest
  <2>2. Min(rest) = 2 /\ rest # {}
    BY <2>1, OnlyTwo
  <2> QED
    BY <2>2, <1>2 DEF Dropped, rest
<1>5. trim(<<Space, t>>, TRUE, FALSE) = <<t>>
  BY <1>3, <1>4 DEF trim
<1>6. ASSUME NEW left \in BOOLEAN, NEW right \in BOOLEAN
      PROVE  trim(<<t>>, left, right) = <<t>>
  BY <1>0, <1>1, TrimNone
<1> QED
  BY <1>5, <1>6

\* A line without a sign for a comment is read as it is.
LEMMA NoComment ==
  ASSUME NEW T, NEW s \in Seq(T), \A i \in DOMAIN s : s[i] \notin {Semicolon, "#", "//"}
  PROVE  Uncommented(s) = s
<1>1. Signs(s, Semicolon) = {} /\ Signs(s, "#") = {}
  BY DEF Signs
<1>2. Slashes(s) = {}
  <2>1. ASSUME NEW i \in DOMAIN s, i < Len(s) PROVE i + 1 \in DOMAIN s
    BY <2>1
  <2> QED
    BY <2>1 DEF Slashes
<1>3. Before(s, {}) = s
  BY DEF Before
<1>4. {i \in Slashes(s) : \A j \in Slashes(s) : j <= i} = {}
  BY <1>2
<1> QED
  BY <1>1, <1>3, <1>4 DEF Uncommented

\* A section is entered, and is there from now on.
LEMMA ReadSection ==
  ASSUME NEW st, NEW s, s \notin Sign
  PROVE  ReadLine(st, SectionLine(s)) =
           [in |-> <<s>>, data |-> Assigned(st.data, <<s>>, KeysOf(st.data, <<s>>))]
<1> DEFINE line == SectionLine(s)
           T == {"[", s, "]"}
<1>1. line = <<"[", s, "]">>
  BY DEF SectionLine
<1>2. /\ line \in Seq(T) /\ line # <<>> /\ Len(line) = 3 /\ DOMAIN line = 1 .. 3
      /\ line[1] = "[" /\ line[2] = s /\ line[3] = "]" /\ SubSeq(line, 2, 2) = <<s>>
  <2>1. "[" \in T /\ s \in T /\ "]" \in T
    OBVIOUS
  <2> DEFINE open == "["
             close == "]"
  <2> HIDE DEF T, open, close
  <2>2. open \in T /\ close \in T /\ line = <<open, s, close>>
    BY <1>1, <2>1 DEF open, close
  <2>3. IsThree(line, T, open, s, close)
    BY <2>1, <2>2, Three
  <2> QED
    BY <2>3 DEF IsThree, open, close
<1> HIDE DEF line, T
<1>3. \A i \in DOMAIN line : line[i] \notin {Semicolon, "#", "//"}
  BY <1>2, SignsDiffer DEF Sign
<1>4. trim(Uncommented(line), TRUE, TRUE) = line
  <2>1. line[1] \notin White \union {"BOM"} /\ line[Len(line)] \notin White
    BY <1>2, SignsDiffer
  <2>2. Uncommented(line) = line
    BY <1>2, <1>3, NoComment
  <2> QED
    BY <1>2, <2>1, <2>2, TrimNone
<1>5. 3 - 1 = 2
  OBVIOUS
<1>6. trim(SubSeq(line, 2, 3 - 1), TRUE, TRUE) = <<s>>
  BY <1>2, <1>5, TrimWord
<1> QED
  BY <1>2, <1>4, <1>6 DEF ReadLine, line

\* An entry of one word, with a space before it or not, becomes an entry of the section.
Enters(st, k, v, t) ==
  ReadLine(st, Entry(k, v)) = [st EXCEPT !.data = Emplaced(st.data, st.in, <<k>>, <<t>>)]

LEMMA ReadEntry ==
  ASSUME NEW st, NEW k, k \notin Sign, NEW t, t \notin Sign, NEW v \in {<<t>>, <<Space, t>>}
  PROVE  Enters(st, k, v, t)
<1> DEFINE line == Entry(k, v)
           m == Len(line)
           T == {k, "=", Space, t}
<1>1. /\ line \in Seq(T) /\ line # <<>> /\ m \in {3, 4} /\ DOMAIN line = 1 .. m
      /\ line[1] = k /\ line[2] = "=" /\ line[m] = t
      /\ \A i \in DOMAIN line : i # 2 => line[i] # "="
      /\ SubSeq(line, 1, 1) = <<k>> /\ SubSeq(line, 3, m) = v
  <2>0. k \in T /\ t \in T /\ Space \in T /\ "=" \in T /\ {t, k, Space} \subseteq T \ {"="}
    BY SignsDiffer DEF Sign
  <2> DEFINE eq == "="
  <2> HIDE DEF T, eq
  <2>e. eq \in T /\ eq = "="
    BY <2>0 DEF eq
  <2>1. CASE v = <<t>>
    <3>1. line = <<k, eq, t>> /\ IsThree(<<k, eq, t>>, T, k, eq, t)
      BY <2>0, <2>e, <2>1, Three DEF Entry
    <3>2. IsThree(line, T, k, eq, t)
      BY <3>1
    <3> HIDE DEF line
    <3> QED
      BY <2>0, <2>e, <2>1, <3>2 DEF IsThree
  <2>2. CASE v = <<Space, t>>
    <3>1. line = <<k, eq, Space, t>> /\ IsFour(<<k, eq, Space, t>>, T, k, eq, Space, t)
      BY <2>0, <2>e, <2>2, Four DEF Entry
    <3>2. IsFour(line, T, k, eq, Space, t)
      BY <3>1
    <3> HIDE DEF line
    <3> QED
      BY <2>0, <2>e, <2>2, <3>2 DEF IsFour
  <2> QED
    BY <2>1, <2>2
<1> HIDE DEF line
<1>2. k \notin White \union {"BOM", "["} /\ t \notin White
  BY DEF Sign, White
<1>3. \A i \in DOMAIN line : line[i] \notin {Semicolon, "#", "//"}
  <2>1. \A x \in T : x \notin {Semicolon, "#", "//"}
    BY SignsDiffer DEF Sign
  <2> HIDE DEF T
  <2>2. \A i \in DOMAIN line : line[i] \in T
    BY <1>1
  <2> QED
    BY <2>1, <2>2
<1> HIDE DEF T
<1>4. trim(Uncommented(line), TRUE, TRUE) = line
  <2>1. Uncommented(line) = line
    BY <1>1, <1>3, NoComment
  <2> QED
    BY <1>1, <1>2, <2>1, TrimNone
<1>5. Signs(line, "=") = {2}
  BY <1>1 DEF Signs
<1>6. 2 - 1 = 1 /\ 2 + 1 = 3
  OBVIOUS
<1>7. trim(Before(line, {2}), FALSE, TRUE) = <<k>>
  BY <1>1, <1>6, OnlyTwo, TrimWord DEF Before
<1>8. trim(SubSeq(line, 2 + 1, m), TRUE, FALSE) = <<t>>
  BY <1>1, <1>6, TrimWord
<1>9. line[1] # "["
  BY <1>1, <1>2
<1> QED
  BY <1>1, <1>4, <1>5, <1>6, <1>7, <1>8, <1>9, OnlyTwo DEF ReadLine, line, Enters

-------------------------------------------------------------------------------
(***************************************************************************)
(* The entries of a new file.                                              *)
(***************************************************************************)
Switches == {"gameguard", "redirect", "episode4_mode", "enable_direct_input"}
Hosts == {"patch01.us.segaonline.jp", "game01.us.segaonline.jp",
          "patch01.psobb.segaonline.jp", "game01.psobb.segaonline.jp",
          "psobb-ep4-patch.segaonline.jp", "psobb-ep4-db.segaonline.jp",
          "patch.psobb.cn", "db.psobb.cn"}

LEMMA NoSigns ==
  /\ {"patches", "client_language", "False", "1"} \intersect Sign = {}
  /\ \A k \in Switches : k \notin Sign
  /\ \A t \in Hosts : t \notin Sign
  /\ \A u \in Urls : u[1] \notin Sign /\ u[2] \notin Sign
<1>1. {"patches", "client_language", "False", "1"} \intersect Sign = {}
  BY Zenon DEF Sign, Quote, Space, Tab, Semicolon
<1>2. \A k \in Switches : k \notin Sign
  BY Zenon DEF Sign, Quote, Space, Tab, Semicolon, Switches
<1>3. \A t \in Hosts : t \notin Sign
  BY Zenon DEF Sign, Quote, Space, Tab, Semicolon, Hosts
<1>4. \A t \in {"redirect.us", "redirect.jp", "redirect.ep4", "redirect.cn",
                "patch_server", "game_server"} : t \notin Sign
  BY Zenon DEF Sign, Quote, Space, Tab, Semicolon
<1>5. \A u \in Urls : /\ u[1] \in {"redirect.us", "redirect.jp", "redirect.ep4", "redirect.cn"}
                      /\ u[2] \in {"patch_server", "game_server"}
  BY DEF Urls
<1> QED
  BY <1>1, <1>2, <1>3, <1>4, <1>5

LEMMA Officials == \A u \in Urls : \E t \in Hosts : Official[u] = <<t>>
BY DEF Urls, Official, Hosts

LEMMA Parts ==
  ASSUME NEW a, NEW b, NEW c
  PROVE  <<a, b, c>>[1] = a /\ <<a, b, c>>[2] = b /\ <<a, b, c>>[3] = c
<1> DEFINE T == {a, b, c}
<1>1. a \in T /\ b \in T /\ c \in T
  OBVIOUS
<1> HIDE DEF T
<1>2. IsThree(<<a, b, c>>, T, a, b, c)
  BY <1>1, Three
<1> DEFINE s == <<a, b, c>>
<1>3. IsThree(s, T, a, b, c)
  BY <1>2
<1> HIDE DEF s
<1>4. s[1] = a /\ s[2] = b /\ s[3] = c
  BY <1>3 DEF IsThree
<1> QED
  BY <1>4 DEF s

\* The default of key k of section s, as the value of an entry.
Means(s, k, v) ==
  /\ s = "patches" /\ k \in Switches => v = <<"False">>
  /\ s = "patches" /\ k = "client_language" => v = <<"1">>
  /\ <<s, k>> \in Urls => v = Official[<<s, k>>]

\* An entry of words that means what is meant without it.
IsDefault(e) ==
  /\ e[1] \notin Sign /\ e[2] \notin Sign
  /\ \E t : t \notin Sign /\ e[3] \in {<<t>>, <<Space, t>>} /\ Means(e[1], e[2], <<t>>)

SwitchedOff == {<<"patches", k, <<Space, "False">>>> : k \in Switches}
English     == {<<"patches", "client_language", <<Space, "1">>>>}
OfficialOnes == {<<u[1], u[2], Official[u]>> : u \in Urls}
Defaults == SwitchedOff \union English \union OfficialOnes

LEMMA DefaultsMean == \A e \in Defaults : IsDefault(e)
<1>0. \A u \in Urls : u[1] # "patches" /\ u = <<u[1], u[2]>>
  BY DEF Urls
<1>1. ASSUME NEW e \in SwitchedOff PROVE IsDefault(e)
  <2>1. PICK k \in Switches : e = <<"patches", k, <<Space, "False">>>>
    BY <1>1 DEF SwitchedOff
  <2> DEFINE v == <<Space, "False">>
             p == "patches"
             t == "False"
  <2>2. e[1] = p /\ e[2] = k /\ e[3] = v
    <3> HIDE DEF v, p
    <3>1. e = <<p, k, v>>
      BY <2>1 DEF p, v
    <3> QED
      BY <3>1, Parts
  <2>3. p \notin Sign /\ k \notin Sign /\ t \notin Sign
    BY NoSigns
  <2>4. <<p, k>> \notin Urls /\ k # "client_language"
    BY DEF Urls, Switches
  <2>5. Means(p, k, <<t>>)
    BY <2>4 DEF Means
  <2>6. v = <<Space, t>>
    OBVIOUS
  <2> HIDE DEF p, t, v
  <2>7. t \notin Sign /\ e[3] \in {<<t>>, <<Space, t>>} /\ Means(e[1], e[2], <<t>>)
    BY <2>2, <2>3, <2>5, <2>6
  <2> QED
    BY <2>2, <2>3, <2>7 DEF IsDefault
<1>2. ASSUME NEW e \in English PROVE IsDefault(e)
  <2> DEFINE v == <<Space, "1">>
             p == "patches"
             k == "client_language"
             t == "1"
  <2>1. e = <<p, k, v>>
    BY <1>2 DEF English
  <2>2. e[1] = p /\ e[2] = k /\ e[3] = v
    <3> HIDE DEF v, p, k
    <3> QED
      BY <2>1, Parts
  <2>3. p \notin Sign /\ k \notin Sign /\ t \notin Sign
    BY NoSigns
  <2>4. <<p, k>> \notin Urls /\ k \notin Switches
    BY DEF Urls, Switches
  <2>5. Means(p, k, <<t>>)
    BY <2>4 DEF Means
  <2>6. v = <<Space, t>>
    OBVIOUS
  <2> HIDE DEF p, t, v, k
  <2>7. t \notin Sign /\ e[3] \in {<<t>>, <<Space, t>>} /\ Means(e[1], e[2], <<t>>)
    BY <2>2, <2>3, <2>5, <2>6
  <2> QED
    BY <2>2, <2>3, <2>7 DEF IsDefault
<1>3. ASSUME NEW e \in OfficialOnes PROVE IsDefault(e)
  <2>1. PICK u \in Urls : e = <<u[1], u[2], Official[u]>>
    BY <1>3 DEF OfficialOnes
  <2>2. e[1] = u[1] /\ e[2] = u[2] /\ e[3] = Official[u]
    BY <2>1, Parts
  <2>3. PICK t \in Hosts : Official[u] = <<t>>
    BY Officials
  <2>4. Means(u[1], u[2], <<t>>)
    BY <2>3, <1>0 DEF Means
  <2>5. u[1] \notin Sign /\ u[2] \notin Sign /\ t \notin Sign
    BY NoSigns
  <2>6. e[3] = <<t>>
    BY <2>2, <2>3
  <2>7. t \notin Sign /\ e[3] \in {<<t>>, <<Space, t>>} /\ Means(e[1], e[2], <<t>>)
    BY <2>2, <2>4, <2>5, <2>6
  <2> QED
    BY <2>2, <2>5, <2>7 DEF IsDefault
<1> QED
  BY <1>1, <1>2, <1>3 DEF Defaults

LEMMA Five ==
  ASSUME NEW T, NEW a \in T, NEW b \in T, NEW c \in T, NEW d \in T, NEW e \in T
  PROVE  <<a, b, c, d, e>> \in Seq(T)
OBVIOUS

LEMMA OptionsTyped == NewOptions \in Seq(Defaults)
<1> DEFINE o1 == <<"patches", "gameguard", <<Space, "False">>>>
           o2 == <<"patches", "redirect", <<Space, "False">>>>
           o3 == <<"patches", "episode4_mode", <<Space, "False">>>>
           o4 == <<"patches", "client_language", <<Space, "1">>>>
           o5 == <<"patches", "enable_direct_input", <<Space, "False">>>>
<1>1. {o1, o2, o3, o5} \subseteq SwitchedOff
  <2>1. \A k \in Switches : <<"patches", k, <<Space, "False">>>> \in SwitchedOff
    BY DEF SwitchedOff
  <2>2. /\ "gameguard" \in Switches /\ "redirect" \in Switches
        /\ "episode4_mode" \in Switches /\ "enable_direct_input" \in Switches
    BY DEF Switches
  <2> QED
    BY <2>1, <2>2, Zenon
<1>2. o4 \in English
  BY Zenon DEF English
<1>3. NewOptions = <<o1, o2, o3, o4, o5>>
  BY DEF NewOptions
<1> HIDE DEF o1, o2, o3, o4, o5
<1>4. o1 \in Defaults /\ o2 \in Defaults /\ o3 \in Defaults /\ o4 \in Defaults /\ o5 \in Defaults
  BY <1>1, <1>2 DEF Defaults
<1> QED
  BY <1>3, <1>4, Five

LEMMA UrlsTyped == NewUrls \in Seq(Defaults)
<1> DEFINE Pair(s) == << <<s, "patch_server", Official[<<s, "patch_server">>]>>,
                         <<s, "game_server", Official[<<s, "game_server">>]>> >>
<1>1. ASSUME NEW s \in {"redirect.us", "redirect.jp", "redirect.ep4", "redirect.cn"}
      PROVE  Pair(s) \in Seq(Defaults)
  <2> DEFINE p == <<s, "patch_server">>
             g == <<s, "game_server">>
             a == <<p[1], p[2], Official[p]>>
             b == <<g[1], g[2], Official[g]>>
  <2>1. p \in Urls /\ g \in Urls
    BY DEF Urls
  <2>2. p[1] = s /\ p[2] = "patch_server" /\ g[1] = s /\ g[2] = "game_server"
    OBVIOUS
  <2>3. Pair(s) = <<a, b>>
    BY <2>2
  <2>4. a \in Defaults /\ b \in Defaults
    <3> HIDE DEF p, g
    <3> QED
      BY <2>1 DEF Defaults, OfficialOnes
  <2> HIDE DEF a, b, Pair
  <2>5. <<a, b>> \in Seq(Defaults)
    BY <2>4, Two
  <2> QED
    BY <2>3, <2>5
<1>2. NewUrls = Pair("redirect.us") \o Pair("redirect.jp")
                  \o Pair("redirect.cn") \o Pair("redirect.ep4")
  BY DEF NewUrls
<1> DEFINE p1 == Pair("redirect.us")
           p2 == Pair("redirect.jp")
           p3 == Pair("redirect.cn")
           p4 == Pair("redirect.ep4")
<1>3. p1 \in Seq(Defaults) /\ p2 \in Seq(Defaults) /\ p3 \in Seq(Defaults) /\ p4 \in Seq(Defaults)
  <2> HIDE DEF Pair
  <2> QED
    BY <1>1
<1>4. NewUrls = p1 \o p2 \o p3 \o p4
  BY <1>2
<1> HIDE DEF p1, p2, p3, p4
<1>5. p1 \o p2 \in Seq(Defaults)
  BY <1>3, ConcatProperties
<1>6. p1 \o p2 \o p3 \in Seq(Defaults)
  BY <1>3, <1>5, ConcatProperties
<1>7. p1 \o p2 \o p3 \o p4 \in Seq(Defaults)
  BY <1>3, <1>6, ConcatProperties
<1> QED
  BY <1>4, <1>7

LEMMA NewEntriesMean ==
  /\ Len(NewEntries) \in Nat
  /\ \A i \in 1 .. Len(NewEntries) : IsDefault(NewEntries[i])
<1>1. NewEntries \in Seq(Defaults)
  BY OptionsTyped, UrlsTyped, ConcatProperties DEF NewEntries
<1>2. \A i \in 1 .. Len(NewEntries) : NewEntries[i] \in Defaults
  BY <1>1
<1> QED
  BY <1>1, <1>2, DefaultsMean

-------------------------------------------------------------------------------
(***************************************************************************)
(* What is read from a file of such entries.                               *)
(***************************************************************************)
\* Nothing in data means anything but the default.
Tidy(data) ==
  \A s, k : <<s>> \in DOMAIN data /\ <<k>> \in DOMAIN data[<<s>>]
              => Means(s, k, data[<<s>>][<<k>>])

LEMMA PairParts ==
  ASSUME NEW a, NEW b
  PROVE  <<a, b>>[1] = a /\ <<a, b>>[2] = b
<1> DEFINE T == {a, b}
<1>1. a \in T /\ b \in T
  OBVIOUS
<1> HIDE DEF T
<1> QED
  BY <1>1, Two

LEMMA SameWord ==
  ASSUME NEW a, NEW b, <<a>> = <<b>>
  PROVE  a = b
<1>1. <<a>>[1] = a /\ <<b>>[1] = b
  OBVIOUS
<1> QED
  BY <1>1

LEMMA SectionTidy ==
  ASSUME NEW data, Tidy(data), NEW s
  PROVE  Tidy(Assigned(data, <<s>>, KeysOf(data, <<s>>)))
<1> DEFINE new == Assigned(data, <<s>>, KeysOf(data, <<s>>))
<1>1. ASSUME NEW x, NEW k, <<x>> \in DOMAIN new, <<k>> \in DOMAIN new[<<x>>]
      PROVE  Means(x, k, new[<<x>>][<<k>>])
  <2>1. CASE <<x>> = <<s>>
    <3>1. new[<<x>>] = KeysOf(data, <<s>>)
      BY <2>1 DEF Assigned
    <3>2. <<s>> \in DOMAIN data /\ new[<<x>>] = data[<<x>>]
      BY <3>1, <1>1, <2>1 DEF KeysOf, NoKeys
    <3> QED
      BY <3>2, <1>1, <2>1 DEF Tidy
  <2>2. CASE <<x>> # <<s>>
    <3>1. <<x>> \in DOMAIN data /\ new[<<x>>] = data[<<x>>]
      BY <1>1, <2>2 DEF Assigned
    <3> QED
      BY <3>1, <1>1 DEF Tidy
  <2> QED
    BY <2>1, <2>2
<1> HIDE DEF new
<1>2. Tidy(new)
  BY <1>1 DEF Tidy
<1> QED
  BY <1>2 DEF new

LEMMA EntryTidy ==
  ASSUME NEW data, Tidy(data), NEW s, NEW k, NEW t, Means(s, k, <<t>>)
  PROVE  Tidy(Emplaced(data, <<s>>, <<k>>, <<t>>))
<1> DEFINE keys == KeysOf(data, <<s>>)
           put == IF <<k>> \in DOMAIN keys THEN keys ELSE Assigned(keys, <<k>>, <<t>>)
           new == Emplaced(data, <<s>>, <<k>>, <<t>>)
<1>1. new = Assigned(data, <<s>>, put)
  BY DEF Emplaced
<1>2. ASSUME NEW x, <<x>> \in DOMAIN keys PROVE Means(s, x, keys[<<x>>])
  <2>1. <<s>> \in DOMAIN data /\ keys = data[<<s>>]
    BY <1>2 DEF KeysOf, NoKeys
  <2> QED
    BY <2>1, <1>2 DEF Tidy
<1> HIDE DEF keys
<1>3. ASSUME NEW x, <<x>> \in DOMAIN put PROVE Means(s, x, put[<<x>>])
  <2>1. CASE <<k>> \in DOMAIN keys
    BY <2>1, <1>2, <1>3
  <2>2. CASE <<k>> \notin DOMAIN keys /\ <<x>> # <<k>>
    <3>1. <<x>> \in DOMAIN keys /\ put[<<x>>] = keys[<<x>>]
      BY <2>2, <1>3 DEF Assigned
    <3> QED
      BY <3>1, <1>2
  <2>3. CASE <<k>> \notin DOMAIN keys /\ <<x>> = <<k>>
    <3>1. x = k /\ put[<<x>>] = <<t>>
      BY <2>3, SameWord DEF Assigned
    <3> QED
      BY <3>1
  <2> QED
    BY <2>1, <2>2, <2>3
<1> HIDE DEF put, new
<1>4. ASSUME NEW x, NEW y, <<x>> \in DOMAIN new, <<y>> \in DOMAIN new[<<x>>]
      PROVE  Means(x, y, new[<<x>>][<<y>>])
  <2>1. CASE <<x>> = <<s>>
    <3>1. x = s /\ new[<<x>>] = put
      BY <2>1, <1>1, SameWord DEF Assigned
    <3> QED
      BY <3>1, <1>3, <1>4
  <2>2. CASE <<x>> # <<s>>
    <3>1. <<x>> \in DOMAIN data /\ new[<<x>>] = data[<<x>>]
      BY <1>1, <1>4, <2>2 DEF Assigned
    <3> QED
      BY <3>1, <1>4 DEF Tidy
  <2> QED
    BY <2>1, <2>2
<1>5. Tidy(new)
  BY <1>4 DEF Tidy
<1> QED
  BY <1>5 DEF new

\* After file f the parser is in state st.
Empty == [in |-> <<>>, data |-> [s \in {} |-> NoKeys]]
ReadTo(f, st) ==
  \E h : /\ h[0] = Empty /\ h[Len(f)] = st
         /\ \A k \in 1 .. Len(f) : h[k] = ReadLine(h[k - 1], f[k])

LEMMA ReadNothing ==
  ASSUME NEW f, Len(f) = 0
  PROVE  ReadTo(f, Empty)
<1> DEFINE h == [k \in {0} |-> Empty]
<1>1. h[0] = Empty
  OBVIOUS
<1> HIDE DEF h
<1> QED
  BY <1>1 DEF ReadTo

LEMMA ReadMore ==
  ASSUME NEW T, NEW f \in Seq(T), NEW st, ReadTo(f, st), NEW line \in T
  PROVE  ReadTo(Append(f, line), ReadLine(st, line))
<1> DEFINE m == Len(f)
           g == Append(f, line)
           last == ReadLine(st, line)
<1>1. /\ m \in Nat /\ Len(g) = m + 1 /\ g[m + 1] = line
      /\ \A k \in 1 .. m : g[k] = f[k]
  OBVIOUS
<1>2. PICK h : /\ h[0] = Empty /\ h[m] = st
               /\ \A k \in 1 .. m : h[k] = ReadLine(h[k - 1], f[k])
  BY DEF ReadTo
<1> HIDE DEF m, g, last
<1> DEFINE r == [k \in 0 .. m + 1 |-> IF k = m + 1 THEN last ELSE h[k]]
<1>3. r[m + 1] = last /\ \A k \in 0 .. m : r[k] = h[k]
  BY <1>1
<1> HIDE DEF r
<1>4. ASSUME NEW k \in 1 .. m + 1 PROVE r[k] = ReadLine(r[k - 1], g[k])
  <2>1. k - 1 \in 0 .. m
    BY <1>1
  <2>2. CASE k = m + 1
    <3>1. k - 1 = m /\ r[k - 1] = st
      BY <2>1, <2>2, <1>1, <1>2, <1>3
    <3> QED
      BY <3>1, <2>2, <1>1, <1>3 DEF last
  <2>3. CASE k # m + 1
    <3>1. k \in 1 .. m /\ k \in 0 .. m
      BY <2>3, <1>1
    <3> QED
      BY <3>1, <2>1, <1>1, <1>2, <1>3
  <2> QED
    BY <2>2, <2>3
<1>5. r[0] = Empty
  BY <1>1, <1>2, <1>3
<1>6. ReadTo(g, last)
  BY <1>1, <1>3, <1>4, <1>5 DEF ReadTo
<1> QED
  BY <1>6 DEF g, last

\* A set of numbers has a least element.
LEMMA Least ==
  ASSUME NEW T \in SUBSET Nat, T # {}
  PROVE  \E m \in T : \A k \in T : m <= k
<1> DEFINE Less == {ss \in Nat \X Nat : ss[1] < ss[2]}
<1>1. IsWellFoundedOn(Less, Nat)
  BY NatLessThanWellFounded, Zenon DEF OpToRel
<1>2. PICK m \in T : \A k \in T : <<k, m>> \notin Less
  <2> HIDE DEF Less
  <2> QED
    BY <1>1, WFMin
<1>3. \A k \in T : ~ (k < m)
  BY <1>2
<1> QED
  BY <1>2, <1>3

\* Induction over the numbers up to N, for the set of those something holds of.
LEMMA UpTo ==
  ASSUME NEW N \in Nat, NEW T \in SUBSET (0 .. N), 0 \in T,
         \A k \in 1 .. N : k - 1 \in T => k \in T
  PROVE  \A k \in 0 .. N : k \in T
<1> DEFINE Rest == (0 .. N) \ T
<1>1. SUFFICES ASSUME Rest # {} PROVE FALSE
  OBVIOUS
<1>2. PICK m \in Rest : \A k \in Rest : m <= k
  <2>1. Rest \in SUBSET Nat
    OBVIOUS
  <2> HIDE DEF Rest
  <2> QED
    BY <1>1, <2>1, Least
<1>3. m \in 1 .. N /\ m \notin T
  OBVIOUS
<1>4. m - 1 \in 0 .. N /\ ~(m <= m - 1)
  BY <1>3
<1>5. m - 1 \in T
  BY <1>2, <1>4
<1> QED
  BY <1>3, <1>5

\* A function can be defined by what it is at 0 and how each value follows from
\* the one before.
Unfolds(S, first, N, step) ==
  \E g \in [0 .. N -> S] : g[0] = first /\ \A k \in 1 .. N : g[k] = step[k][g[k - 1]]

LEMMA Recursion ==
  ASSUME NEW S, NEW first \in S, NEW N \in Nat, NEW step \in [1 .. N -> [S -> S]]
  PROVE  Unfolds(S, first, N, step)
<1> DEFINE Good(m) == \E g \in [0 .. N -> S] :
                        g[0] = first /\ \A k \in 1 .. m : g[k] = step[k][g[k - 1]]
           T == {m \in 0 .. N : Good(m)}
<1>1. Good(0)
  <2> DEFINE g == [k \in 0 .. N |-> first]
  <2>1. g \in [0 .. N -> S] /\ g[0] = first
    OBVIOUS
  <2> HIDE DEF g
  <2> QED
    BY <2>1
<1>2. ASSUME NEW m \in 1 .. N, Good(m - 1) PROVE Good(m)
  <2>1. PICK g \in [0 .. N -> S] :
          g[0] = first /\ \A k \in 1 .. m - 1 : g[k] = step[k][g[k - 1]]
    BY <1>2
  <2>2. m - 1 \in 0 .. N
    OBVIOUS
  <2>3. PICK v \in S : v = step[m][g[m - 1]]
    BY <2>2
  <2> DEFINE h == [g EXCEPT ![m] = v]
  <2>4. h \in [0 .. N -> S] /\ h[m] = v /\ \A k \in 0 .. N : k # m => h[k] = g[k]
    BY <2>2
  <2> HIDE DEF h
  <2>5. ASSUME NEW k \in 1 .. m PROVE h[k] = step[k][h[k - 1]]
    <3>1. k - 1 \in 0 .. N /\ k - 1 # m /\ k \in 0 .. N
      OBVIOUS
    <3>2. CASE k = m
      BY <3>1, <3>2, <2>3, <2>4
    <3>3. CASE k # m
      <4>1. k \in 1 .. m - 1
        BY <3>3
      <4> QED
        BY <4>1, <3>1, <3>3, <2>1, <2>4
    <3> QED
      BY <3>2, <3>3
  <2>6. h[0] = first
    BY <2>1, <2>4
  <2> QED
    BY <2>4, <2>5, <2>6
<1> HIDE DEF Good
<1>3. 0 \in T /\ \A k \in 1 .. N : k - 1 \in T => k \in T
  BY <1>1, <1>2
<1>4. N \in T
  <2>1. T \in SUBSET (0 .. N) /\ N \in 0 .. N
    OBVIOUS
  <2> HIDE DEF T
  <2> QED
    BY <2>1, <1>3, UpTo
<1> QED
  BY <1>4 DEF Good, Unfolds


\* What has been read is what basic_ini::read_file makes of the file.
LEMMA ParsedIs ==
  ASSUME NEW f, Len(f) \in Nat, NEW st, ReadTo(f, st)
  PROVE  Parsed(f) = st.data
<1> DEFINE N == Len(f)
           F(g) == [k \in 0 .. N |-> IF k = 0 THEN Empty ELSE ReadLine(g[k - 1], f[k])]
           c == CHOOSE g : g = F(g)
<1>1. PICK h : /\ h[0] = Empty /\ h[N] = st
               /\ \A k \in 1 .. N : h[k] = ReadLine(h[k - 1], f[k])
  BY DEF ReadTo
<1> DEFINE g == [k \in 0 .. N |-> h[k]]
<1>2. g = F(g)
  <2>1. ASSUME NEW k \in 0 .. N
        PROVE  h[k] = IF k = 0 THEN Empty ELSE ReadLine(g[k - 1], f[k])
    <3>1. CASE k = 0
      BY <3>1, <1>1
    <3>2. CASE k # 0
      <4>1. k \in 1 .. N /\ k - 1 \in 0 .. N
        BY <3>2
      <4>2. g[k - 1] = h[k - 1]
        BY <4>1
      <4> QED
        BY <4>1, <4>2, <3>2, <1>1
    <3> QED
      BY <3>1, <3>2
  <2> QED
    BY <2>1
<1>3. c = F(c)
  <2> HIDE DEF F, g
  <2> QED
    BY <1>2
<1>4. Parsed(f) = c[N].data
  BY DEF Parsed, Empty
<1> HIDE DEF c, g
<1>5. \A k \in 0 .. N : c[k] = F(c)[k]
  <2> HIDE DEF F
  <2> QED
    BY <1>3
<1>6. \A k \in 0 .. N : c[k] = IF k = 0 THEN Empty ELSE ReadLine(c[k - 1], f[k])
  BY <1>5
<1> DEFINE T == {k \in 0 .. N : c[k] = h[k]}
<1>7. 0 \in T
  BY <1>1, <1>6
<1>8. ASSUME NEW k \in 1 .. N, k - 1 \in T PROVE k \in T
  <2>1. k \in 0 .. N /\ k # 0 /\ c[k - 1] = h[k - 1]
    BY <1>8
  <2>2. c[k] = ReadLine(c[k - 1], f[k]) /\ h[k] = ReadLine(h[k - 1], f[k])
    BY <2>1, <1>1, <1>6
  <2> QED
    BY <2>1, <2>2
<1>9. N \in T
  <2>1. T \in SUBSET (0 .. N) /\ N \in Nat /\ N \in 0 .. N
    OBVIOUS
  <2> HIDE DEF T, N, F
  <2> QED
    BY <2>1, <1>7, <1>8, UpTo
<1> QED
  BY <1>1, <1>4, <1>9

\* Of the lines of the first k of m parts the last part's are the last.
LEMMA Flattened ==
  ASSUME NEW X, NEW m \in Nat \ {0}, NEW parts \in [1 .. m -> Seq(X)]
  PROVE  \E w : /\ FlattenSeq(parts) = w[m] /\ w[1] = parts[1]
                /\ \A k \in 2 .. m : w[k] = w[k - 1] \o parts[k]
<1> DEFINE S == Seq(X)
           first == <<>>
           step == [k \in 1 .. m |-> [w \in Seq(X) |-> IF k = 1 THEN parts[1] ELSE w \o parts[k]]]
           F(g) == [k \in 1 .. m |-> IF k = 1 THEN parts[1] ELSE g[k - 1] \o parts[k]]
           c == CHOOSE g : g = F(g)
<1>1. step \in [1 .. m -> [S -> S]]
  <2>1. ASSUME NEW k \in 1 .. m, NEW w \in Seq(X)
        PROVE  (IF k = 1 THEN parts[1] ELSE w \o parts[k]) \in Seq(X)
    <3>1. parts[1] \in Seq(X) /\ parts[k] \in Seq(X)
      OBVIOUS
    <3> QED
      BY <3>1
  <2> QED
    BY <2>1
<1>2. first \in S /\ m \in Nat
  OBVIOUS
<1>3. PICK g \in [0 .. m -> S] :
        g[0] = first /\ \A k \in 1 .. m : g[k] = step[k][g[k - 1]]
  <2> HIDE DEF step, first, S
  <2>1. Unfolds(S, first, m, step)
    BY <1>1, <1>2, Recursion
  <2> QED
    BY <2>1 DEF Unfolds
<1>4. ASSUME NEW k \in 1 .. m
      PROVE  g[k] = IF k = 1 THEN parts[1] ELSE g[k - 1] \o parts[k]
  <2>1. g[k - 1] \in Seq(X)
    OBVIOUS
  <2>2. step[k][g[k - 1]] = IF k = 1 THEN parts[1] ELSE g[k - 1] \o parts[k]
    BY <2>1
  <2> HIDE DEF step
  <2> QED
    BY <2>2, <1>3
<1> DEFINE r == [k \in 1 .. m |-> g[k]]
<1>5. r = F(r)
  <2>1. ASSUME NEW k \in 1 .. m
        PROVE  g[k] = IF k = 1 THEN parts[1] ELSE r[k - 1] \o parts[k]
    <3>1. CASE k = 1
      BY <3>1, <1>4
    <3>2. CASE k # 1
      <4>1. r[k - 1] = g[k - 1]
        BY <3>2
      <4> QED
        BY <4>1, <3>2, <1>4
    <3> QED
      BY <3>1, <3>2
  <2> QED
    BY <2>1
<1>6. c = F(c)
  <2> HIDE DEF F, r
  <2> QED
    BY <1>5
<1>7. FlattenSeq(parts) = c[m]
  <2>1. Len(parts) = m
    OBVIOUS
  <2> QED
    BY <2>1 DEF FlattenSeq
<1> HIDE DEF c
<1>8. \A k \in 1 .. m : c[k] = F(c)[k]
  <2> HIDE DEF F
  <2> QED
    BY <1>6
<1>9. \A k \in 1 .. m : c[k] = IF k = 1 THEN parts[1] ELSE c[k - 1] \o parts[k]
  BY <1>8
<1>10. 1 \in 1 .. m /\ \A k \in 2 .. m : k \in 1 .. m /\ k # 1
  OBVIOUS
<1>11. c[1] = parts[1] /\ \A k \in 2 .. m : c[k] = c[k - 1] \o parts[k]
  BY <1>9, <1>10
<1> QED
  BY <1>7, <1>11

LEMMA TwoMore ==
  ASSUME NEW T, NEW f \in Seq(T), NEW a \in T, NEW b \in T
  PROVE  f \o (<<a>> \o <<b>>) = Append(Append(f, a), b)
<1> DEFINE two == <<a>> \o <<b>>
           x == f \o two
           y == Append(Append(f, a), b)
<1>1. two \in Seq(T) /\ Len(two) = 2 /\ two[1] = a /\ two[2] = b
  OBVIOUS
<1>2. /\ y \in Seq(T) /\ Len(y) = Len(f) + 2 /\ Len(f) \in Nat
      /\ \A i \in 1 .. Len(f) : y[i] = f[i]
      /\ y[Len(f) + 1] = a /\ y[Len(f) + 2] = b
  OBVIOUS
<1> HIDE DEF two
<1>3. /\ x \in Seq(T) /\ Len(x) = Len(f) + 2
      /\ \A i \in 1 .. Len(f) : x[i] = f[i]
      /\ x[Len(f) + 1] = a /\ x[Len(f) + 2] = b
  <2>1. /\ x \in Seq(T) /\ Len(x) = Len(f) + Len(two)
        /\ \A i \in 1 .. Len(f) + Len(two) : x[i] = IF i <= Len(f) THEN f[i] ELSE two[i - Len(f)]
    BY <1>1, ConcatProperties
  <2> HIDE DEF x
  <2>2. /\ Len(f) + 1 - Len(f) = 1 /\ Len(f) + 2 - Len(f) = 2
        /\ ~(Len(f) + 1 <= Len(f)) /\ ~(Len(f) + 2 <= Len(f))
        /\ Len(f) + 1 \in 1 .. Len(f) + 2 /\ Len(f) + 2 \in 1 .. Len(f) + 2
        /\ \A i \in 1 .. Len(f) : i \in 1 .. Len(f) + 2 /\ i <= Len(f)
    BY <1>2
  <2> QED
    BY <2>1, <2>2, <1>1
<1> HIDE DEF x, y
<1>4. \A i \in 1 .. Len(x) : x[i] = y[i]
  <2>1. \A i \in 1 .. Len(x) : i \in 1 .. Len(f) \/ i = Len(f) + 1 \/ i = Len(f) + 2
    BY <1>2, <1>3
  <2> QED
    BY <2>1, <1>2, <1>3
<1>5. x = y
  BY <1>2, <1>3, <1>4, SeqEqual
<1> QED
  BY <1>5 DEF x, y, two

\* A default that is read leaves nothing but defaults.
LEMMA ReadDefault ==
  ASSUME NEW st, Tidy(st.data), NEW e, IsDefault(e)
  PROVE  /\ Tidy(ReadLine(st, SectionLine(e[1])).data)
         /\ ReadLine(st, SectionLine(e[1])).in = <<e[1]>>
         /\ st = [in |-> <<e[1]>>, data |-> st.data] =>
              LET new == ReadLine(st, Entry(e[2], e[3]))
              IN new = [in |-> <<e[1]>>, data |-> new.data] /\ Tidy(new.data)
<1> DEFINE s == e[1]
           k == e[2]
           v == e[3]
<1>1. PICK t : s \notin Sign /\ k \notin Sign /\ t \notin Sign
               /\ v \in {<<t>>, <<Space, t>>} /\ Means(s, k, <<t>>)
  BY DEF IsDefault
<1> HIDE DEF s, k, v
<1>2. ReadLine(st, SectionLine(s))
        = [in |-> <<s>>, data |-> Assigned(st.data, <<s>>, KeysOf(st.data, <<s>>))]
  BY <1>1, ReadSection
<1>3. Tidy(ReadLine(st, SectionLine(s)).data) /\ ReadLine(st, SectionLine(s)).in = <<s>>
  BY <1>2, SectionTidy
<1>4. ASSUME st = [in |-> <<s>>, data |-> st.data]
      PROVE  LET new == ReadLine(st, Entry(k, v))
             IN new = [in |-> <<s>>, data |-> new.data] /\ Tidy(new.data)
  <2>1. ReadLine(st, Entry(k, v)) = [st EXCEPT !.data = Emplaced(st.data, st.in, <<k>>, <<t>>)]
    <3>1. Enters(st, k, v, t)
      BY <1>1, ReadEntry
    <3> QED
      BY <3>1 DEF Enters
  <2> DEFINE data == Emplaced(st.data, <<s>>, <<k>>, <<t>>)
  <2>2. ReadLine(st, Entry(k, v)) = [in |-> <<s>>, data |-> data]
    <3>1. st.in = <<s>>
      BY <1>4
    <3>2. ReadLine(st, Entry(k, v)) = [st EXCEPT !.data = data]
      BY <2>1, <3>1
    <3> HIDE DEF data
    <3> QED
      BY <3>2, <1>4
  <2>3. Tidy(data)
    BY <1>1, EntryTidy
  <2> HIDE DEF data
  <2> QED
    BY <2>2, <2>3
<1> QED
  BY <1>3, <1>4 DEF s, k, v

\* However far CreateNewConfigFile came, the file holds nothing but defaults.
LEMMA NewFileTidy ==
  ASSUME NEW m \in 1 .. Len(NewEntries)
  PROVE  Tidy(Parsed(NewFile(m)))
<1> DEFINE e(i) == NewEntries[i]
           X == {SectionLine(e(i)[1]) : i \in 1 .. m}
                  \union {Entry(e(i)[2], e(i)[3]) : i \in 1 .. m}
           Lines(i) == IF i = 1 \/ e(i - 1)[1] # e(i)[1]
                         THEN <<SectionLine(e(i)[1])>> \o <<Entry(e(i)[2], e(i)[3])>>
                         ELSE <<Entry(e(i)[2], e(i)[3])>>
           parts == [i \in 1 .. m |-> Lines(i)]
<1>0. m \in Nat \ {0} /\ Len(NewEntries) \in Nat /\ 1 .. m \subseteq 1 .. Len(NewEntries)
  BY NewEntriesMean
<1>1. NewFile(m) = FlattenSeq(parts)
  BY DEF NewFile
<1>2. ASSUME NEW i \in 1 .. m
      PROVE  SectionLine(e(i)[1]) \in X /\ Entry(e(i)[2], e(i)[3]) \in X
  OBVIOUS
<1>3. ASSUME NEW i \in 1 .. m
      PROVE  /\ <<SectionLine(e(i)[1])>> \in Seq(X) /\ <<Entry(e(i)[2], e(i)[3])>> \in Seq(X)
             /\ Lines(i) \in Seq(X)
  <2> DEFINE a == SectionLine(e(i)[1])
             b == Entry(e(i)[2], e(i)[3])
  <2>1. a \in X /\ b \in X
    BY <1>2
  <2>2. Lines(i) \in {<<a>> \o <<b>>, <<b>>}
    OBVIOUS
  <2> HIDE DEF a, b, X, Lines
  <2>3. <<a>> \in Seq(X) /\ <<b>> \in Seq(X)
    BY <2>1
  <2>4. <<a>> \o <<b>> \in Seq(X)
    BY <2>3, ConcatProperties
  <2> QED
    BY <2>2, <2>3, <2>4 DEF a, b
<1>4. parts \in [1 .. m -> Seq(X)]
  <2> HIDE DEF Lines, X
  <2> QED
    BY <1>3
<1>5. PICK w : /\ FlattenSeq(parts) = w[m] /\ w[1] = parts[1]
               /\ \A i \in 2 .. m : w[i] = w[i - 1] \o parts[i]
  <2> HIDE DEF parts, X
  <2> QED
    BY <1>0, <1>4, Flattened
<1>6. \A i \in 1 .. m : parts[i] = Lines(i)
  OBVIOUS
<1>6a. \A i \in 2 .. m : w[i] = w[i - 1] \o Lines(i)
  <2>1. \A i \in 2 .. m : i \in 1 .. m
    OBVIOUS
  <2> HIDE DEF Lines, parts
  <2> QED
    BY <2>1, <1>5, <1>6
<1> DEFINE Settled(i) ==
             /\ w[i] \in Seq(X)
             /\ \E st : /\ ReadTo(w[i], st) /\ Tidy(st.data)
                        /\ st = [in |-> <<e(i)[1]>>, data |-> st.data]
           T == {j \in 0 .. m - 1 : Settled(j + 1)}
<1> HIDE DEF parts, X
\* Behind any lines, in their section or with a section of its own.
<1>7. ASSUME NEW f \in Seq(X), NEW st, ReadTo(f, st), Tidy(st.data), NEW i \in 1 .. m,
             \/ /\ Lines(i) = <<Entry(e(i)[2], e(i)[3])>>
                /\ st = [in |-> <<e(i)[1]>>, data |-> st.data]
             \/ Lines(i) = <<SectionLine(e(i)[1])>> \o <<Entry(e(i)[2], e(i)[3])>>
      PROVE  /\ f \o Lines(i) \in Seq(X)
             /\ \E new : /\ ReadTo(f \o Lines(i), new) /\ Tidy(new.data)
                         /\ new = [in |-> <<e(i)[1]>>, data |-> new.data]
  <2> DEFINE d == e(i)
             a == SectionLine(d[1])
             b == Entry(d[2], d[3])
  <2>1. a \in X /\ b \in X /\ Lines(i) \in Seq(X)
    BY <1>2, <1>3
  <2>2. IsDefault(d)
    BY <1>0, NewEntriesMean
  <2>3. \/ Lines(i) = <<b>> /\ st = [in |-> <<d[1]>>, data |-> st.data]
        \/ Lines(i) = <<a>> \o <<b>>
    BY <1>7
  <2>4. f \o Lines(i) \in Seq(X)
    BY <2>1, ConcatProperties
  <2> HIDE DEF Lines, d
  <2>5. ASSUME NEW g \in Seq(X), NEW at, ReadTo(g, at), Tidy(at.data),
               at = [in |-> <<d[1]>>, data |-> at.data]
        PROVE  \E new : /\ ReadTo(Append(g, b), new) /\ Tidy(new.data)
                        /\ new = [in |-> <<d[1]>>, data |-> new.data]
    <3> DEFINE new == ReadLine(at, b)
    <3>1. new = [in |-> <<d[1]>>, data |-> new.data] /\ Tidy(new.data)
      BY <2>2, <2>5, ReadDefault
    <3>2. ReadTo(Append(g, b), new)
      <4> HIDE DEF b
      <4> QED
        BY <2>1, <2>5, ReadMore
    <3> HIDE DEF new
    <3> QED
      BY <3>1, <3>2
  <2>6. CASE Lines(i) = <<b>> /\ st = [in |-> <<d[1]>>, data |-> st.data]
    <3>1. f \o Lines(i) = Append(f, b)
      <4> HIDE DEF b
      <4> QED
        BY <2>1, <2>6
    <3> QED
      BY <2>4, <2>5, <2>6, <3>1, <1>7 DEF d
  <2>7. CASE Lines(i) = <<a>> \o <<b>>
    <3> DEFINE g == Append(f, a)
               at == ReadLine(st, a)
    <3>1. Tidy(at.data) /\ at.in = <<d[1]>>
      BY <2>2, <1>7, ReadDefault
    <3>2. at = [in |-> <<d[1]>>, data |-> at.data]
      <4>1. d[1] \notin Sign
        BY <2>2 DEF IsDefault
      <4>2. at = [in |-> <<d[1]>>, data |-> Assigned(st.data, <<d[1]>>, KeysOf(st.data, <<d[1]>>))]
        BY <4>1, ReadSection
      <4> HIDE DEF at
      <4> QED
        BY <4>2
    <3>3. ReadTo(g, at) /\ g \in Seq(X)
      <4> HIDE DEF a
      <4> QED
        BY <2>1, <1>7, ReadMore
    <3>4. f \o Lines(i) = Append(g, b)
      <4> HIDE DEF a, b
      <4>1. f \o (<<a>> \o <<b>>) = Append(Append(f, a), b)
        BY <2>1, TwoMore
      <4> QED
        BY <4>1, <2>7
    <3> HIDE DEF g, at, a, b
    <3>5. \E new : /\ ReadTo(Append(g, b), new) /\ Tidy(new.data)
                   /\ new = [in |-> <<d[1]>>, data |-> new.data]
      BY <2>5, <3>1, <3>2, <3>3
    <3> QED
      BY <2>4, <3>4, <3>5 DEF d
  <2> QED
    BY <2>3, <2>6, <2>7
<1>8. 0 \in T
  <2>1. <<>> \in Seq(X) /\ ReadTo(<<>>, Empty) /\ Tidy(Empty.data)
    BY ReadNothing DEF Tidy, Empty
  <2>2. Lines(1) = <<SectionLine(e(1)[1])>> \o <<Entry(e(1)[2], e(1)[3])>>
    OBVIOUS
  <2> HIDE DEF Lines
  <2>3. 1 \in 1 .. m /\ w[1] = Lines(1) /\ Lines(1) \in Seq(X)
    BY <1>0, <1>3, <1>5, <1>6
  <2>4. <<>> \o Lines(1) = Lines(1)
    BY <2>3
  <2>5. \E new : /\ ReadTo(<<>> \o Lines(1), new) /\ Tidy(new.data)
                 /\ new = [in |-> <<e(1)[1]>>, data |-> new.data]
    BY <2>1, <2>2, <2>3, <1>7
  <2>6. Settled(0 + 1)
    BY <2>3, <2>4, <2>5
  <2> HIDE DEF Settled
  <2> QED
    BY <2>6, <1>0
<1>9. ASSUME NEW j \in 1 .. m - 1, j - 1 \in T PROVE j \in T
  <2>1. j \in 1 .. m /\ j + 1 \in 2 .. m /\ j + 1 \in 1 .. m /\ j + 1 # 1 /\ j - 1 + 1 = j
        /\ j + 1 - 1 = j /\ j \in 0 .. m - 1
    BY <1>0
  <2>2. Settled(j)
    BY <1>9, <2>1
  <2>3. PICK st : /\ ReadTo(w[j], st) /\ Tidy(st.data)
                  /\ st = [in |-> <<e(j)[1]>>, data |-> st.data]
    BY <2>2
  <2>4. \/ /\ Lines(j + 1) = <<Entry(e(j + 1)[2], e(j + 1)[3])>>
           /\ st = [in |-> <<e(j + 1)[1]>>, data |-> st.data]
        \/ Lines(j + 1) = <<SectionLine(e(j + 1)[1])>> \o <<Entry(e(j + 1)[2], e(j + 1)[3])>>
    BY <2>1, <2>3
  <2> HIDE DEF Lines
  <2>5. w[j + 1] = w[j] \o Lines(j + 1)
    <3> DEFINE i == j + 1
    <3>1. i \in 2 .. m /\ i - 1 = j
      BY <2>1
    <3> HIDE DEF i
    <3>2. w[i] = w[j] \o Lines(i)
      BY <3>1, <1>6a
    <3> QED
      BY <3>2 DEF i
  <2>6. w[j] \in Seq(X)
    BY <2>2
  <2>7. Settled(j + 1)
    BY <2>1, <2>3, <2>4, <2>5, <2>6, <1>7
  <2> HIDE DEF Settled
  <2> QED
    BY <2>1, <2>7
<1>10. Settled(m)
  <2>1. T \in SUBSET (0 .. m - 1) /\ m - 1 \in Nat /\ m - 1 \in 0 .. m - 1 /\ m - 1 + 1 = m
    BY <1>0
  <2>2. m - 1 \in T
    <3> HIDE DEF T
    <3> QED
      BY <2>1, <1>8, <1>9, UpTo
  <2> HIDE DEF Settled
  <2> QED
    BY <2>1, <2>2
<1>11. PICK st : ReadTo(w[m], st) /\ Tidy(st.data)
  BY <1>10
<1>12. w[m] \in Seq(X)
  BY <1>10
<1>13. Parsed(w[m]) = st.data
  <2>1. Len(w[m]) \in Nat
    BY <1>12
  <2> QED
    BY <2>1, <1>11, ParsedIs
<1> QED
  BY <1>1, <1>5, <1>11, <1>13

-------------------------------------------------------------------------------
(***************************************************************************)
(* The settings.                                                           *)
(***************************************************************************)
LEMMA TidyLoads ==
  ASSUME NEW f, Tidy(Parsed(f))
  PROVE  Loaded(f) = Initial
<1> DEFINE data == Parsed(f)
<1>0. Tidy(data)
  OBVIOUS
<1> HIDE DEF data
<1>1. ASSUME NEW k \in Switches PROVE ReadBoolean(data, <<"patches", k>>, FALSE) = FALSE
  <2> DEFINE p == "patches"
             at == <<p, k>>
  <2>1. at[1] = p /\ at[2] = k
    <3> HIDE DEF p
    <3> QED
      BY PairParts
  <2>2. Has(data, at) => Get(data, at) = <<"False">>
    <3>1. ASSUME Has(data, at) PROVE Means(p, k, Get(data, at))
      <4> HIDE DEF at, p
      <4> QED
        BY <3>1, <2>1, <1>0 DEF Has, Get, Tidy
    <3> QED
      BY <3>1 DEF Means
  <2> HIDE DEF at
  <2>3. ReadBoolean(data, at, FALSE) = FALSE
    BY <2>2, WordsAssumption DEF ReadBoolean, No
  <2> QED
    BY <2>3 DEF at
<1>2. Clamped(ReadInteger(data, <<"patches", "client_language">>, 1)) = 1
  <2> DEFINE p == "patches"
             k == "client_language"
             at == <<p, k>>
  <2>1. at[1] = p /\ at[2] = k
    <3> HIDE DEF p, k
    <3> QED
      BY PairParts
  <2>2. Has(data, at) => Get(data, at) = <<"1">>
    <3>1. ASSUME Has(data, at) PROVE Means(p, k, Get(data, at))
      <4> HIDE DEF at, p, k
      <4> QED
        BY <3>1, <2>1, <1>0 DEF Has, Get, Tidy
    <3> QED
      BY <3>1 DEF Means
  <2> HIDE DEF at
  <2>3. <<"1">>[1] = "1" /\ "1" \in DOMAIN Number /\ Number["1"] = 1
    BY WordsAssumption
  <2>4. ReadInteger(data, at, 1) = 1
    BY <2>2, <2>3 DEF ReadInteger
  <2>5. Clamped(ReadInteger(data, at, 1)) = 1
    BY <2>4 DEF Clamped
  <2> QED
    BY <2>5 DEF at
<1>3. ASSUME NEW u \in Urls PROVE ReadString(data, u, DefaultUrl[u]) = Official[u]
  <2>1. PICK t \in Hosts : Official[u] = <<t>>
    BY Officials
  <2>2. t \notin Quote
    BY NoSigns DEF Sign
  <2>3. DefaultUrl[u] = Official[u]
    BY DEF DefaultUrl
  <2>4. u = <<u[1], u[2]>>
    BY DEF Urls
  <2>5. ASSUME Has(data, u) PROVE Get(data, u) = Official[u]
    <3>1. Means(u[1], u[2], Get(data, u))
      BY <2>5, <1>0 DEF Has, Get, Tidy
    <3> QED
      BY <3>1, <2>4 DEF Means
  <2> DEFINE v == IF Has(data, u) THEN Get(data, u) ELSE <<>>
             open == IF v # <<>> /\ v[1] \in Quote THEN Tail(v) ELSE v
             text == IF open # <<>> /\ open[Len(open)] \in Quote THEN Front(open) ELSE open
  <2>6. ReadString(data, u, DefaultUrl[u]) = IF open = <<>> THEN DefaultUrl[u] ELSE text
    BY DEF ReadString
  <2>7. <<t>> # <<>> /\ Len(<<t>>) = 1 /\ <<t>>[1] = t
    OBVIOUS
  <2> HIDE DEF text
  <2>8. CASE ~Has(data, u)
    <3>1. v = <<>>
      BY <2>8
    <3>2. open = <<>>
      BY <3>1
    <3> QED
      BY <3>2, <2>6, <2>3
  <2>9. CASE Has(data, u)
    <3>1. v = <<t>>
      BY <2>9, <2>5, <2>1
    <3> HIDE DEF v
    <3>2. open = <<t>>
      BY <3>1, <2>2, <2>7
    <3> HIDE DEF open
    <3>3. text = <<t>>
      BY <3>2, <2>2, <2>7 DEF text
    <3> QED
      BY <3>2, <3>3, <2>6, <2>7, <2>1
  <2> QED
    BY <2>8, <2>9
<1>4. {"gameguard", "redirect", "episode4_mode", "enable_direct_input"} \subseteq Switches
  BY DEF Switches
<1>5. [u \in Urls |-> ReadString(data, u, DefaultUrl[u])] = [u \in Urls |-> Official[u]]
  BY <1>3
<1>6. /\ ReadBoolean(data, <<"patches", "gameguard">>, FALSE) = FALSE
      /\ ReadBoolean(data, <<"patches", "redirect">>, FALSE) = FALSE
      /\ ReadBoolean(data, <<"patches", "episode4_mode">>, FALSE) = FALSE
      /\ ReadBoolean(data, <<"patches", "enable_direct_input">>, FALSE) = FALSE
  BY <1>1, <1>4
<1>7. Loaded(f) =
        [gameguard |-> ReadBoolean(data, <<"patches", "gameguard">>, FALSE),
         redirect  |-> ReadBoolean(data, <<"patches", "redirect">>, FALSE),
         episode4  |-> ReadBoolean(data, <<"patches", "episode4_mode">>, FALSE),
         noIME     |-> ReadBoolean(data, <<"patches", "enable_direct_input">>, FALSE),
         language  |-> Clamped(ReadInteger(data, <<"patches", "client_language">>, 1)),
         url       |-> [u \in Urls |-> ReadString(data, u, DefaultUrl[u])]]
  BY DEF Loaded, data
<1> QED
  BY <1>2, <1>5, <1>6, <1>7, Zenon DEF Initial

LEMMA NothingTidy == Tidy(Parsed(<<>>))
<1>1. Len(<<>>) = 0 /\ Len(<<>>) \in Nat
  OBVIOUS
<1>2. ReadTo(<<>>, Empty)
  BY <1>1, ReadNothing
<1>3. Parsed(<<>>) = Empty.data
  BY <1>1, <1>2, ParsedIs
<1> QED
  BY <1>3 DEF Tidy, Empty

\* Until the user writes a file, there is none or a copy of what was created, be it
\* a part of it only.
FileInv == ~byUser => file = NoFile \/ \E m \in 1 .. Len(NewEntries) : file = NewFile(m)
CreatedInv == created \in 0 .. Len(NewEntries) /\ n \in Nat \ {0}
UntouchedInv == FileInv /\ CreatedInv /\ UntouchedMeansDefaults

LEMMA UntouchedStep ==
  ASSUME UntouchedInv, [Next]_vars
  PROVE  UntouchedInv'
<1>0. Len(NewEntries) \in Nat
  BY NewEntriesMean
<1>1. CreatedInv'
  BY <1>0 DEF UntouchedInv, CreatedInv, Next, vars, Launch, CreateNewConfigFile, Created,
              LoadConfigurationFile, GetHostByName, Exit, UserEdits, UserCopies
<1>2. FileInv'
  <2>1. CASE UserEdits
    BY <2>1 DEF UserEdits, FileInv
  <2>2. CASE UserCopies
    <3>1. created \in 1 .. Len(NewEntries)
      BY <2>2, <1>0 DEF UntouchedInv, CreatedInv, UserCopies
    <3>2. file' = NewFile(created) /\ byUser' = byUser
      BY <2>2 DEF UserCopies
    <3>3. PICK m \in 1 .. Len(NewEntries) : m = created
      BY <3>1
    <3>4. file' = NewFile(m)
      BY <3>2, <3>3
    <3> QED
      BY <3>4 DEF FileInv
  <2>3. CASE UNCHANGED <<file, byUser>>
    BY <2>3 DEF UntouchedInv, FileInv
  <2>4. UNCHANGED <<file, byUser>> \/ UserEdits \/ UserCopies
    BY DEF Next, vars, Launch, CreateNewConfigFile, Created, LoadConfigurationFile,
           GetHostByName, Exit
  <2> QED
    BY <2>1, <2>2, <2>3, <2>4
<1>3. UntouchedMeansDefaults'
  <2>1. CASE LoadConfigurationFile
    <3>1. SUFFICES ASSUME ~byUser' PROVE settings' = Initial
      BY DEF UntouchedMeansDefaults
    <3>2. ~byUser /\ settings' = Loaded(Contents(file))
      BY <2>1, <3>1 DEF LoadConfigurationFile
    <3>3. Tidy(Parsed(Contents(file)))
      <4>1. CASE file = NoFile
        BY <4>1, NothingTidy DEF Contents
      <4>2. CASE file # NoFile
        <5>1. PICK m \in 1 .. Len(NewEntries) : file = NewFile(m)
          BY <4>2, <3>2 DEF UntouchedInv, FileInv
        <5>2. Contents(file) = NewFile(m)
          BY <4>2, <5>1 DEF Contents
        <5> QED
          BY <5>2, NewFileTidy
      <4> QED
        BY <4>1, <4>2
    <3> QED
      BY <3>2, <3>3, TidyLoads
  <2>2. CASE UNCHANGED <<phase, settings, byUser>>
    BY <2>2 DEF UntouchedInv, UntouchedMeansDefaults
  <2>3. CASE phase' # "running" \/ byUser'
    BY <2>3 DEF UntouchedMeansDefaults
  <2>4. \/ LoadConfigurationFile \/ UNCHANGED <<phase, settings, byUser>>
        \/ phase' # "running" \/ byUser'
    BY DEF Next, vars, Launch, CreateNewConfigFile, Created, GetHostByName, Exit, UserEdits,
           UserCopies
  <2> QED
    BY <2>1, <2>2, <2>3, <2>4
<1> QED
  BY <1>1, <1>2, <1>3 DEF UntouchedInv

THEOREM UntouchedInductive == Spec => []UntouchedInv
<1>1. Init => UntouchedInv
  <2>1. Len(NewEntries) \in Nat
    BY NewEntriesMean
  <2> QED
    BY <2>1 DEF Init, UntouchedInv, FileInv, CreatedInv, UntouchedMeansDefaults
<1> QED
  BY <1>1, UntouchedStep, PTL DEF Spec

\* Whatever the user may write and wherever creating the file breaks off, over
\* any number of launches: until he writes one, the game runs with the
\* defaults (Settings::Init, settings.cc).
THEOREM UntouchedAlwaysMeansDefaults == Spec => []UntouchedMeansDefaults
<1>1. UntouchedInv => UntouchedMeansDefaults
  BY DEF UntouchedInv
<1> QED
  BY <1>1, UntouchedInductive, PTL

-------------------------------------------------------------------------------
(***************************************************************************)
(* Lookups.                                                                *)
(***************************************************************************)
\* No two entries have the same official name.
LEMMA OfficialsDiffer == \A u, v \in Urls : Official[u] = Official[v] => u = v
BY DEF Urls, Official

\* What the game was told is what the file it was launched with says.
AsRead ==
  /\ phase = "running" => settings = Loaded(readFrom)
  /\ lookup # NoLookup =>
       LET mem == Loaded(readFrom) IN
         /\ phase = "running" /\ lookup.name \in Names
         /\ ~mem.redirect => lookup.sent = lookup.name
         /\ mem.redirect =>
              /\ \A u \in Urls : Official[u] = lookup.name => lookup.sent = mem.url[u]
              /\ lookup.name \in OtherNames => lookup.sent = <<>>

LEMMA Redirected ==
  ASSUME NEW mem, NEW name \in Names
  PROVE  /\ ~mem.redirect => Forwarded(mem, name) = name
         /\ mem.redirect =>
              /\ \A u \in Urls : Official[u] = name => Forwarded(mem, name) = mem.url[u]
              /\ name \in OtherNames => Forwarded(mem, name) = <<>>
<1>1. ASSUME mem.redirect, NEW u \in Urls, Official[u] = name
      PROVE  Forwarded(mem, name) = mem.url[u]
  <2>1. \A v \in Urls : Official[v] = name => v = u
    BY <1>1, OfficialsDiffer
  <2> QED
    BY <1>1, <2>1 DEF Forwarded
<1>2. ASSUME mem.redirect, name \in OtherNames PROVE Forwarded(mem, name) = <<>>
  BY <1>2, NamesAssumption DEF Forwarded
<1>3. ~mem.redirect => Forwarded(mem, name) = name
  BY DEF Forwarded
<1> QED
  BY <1>1, <1>2, <1>3

LEMMA AsReadStep ==
  ASSUME AsRead, [Next]_vars
  PROVE  AsRead'
<1>1. CASE LoadConfigurationFile
  <2>1. phase = "load" /\ phase' = "running" /\ lookup' = lookup
        /\ settings' = Loaded(Contents(file)) /\ readFrom' = Contents(file)
    BY <1>1 DEF LoadConfigurationFile
  <2>2. lookup = NoLookup
    BY <2>1 DEF AsRead
  <2>3. settings' = Loaded(readFrom')
    BY <2>1
  <2> QED
    BY <2>1, <2>2, <2>3 DEF AsRead, NoLookup
<1>2. ASSUME NEW name \in Names, GetHostByName(name) PROVE AsRead'
  <2> DEFINE mem == Loaded(readFrom)
  <2>1. /\ phase = "running" /\ UNCHANGED <<phase, settings, readFrom>>
        /\ lookup' = [name |-> name, sent |-> Forwarded(settings, name)]
    BY <1>2 DEF GetHostByName
  <2>2. settings = mem
    BY <2>1 DEF AsRead
  <2> HIDE DEF mem
  <2>3. lookup'.name = name /\ lookup'.sent = Forwarded(mem, name)
    BY <2>1, <2>2
  <2>4. /\ ~mem.redirect => Forwarded(mem, name) = name
        /\ mem.redirect =>
             /\ \A u \in Urls : Official[u] = name => Forwarded(mem, name) = mem.url[u]
             /\ name \in OtherNames => Forwarded(mem, name) = <<>>
    BY Redirected
  <2>5. Names' = Names /\ mem' = mem
    BY <2>1 DEF Names, mem
  <2> QED
    BY <2>1, <2>2, <2>3, <2>4, <2>5 DEF AsRead, mem
<1>3. CASE Exit
  BY <1>3 DEF Exit, AsRead, NoLookup
<1>4. CASE /\ UNCHANGED <<settings, readFrom, lookup>>
           /\ phase' = phase \/ (phase # "running" /\ phase' # "running")
  <2>1. CASE lookup = NoLookup
    BY <1>4, <2>1 DEF AsRead, NoLookup
  <2>2. CASE lookup # NoLookup
    <3>1. phase' = phase
      BY <1>4, <2>2 DEF AsRead
    <3>2. Names' = Names
      BY DEF Names
    <3> QED
      BY <1>4, <3>1, <3>2 DEF AsRead, NoLookup
  <2> QED
    BY <2>1, <2>2
<1> QED
  BY <1>1, <1>2, <1>3, <1>4
     DEF Next, vars, Launch, CreateNewConfigFile, Created, UserEdits, UserCopies

\* However the user edits the file while the game runs: a name goes where its own
\* entry in the file read at launch sends it, once, even where that is another
\* official name, and a name that is no official one becomes empty
\* (LoadConfigurationFile and _gethostbyname, wsock32.cc).
THEOREM LookupsAreAsRead == Spec => []AsRead
<1>1. Init => AsRead
  BY DEF Init, AsRead, NoLookup
<1> QED
  BY <1>1, AsReadStep, PTL DEF Spec
-------------------------------------------------------------------------------
(***************************************************************************)
(* What stands in a line.                                                  *)
(***************************************************************************)
\* A set of places has a first and a last one.
LEMMA MinIs ==
  ASSUME NEW S \in SUBSET Nat, NEW m \in S, \A i \in S : m <= i
  PROVE  Min(S) = m
<1>1. \A x \in S : (\A y \in S : x <= y) => x = m
  OBVIOUS
<1> QED
  BY <1>1 DEF Min

LEMMA MaxIs ==
  ASSUME NEW S \in SUBSET Nat, NEW m \in S, \A i \in S : m >= i
  PROVE  Max(S) = m
<1>1. \A x \in S : (\A y \in S : x >= y) => x = m
  OBVIOUS
<1> QED
  BY <1>1 DEF Max

LEMMA Greatest ==
  ASSUME NEW N \in Nat, NEW S \in SUBSET (1 .. N), S # {}
  PROVE  \E m \in S : \A i \in S : m >= i
<1> DEFINE R == {N - i : i \in S}
<1>1. R \in SUBSET Nat /\ R # {}
  <2>1. \A i \in S : N - i \in Nat
    OBVIOUS
  <2>2. PICK i \in S : TRUE
    OBVIOUS
  <2>3. N - i \in R
    OBVIOUS
  <2> QED
    BY <2>1, <2>3
<1>2. PICK r \in R : \A k \in R : r <= k
  <2> HIDE DEF R
  <2> QED
    BY <1>1, Least
<1>3. PICK m \in S : r = N - m
  BY <1>2
<1>4. ASSUME NEW i \in S PROVE m >= i
  <2>1. N - m <= N - i
    BY <1>2, <1>3
  <2> QED
    BY <2>1
<1> QED
  BY <1>3, <1>4

LEMMA FirstOne ==
  ASSUME NEW N \in Nat, NEW S \in SUBSET (1 .. N), S # {}
  PROVE  Min(S) \in S /\ \A i \in S : Min(S) <= i
<1>1. S \in SUBSET Nat
  OBVIOUS
<1>2. PICK m \in S : \A i \in S : m <= i
  BY <1>1, Least
<1>3. Min(S) = m
  BY <1>1, <1>2, MinIs
<1> QED
  BY <1>2, <1>3

LEMMA LastOne ==
  ASSUME NEW N \in Nat, NEW S \in SUBSET (1 .. N), S # {}
  PROVE  Max(S) \in S /\ \A i \in S : Max(S) >= i
<1>1. S \in SUBSET Nat
  OBVIOUS
<1>2. PICK m \in S : \A i \in S : m >= i
  BY Greatest
<1>3. Max(S) = m
  BY <1>1, <1>2, MaxIs
<1> QED
  BY <1>2, <1>3

\* Of s the first m tokens stand before the first of places S.
Cut(s, S, m) ==
  /\ m \in 0 .. Len(s) /\ (\A i \in S : m < i)
  /\ m = Len(s) \/ m + 1 \in S

LEMMA CutBefore ==
  ASSUME NEW T, NEW s \in Seq(T), NEW S \in SUBSET DOMAIN s, NEW m, Cut(s, S, m)
  PROVE  Before(s, S) = SubSeq(s, 1, m)
<1>0. Len(s) \in Nat /\ S \in SUBSET (1 .. Len(s)) /\ S \in SUBSET Nat /\ m \in 0 .. Len(s)
  BY DEF Cut
<1>1. CASE S = {}
  <2>1. m = Len(s)
    BY <1>1 DEF Cut
  <2>2. SubSeq(s, 1, Len(s)) = s
    OBVIOUS
  <2> QED
    BY <1>1, <2>1, <2>2 DEF Before
<1>2. CASE S # {}
  <2>1. m + 1 \in S
    BY <1>0, <1>2 DEF Cut
  <2>2. \A i \in S : m + 1 <= i
    BY <1>0 DEF Cut
  <2>3. Min(S) = m + 1
    BY <1>0, <2>1, <2>2, MinIs
  <2>4. Min(S) - 1 = m
    BY <1>0, <2>3
  <2> QED
    BY <1>2, <2>4 DEF Before
<1> QED
  BY <1>1, <1>2

LEMMA SomeCut ==
  ASSUME NEW T, NEW s \in Seq(T), NEW S \in SUBSET DOMAIN s
  PROVE  \E m \in 0 .. Len(s) : Cut(s, S, m)
<1>0. Len(s) \in Nat /\ S \in SUBSET (1 .. Len(s))
  OBVIOUS
<1>1. CASE S = {}
  BY <1>0, <1>1 DEF Cut
<1>2. CASE S # {}
  <2>1. PICK f \in S : \A i \in S : f <= i
    <3>1. S \in SUBSET Nat
      BY <1>0
    <3> QED
      BY <1>2, <3>1, Least
  <2> DEFINE m == f - 1
  <2>2. m \in 0 .. Len(s) /\ m + 1 = f /\ \A i \in S : m < i
    BY <1>0, <2>1
  <2>3. Cut(s, S, m)
    BY <2>2, <2>1 DEF Cut
  <2> QED
    BY <2>2, <2>3
<1> QED
  BY <1>1, <1>2

LEMMA PrefixParts ==
  ASSUME NEW T, NEW s \in Seq(T), NEW m \in 0 .. Len(s)
  PROVE  /\ SubSeq(s, 1, m) \in Seq(T) /\ Len(SubSeq(s, 1, m)) = m
         /\ DOMAIN SubSeq(s, 1, m) = 1 .. m
         /\ \A i \in 1 .. m : SubSeq(s, 1, m)[i] = s[i]
         /\ \A k \in 0 .. m : SubSeq(SubSeq(s, 1, m), 1, k) = SubSeq(s, 1, k)
<1>1. /\ SubSeq(s, 1, m) \in Seq(T) /\ Len(SubSeq(s, 1, m)) = m
      /\ DOMAIN SubSeq(s, 1, m) = 1 .. m
      /\ \A i \in 1 .. m : SubSeq(s, 1, m)[i] = s[i]
  OBVIOUS
<1>2. ASSUME NEW k \in 0 .. m PROVE SubSeq(SubSeq(s, 1, m), 1, k) = SubSeq(s, 1, k)
  <2> DEFINE p == SubSeq(s, 1, m)
             x == SubSeq(p, 1, k)
             y == SubSeq(s, 1, k)
  <2>1. y \in Seq(T) /\ Len(y) = k /\ \A i \in 1 .. k : y[i] = s[i]
    OBVIOUS
  <2> HIDE DEF p
  <2>2. x \in Seq(T) /\ Len(x) = k /\ \A i \in 1 .. k : x[i] = p[i]
    BY <1>1 DEF p
  <2>3. \A i \in 1 .. k : x[i] = y[i]
    BY <1>1, <2>1, <2>2 DEF p
  <2> HIDE DEF x, y
  <2>4. x = y
    BY <2>1, <2>2, <2>3, SeqEqual
  <2> QED
    BY <2>4 DEF x, y, p
<1> QED
  BY <1>1, <1>2

\* Looking for the comments one after the other leaves what stands before all of
\* them, where at most one has slashes.
LEMMA CommentFirst ==
  ASSUME NEW T, NEW s \in Seq(T), \A a, b \in Slashes(s) : a = b
  PROVE  Uncommented(s) =
           Before(s, Signs(s, Semicolon) \union Signs(s, "#") \union Slashes(s))
<1> DEFINE Hash == "#"
           A == Signs(s, Semicolon)
           H == Signs(s, Hash)
           all == A \union H \union Slashes(s)
           a == Before(s, A)
           S2 == {i \in Slashes(a) : \A j \in Slashes(a) : j <= i}
           b == Before(a, S2)
           H3 == Signs(b, Hash)
<1>0. /\ A \in SUBSET DOMAIN s /\ H \in SUBSET DOMAIN s /\ all \in SUBSET DOMAIN s
      /\ Slashes(s) \in SUBSET DOMAIN s /\ DOMAIN s = 1 .. Len(s) /\ Len(s) \in Nat
  BY DEF Signs, Slashes
<1>n. Len(s) \in Nat
  BY <1>0
<1>u. Uncommented(s) = Before(b, H3)
  BY DEF Uncommented
<1>s. "//" # Semicolon /\ "//" # Hash
  BY Zenon DEF Semicolon
<1> HIDE DEF Hash, a
<1>1. PICK k \in 0 .. Len(s) : Cut(s, A, k)
  BY <1>0, SomeCut
<1>2. a = SubSeq(s, 1, k)
  BY <1>0, <1>1, CutBefore DEF a
<1>3. a \in Seq(T) /\ Len(a) = k /\ DOMAIN a = 1 .. k /\ \A i \in 1 .. k : a[i] = s[i]
  BY <1>2, PrefixParts
<1>4. Slashes(a) = {i \in Slashes(s) : i < k}
  <2>1. \A i \in 1 .. k - 1 : i + 1 \in 1 .. k /\ i \in 1 .. k /\ i < Len(s)
    BY <1>0
  <2>2. \A i : i \in Slashes(a) <=> i \in 1 .. k - 1 /\ a[i] = Space /\ a[i + 1] = "//"
    BY <1>3, <2>1 DEF Slashes
  <2>3. \A i \in 1 .. k - 1 : i \in Slashes(s) <=> s[i] = Space /\ s[i + 1] = "//"
    BY <1>0, <2>1 DEF Slashes
  <2>4. \A i \in Slashes(s) : i < k <=> i \in 1 .. k - 1
    BY <1>0
  <2> QED
    BY <2>1, <2>2, <2>3, <2>4, <1>3
<1>5. S2 = Slashes(a) /\ S2 \in SUBSET DOMAIN a
  <2>1. \A i, j \in Slashes(a) : j <= i
    BY <1>4, <1>0
  <2> QED
    BY <2>1 DEF Slashes
<1> HIDE DEF S2, b
<1>6. PICK l \in 0 .. k : Cut(a, S2, l)
  BY <1>3, <1>5, SomeCut
<1>7. b = SubSeq(a, 1, l) /\ b = SubSeq(s, 1, l)
  <2>1. b = SubSeq(a, 1, l)
    BY <1>3, <1>5, <1>6, CutBefore DEF b
  <2> QED
    BY <2>1, <1>2, PrefixParts
<1>8. l \in 0 .. Len(s)
  BY <1>n
<1>9. b \in Seq(T) /\ Len(b) = l /\ DOMAIN b = 1 .. l /\ \A i \in 1 .. l : b[i] = s[i]
  <2> DEFINE c == SubSeq(s, 1, l)
  <2>1. c \in Seq(T) /\ Len(c) = l /\ DOMAIN c = 1 .. l /\ \A i \in 1 .. l : c[i] = s[i]
    BY <1>8, PrefixParts
  <2>2. b = c
    BY <1>7
  <2> HIDE DEF c
  <2> QED
    BY <2>1, <2>2
<1>10. H3 = {i \in H : i <= l} /\ H3 \in SUBSET DOMAIN b
  BY <1>0, <1>8, <1>9 DEF Signs
<1> HIDE DEF H3
<1>11. PICK m \in 0 .. l : Cut(b, H3, m)
  BY <1>9, <1>10, SomeCut
<1>12. Before(b, H3) = SubSeq(s, 1, m)
  <2>1. Before(b, H3) = SubSeq(b, 1, m)
    BY <1>9, <1>10, <1>11, CutBefore
  <2> QED
    BY <2>1, <1>7, <1>8, PrefixParts
<1>13. Cut(s, all, m)
  <2>0. /\ k \in Nat /\ l \in Nat /\ m \in 0 .. Len(s)
        /\ m <= l /\ l <= k /\ k <= Len(s)
    BY <1>n
  <2>1. \A i \in A : m < i
    <3>1. ASSUME NEW i \in A PROVE m < i
      <4>1. k < i
        BY <1>1 DEF Cut
      <4>2. i \in Nat
        BY <1>0
      <4> QED
        BY <4>1, <4>2, <2>0
    <3> QED
      BY <3>1
  <2>2. \A i \in H : m < i
    <3>1. \A i \in H : i <= l => m < i
      BY <1>10, <1>11 DEF Cut
    <3> QED
      BY <3>1, <1>0, <2>0
  <2>3. \A i \in Slashes(s) : m < i
    <3>1. \A i \in Slashes(s) : i < k => l < i
      BY <1>4, <1>5, <1>6 DEF Cut
    <3>2. ASSUME NEW i \in Slashes(s), ~(i < k), ~(m < i) PROVE FALSE
      <4>1. i = k /\ m = k /\ l = k
        <5>1. i \in Nat
          BY <1>0
        <5>2. k <= i /\ i <= m
          BY <3>2, <2>0, <5>1
        <5> QED
          BY <5>1, <5>2, <2>0
      <4>2. k < Len(s) /\ s[k + 1] = "//"
        BY <4>1 DEF Slashes
      <4>3. k + 1 \in A
        <5>1. k # Len(s)
          BY <4>2, <1>n
        <5> QED
          BY <1>1, <5>1 DEF Cut
      <4>4. s[k + 1] = Semicolon
        BY <4>3 DEF Signs
      <4> QED
        BY <4>2, <4>4, <1>s
    <3> QED
      BY <3>1, <3>2, <1>0, <2>0
  <2>4. m = Len(s) \/ m + 1 \in all
    <3>1. m = l \/ m + 1 \in H
      BY <1>9, <1>10, <1>11 DEF Cut
    <3>2. l = k \/ l + 1 \in Slashes(s)
      BY <1>3, <1>4, <1>5, <1>6 DEF Cut
    <3>3. k = Len(s) \/ k + 1 \in A
      BY <1>1 DEF Cut
    <3> QED
      BY <3>1, <3>2, <3>3
  <2> HIDE DEF A, H
  <2> QED
    BY <2>0, <2>1, <2>2, <2>3, <2>4 DEF Cut
<1>14. Before(s, all) = SubSeq(s, 1, m)
  <2> HIDE DEF all
  <2> QED
    BY <1>0, <1>13, CutBefore
<1> QED
  BY <1>u, <1>12, <1>14 DEF Hash

\* Parts of parts.
LEMMA PartOf ==
  ASSUME NEW T, NEW s \in Seq(T), NEW x \in 1 .. Len(s) + 1, NEW y \in x - 1 .. Len(s)
  PROVE  /\ SubSeq(s, x, y) \in Seq(T) /\ Len(SubSeq(s, x, y)) = y - x + 1
         /\ DOMAIN SubSeq(s, x, y) = 1 .. y - x + 1
         /\ \A i \in 1 .. y - x + 1 : SubSeq(s, x, y)[i] = s[x + i - 1]
<1>1. Len(s) \in Nat
  OBVIOUS
<1>2. x \in Nat /\ y \in Nat /\ x >= 1 /\ y >= x - 1 /\ y <= Len(s) /\ x <= Len(s) + 1
  BY <1>1
<1>3. \A i \in x .. y : s[i] \in T
  BY <1>1, <1>2
<1>4. SubSeq(s, x, y) \in Seq(T) /\ Len(SubSeq(s, x, y)) = IF x <= y THEN y - x + 1 ELSE 0
  BY <1>1, <1>2, <1>3, SubSeqProperties
<1>5. \A i \in 1 .. y - x + 1 : SubSeq(s, x, y)[i] = s[x + i - 1]
  BY <1>1, <1>2, <1>3, SubSeqProperties
<1>6. Len(SubSeq(s, x, y)) = y - x + 1
  BY <1>2, <1>4
<1> QED
  BY <1>4, <1>5, <1>6

LEMMA PartOfPart ==
  ASSUME NEW T, NEW s \in Seq(T), NEW x \in 1 .. Len(s) + 1, NEW y \in x - 1 .. Len(s),
         NEW u \in 1 .. y - x + 2, NEW v \in u - 1 .. y - x + 1
  PROVE  SubSeq(SubSeq(s, x, y), u, v) = SubSeq(s, x + u - 1, x + v - 1)
<1> DEFINE p == SubSeq(s, x, y)
           a == SubSeq(p, u, v)
           b == SubSeq(s, x + u - 1, x + v - 1)
<1>0. Len(s) \in Nat
  OBVIOUS
<1>1. /\ p \in Seq(T) /\ Len(p) = y - x + 1
      /\ \A i \in 1 .. y - x + 1 : p[i] = s[x + i - 1]
  BY PartOf
<1> HIDE DEF p
<1>2. /\ u \in 1 .. Len(p) + 1 /\ v \in u - 1 .. Len(p)
      /\ x + u - 1 \in 1 .. Len(s) + 1 /\ x + v - 1 \in x + u - 1 - 1 .. Len(s)
  BY <1>0, <1>1
<1>3. a \in Seq(T) /\ Len(a) = v - u + 1 /\ \A i \in 1 .. v - u + 1 : a[i] = p[u + i - 1]
  BY <1>1, <1>2, PartOf
<1>4. /\ b \in Seq(T) /\ Len(b) = x + v - 1 - (x + u - 1) + 1
      /\ \A i \in 1 .. x + v - 1 - (x + u - 1) + 1 : b[i] = s[x + u - 1 + i - 1]
  <2> DEFINE c == x + u - 1
             d == x + v - 1
  <2>1. c \in 1 .. Len(s) + 1 /\ d \in c - 1 .. Len(s)
    BY <1>2
  <2> HIDE DEF c, d
  <2>2. /\ SubSeq(s, c, d) \in Seq(T) /\ Len(SubSeq(s, c, d)) = d - c + 1
        /\ \A i \in 1 .. d - c + 1 : SubSeq(s, c, d)[i] = s[c + i - 1]
    BY <2>1, PartOf
  <2> QED
    BY <2>2 DEF c, d
<1> HIDE DEF a, b
<1>5. x + v - 1 - (x + u - 1) + 1 = v - u + 1
  BY <1>0, <1>2
<1>6. ASSUME NEW i \in 1 .. v - u + 1 PROVE a[i] = b[i]
  <2>1. u + i - 1 \in 1 .. y - x + 1 /\ x + (u + i - 1) - 1 = x + u - 1 + i - 1
    BY <1>0, <1>2
  <2>2. p[u + i - 1] = s[x + (u + i - 1) - 1]
    BY <2>1, <1>1
  <2> QED
    BY <2>1, <2>2, <1>3, <1>4, <1>5
<1>7. a = b
  BY <1>3, <1>4, <1>5, <1>6, SeqEqual
<1> QED
  BY <1>7 DEF a, b, p

\* What is left of s when the run of tokens t is dropped it begins or ends with.
LEMMA DroppedAll ==
  ASSUME NEW s, NEW t, \A i \in DOMAIN s : s[i] \in t
  PROVE  Dropped(s, t) = <<>>
BY DEF Dropped

LEMMA DroppedTo ==
  ASSUME NEW T, NEW s \in Seq(T), NEW t, NEW p \in 1 .. Len(s), s[p] \notin t,
         \A i \in 1 .. p - 1 : s[i] \in t
  PROVE  Dropped(s, t) = SubSeq(s, p, Len(s))
<1> DEFINE rest == {i \in DOMAIN s : s[i] \notin t}
<1>1. p \in rest /\ \A i \in rest : p <= i
  <2>1. DOMAIN s = 1 .. Len(s) /\ Len(s) \in Nat
    OBVIOUS
  <2>2. ASSUME NEW i \in 1 .. Len(s), ~(p <= i) PROVE s[i] \in t
    <3>1. i \in 1 .. p - 1
      BY <2>1, <2>2
    <3> QED
      BY <3>1
  <2> QED
    BY <2>1, <2>2
<1>2. rest \in SUBSET Nat
  OBVIOUS
<1> HIDE DEF rest
<1>3. Min(rest) = p /\ rest # {}
  BY <1>1, <1>2, MinIs
<1> QED
  BY <1>3 DEF Dropped, rest

LEMMA DroppedBack ==
  ASSUME NEW T, NEW s \in Seq(T), NEW t, NEW q \in 1 .. Len(s), s[q] \notin t,
         \A i \in q + 1 .. Len(s) : s[i] \in t
  PROVE  Reverse(Dropped(Reverse(s), t)) = SubSeq(s, 1, q)
<1> DEFINE N == Len(s)
           r == Reverse(s)
           p == N - q + 1
           d == SubSeq(r, p, N)
           x == Reverse(d)
           y == SubSeq(s, 1, q)
<1>0. N \in Nat /\ q \in 1 .. N /\ p \in 1 .. N /\ N - p + 1 = q
  OBVIOUS
<1>1. s # <<>>
  BY EmptySeq
<1>2. r \in Seq(T) /\ Len(r) = N /\ \A i \in 1 .. N : r[i] = s[N - i + 1]
  <2>1. r \in Seq(T)
    BY <1>1, ReverseTwice
  <2>2. r = [i \in 1 .. N |-> s[(N - i) + 1]]
    BY DEF Reverse
  <2> QED
    BY <2>1, <2>2
<1>3. y \in Seq(T) /\ Len(y) = q /\ \A i \in 1 .. q : y[i] = s[i]
  BY PrefixParts
<1> HIDE DEF r, y
<1>4. Dropped(r, t) = d
  <2>1. r[p] \notin t
    <3>1. N - p + 1 = q
      BY <1>0
    <3> HIDE DEF p
    <3> QED
      BY <3>1, <1>0, <1>2
  <2>2. ASSUME NEW i \in 1 .. p - 1 PROVE r[i] \in t
    <3>1. N - i + 1 \in q + 1 .. N /\ i \in 1 .. N
      BY <1>0
    <3> QED
      BY <3>1, <1>2
  <2> HIDE DEF p, N
  <2> QED
    BY <1>0, <1>2, <2>1, <2>2, DroppedTo
<1> HIDE DEF p, N
<1>5. d \in Seq(T) /\ Len(d) = q /\ \A i \in 1 .. q : d[i] = r[p + i - 1]
  <2>1. p \in 1 .. Len(r) + 1 /\ N \in p - 1 .. Len(r)
    BY <1>0, <1>2
  <2>2. /\ d \in Seq(T) /\ Len(d) = N - p + 1
        /\ \A i \in 1 .. N - p + 1 : d[i] = r[p + i - 1]
    BY <2>1, <1>2, PartOf
  <2> HIDE DEF d
  <2> QED
    BY <2>2, <1>0
<1> HIDE DEF d
<1>6. x \in Seq(T) /\ Len(x) = q /\ \A i \in 1 .. q : x[i] = d[q - i + 1]
  <2>1. d # <<>>
    <3>1. Len(d) # 0
      BY <1>0, <1>5
    <3> QED
      BY <3>1, <1>5, EmptySeq
  <2>2. x \in Seq(T)
    BY <2>1, <1>5, ReverseTwice
  <2>3. x = [i \in 1 .. q |-> d[(q - i) + 1]]
    BY <1>5 DEF Reverse
  <2>4. Len(x) = q
    BY <1>0, <2>2, <2>3
  <2> QED
    BY <2>2, <2>3, <2>4
<1>7. ASSUME NEW i \in 1 .. q PROVE x[i] = y[i]
  <2>1. q - i + 1 \in 1 .. q /\ p + (q - i + 1) - 1 \in 1 .. N /\ N - (p + (q - i + 1) - 1) + 1 = i
    BY <1>0 DEF p
  <2>2. x[i] = d[q - i + 1] /\ y[i] = s[i]
    BY <1>3, <1>6
  <2>3. d[q - i + 1] = r[p + (q - i + 1) - 1]
    BY <2>1, <1>5
  <2>4. r[p + (q - i + 1) - 1] = s[N - (p + (q - i + 1) - 1) + 1]
    BY <2>1, <1>2
  <2> QED
    BY <2>1, <2>2, <2>3, <2>4
<1>8. x = y
  <2> HIDE DEF x
  <2> QED
    BY <1>3, <1>6, <1>7, SeqEqual
<1> QED
  BY <1>4, <1>8 DEF r, y

\* A line that has a byte order mark only at its beginning is trimmed of all
\* white space around it.
Unmarked(s) == Signs(s, "BOM") \subseteq {1}

LEMMA DropMark ==
  ASSUME NEW T, NEW s \in Seq(T), Unmarked(s)
  PROVE  \E r \in 0 .. Len(s) :
           /\ Dropped(s, {"BOM"}) = SubSeq(s, r + 1, Len(s))
           /\ \A i \in r + 1 .. Len(s) : s[i] # "BOM"
           /\ \A i \in 1 .. r : s[i] = "BOM"
<1> DEFINE Mark == "BOM"
<1>0. Len(s) \in Nat /\ DOMAIN s = 1 .. Len(s)
  OBVIOUS
<1>1. \A i \in 2 .. Len(s) : s[i] # Mark
  <2>1. \A i \in DOMAIN s : s[i] = Mark => i = 1
    BY DEF Unmarked, Signs
  <2>2. \A i \in 2 .. Len(s) : i \in DOMAIN s /\ i # 1
    BY <1>0
  <2> QED
    BY <2>1, <2>2
<1> HIDE DEF Mark
<1>2. CASE Len(s) = 0
  <2>1. Dropped(s, {Mark}) = <<>>
    BY <1>0, <1>2, DroppedAll
  <2>2. SubSeq(s, 0 + 1, Len(s)) = <<>>
    BY <1>2
  <2>3. 0 \in 0 .. Len(s) /\ (\A i \in 0 + 1 .. Len(s) : s[i] # Mark)
        /\ \A i \in 1 .. 0 : s[i] = Mark
    BY <1>2
  <2> QED
    BY <2>1, <2>2, <2>3 DEF Mark
<1>3. CASE Len(s) # 0 /\ s[1] # Mark
  <2>1. 1 \in 1 .. Len(s) /\ 0 + 1 = 1 /\ 0 \in 0 .. Len(s)
    BY <1>0, <1>3
  <2>2. s[1] \notin {Mark} /\ \A i \in 1 .. 1 - 1 : s[i] \in {Mark}
    BY <1>3
  <2>3. Dropped(s, {Mark}) = SubSeq(s, 1, Len(s))
    BY <2>1, <2>2, <1>3, DroppedTo
  <2>4. \A i \in 1 .. Len(s) : s[i] # Mark
    <3>1. \A i \in 1 .. Len(s) : i = 1 \/ i \in 2 .. Len(s)
      BY <1>0
    <3> QED
      BY <3>1, <1>1, <1>3
  <2>5. \A i \in 1 .. 0 : s[i] = Mark
    OBVIOUS
  <2> QED
    BY <2>1, <2>3, <2>4, <2>5 DEF Mark
<1>4. CASE Len(s) = 1 /\ s[1] = Mark
  <2>1. Dropped(s, {Mark}) = <<>>
    BY <1>0, <1>4, DroppedAll
  <2>2. SubSeq(s, 1 + 1, Len(s)) = <<>>
    BY <1>4
  <2>3. /\ 1 \in 0 .. Len(s) /\ \A i \in 1 + 1 .. Len(s) : s[i] # Mark
        /\ \A i \in 1 .. 1 : s[i] = Mark
    BY <1>4
  <2> QED
    BY <2>1, <2>2, <2>3 DEF Mark
<1>5. CASE Len(s) >= 2 /\ s[1] = Mark
  <2>1. 2 \in 1 .. Len(s) /\ 1 + 1 = 2 /\ 1 \in 0 .. Len(s)
    BY <1>0, <1>5
  <2>2. s[2] \notin {Mark} /\ \A i \in 1 .. 2 - 1 : s[i] \in {Mark}
    BY <2>1, <1>1, <1>5
  <2>3. Dropped(s, {Mark}) = SubSeq(s, 2, Len(s))
    BY <2>1, <2>2, DroppedTo
  <2>4. \A i \in 1 .. 1 : s[i] = Mark
    BY <1>5
  <2> QED
    BY <2>1, <2>3, <2>4, <1>1 DEF Mark
<1> QED
  BY <1>0, <1>2, <1>3, <1>4, <1>5

LEMMA TrimBoth ==
  ASSUME NEW T, NEW s \in Seq(T), Unmarked(s)
  PROVE  trim(s, TRUE, TRUE) = Trimmed(s)
<1>0. PICK N \in Nat : N = Len(s) /\ DOMAIN s = 1 .. N
  OBVIOUS
<1> DEFINE Mark == "BOM"
           words == {i \in DOMAIN s : s[i] \notin White \union {Mark}}
           a == Dropped(s, {Mark})
           b == Dropped(a, White)
<1>1. trim(s, TRUE, TRUE) = Reverse(Dropped(Reverse(b), White))
  BY DEF trim
<1>2. Trimmed(s) = IF words = {} THEN <<>> ELSE SubSeq(s, Min(words), Max(words))
  BY DEF Trimmed
<1>3. PICK r \in 0 .. N : /\ a = SubSeq(s, r + 1, N)
                          /\ \A i \in r + 1 .. N : s[i] # Mark
                          /\ \A i \in 1 .. r : s[i] = Mark
  BY <1>0, DropMark
<1>4. /\ a \in Seq(T) /\ Len(a) = N - r /\ DOMAIN a = 1 .. N - r
      /\ \A i \in 1 .. N - r : a[i] = s[r + i]
  <2> DEFINE x == r + 1
  <2>1. x \in 1 .. N + 1 /\ N \in x - 1 .. N /\ N - x + 1 = N - r /\ \A i \in Int : x + i - 1 = r + i
    BY <1>0
  <2> HIDE DEF x, a
  <2>2. /\ SubSeq(s, x, N) \in Seq(T) /\ Len(SubSeq(s, x, N)) = N - x + 1
        /\ DOMAIN SubSeq(s, x, N) = 1 .. N - x + 1
        /\ \A i \in 1 .. N - x + 1 : SubSeq(s, x, N)[i] = s[x + i - 1]
    BY <1>0, <2>1, PartOf
  <2>3. a = SubSeq(s, x, N)
    BY <1>3 DEF x
  <2> DEFINE c == SubSeq(s, x, N)
  <2>4. c \in Seq(T) /\ Len(c) = N - r /\ DOMAIN c = 1 .. N - r
    BY <2>1, <2>2
  <2>5. \A i \in 1 .. N - r : c[i] = s[r + i]
    BY <2>1, <2>2
  <2>6. a = c
    BY <2>3
  <2> HIDE DEF c
  <2> QED
    BY <2>4, <2>5, <2>6
<1>5. words \in SUBSET (1 .. N) /\ \A i \in words : r + 1 <= i
  <2>1. \A i \in words : i \notin 1 .. r
    BY <1>3
  <2> QED
    BY <2>1, <1>0
<1>6. CASE words = {}
  <2>1. \A i \in r + 1 .. N : s[i] \in White
    <3>1. \A i \in r + 1 .. N : i \in DOMAIN s
      BY <1>0
    <3> QED
      BY <3>1, <1>3, <1>6
  <2>2. \A i \in DOMAIN a : a[i] \in White
    <3>1. \A i \in 1 .. N - r : r + i \in r + 1 .. N
      BY <1>0
    <3> QED
      BY <3>1, <2>1, <1>4
  <2> HIDE DEF a
  <2>3. b = <<>>
    BY <2>2, DroppedAll
  <2>4. Reverse(<<>>) = <<>> /\ Dropped(<<>>, White) = <<>>
    BY DEF Reverse, Dropped
  <2> QED
    BY <1>1, <1>2, <1>6, <2>3, <2>4
<1>7. CASE words # {}
  <2> HIDE DEF words
  <2>1. PICK p \in 1 .. N, q \in 1 .. N :
          /\ p = Min(words) /\ p \in words /\ \A i \in words : p <= i
          /\ q = Max(words) /\ q \in words /\ \A i \in words : q >= i
    BY <1>5, <1>7, FirstOne, LastOne
  <2>r. r + 1 <= p /\ p <= q /\ r \in Nat /\ p \in Nat /\ q \in Nat /\ q <= N
    BY <2>1, <1>5
  <2>k. PICK k \in Nat : k = p - r
    BY <2>r
  <2>l. PICK l \in Nat : l = q - p + 1
    BY <2>r
  <2>2. /\ p \in r + 1 .. N /\ q \in p .. N
        /\ k \in 1 .. N - r /\ N - p + 1 = N - r - k + 1 /\ r + 1 + k - 1 = p
        /\ l \in 1 .. N - p + 1 /\ p + l - 1 = q
    BY <2>r, <2>k, <2>l
  <2>3. s[p] \notin White /\ s[q] \notin White
    BY <2>1 DEF words
  <2>4. \A i \in r + 1 .. p - 1 : s[i] \in White
    <3>1. ASSUME NEW i \in r + 1 .. p - 1 PROVE i \in DOMAIN s /\ i \notin words /\ s[i] # Mark
      <4>1. i \in r + 1 .. N /\ i \in 1 .. N /\ ~(p <= i)
        BY <2>r
      <4> QED
        BY <4>1, <1>0, <1>3, <2>1
    <3> QED
      BY <3>1 DEF words
  <2>5. \A i \in q + 1 .. N : s[i] \in White
    <3>1. ASSUME NEW i \in q + 1 .. N PROVE i \in DOMAIN s /\ i \notin words /\ s[i] # Mark
      <4>1. i \in r + 1 .. N /\ i \in 1 .. N /\ ~(q >= i)
        BY <2>r
      <4> QED
        BY <4>1, <1>0, <1>3, <2>1
    <3> QED
      BY <3>1 DEF words
  <2> HIDE DEF a
  <2>6. b = SubSeq(s, p, N)
    <3>1. a[k] \notin White /\ \A i \in 1 .. k - 1 : a[i] \in White
      <4>1. r + k = p
        BY <2>k, <2>r
      <4>2. \A i \in 1 .. k - 1 : i \in 1 .. N - r /\ r + i \in r + 1 .. p - 1
        BY <2>k, <2>r
      <4>3. a[k] = s[p] /\ \A i \in 1 .. k - 1 : a[i] = s[r + i]
        BY <4>1, <4>2, <2>2, <1>4
      <4> QED
        BY <4>2, <4>3, <2>3, <2>4
    <3>2. b = SubSeq(a, k, N - r)
      <4>1. k \in 1 .. Len(a)
        BY <2>2, <1>4
      <4>2. Dropped(a, White) = SubSeq(a, k, Len(a))
        BY <4>1, <3>1, <1>4, DroppedTo
      <4> QED
        BY <4>2, <1>4
    <3>3. SubSeq(SubSeq(s, r + 1, N), k, N - r) = SubSeq(s, r + 1 + k - 1, r + 1 + (N - r) - 1)
      <4> DEFINE x == r + 1
                 v == N - r
      <4>1. x \in 1 .. N + 1 /\ N \in x - 1 .. N /\ k \in 1 .. N - x + 2 /\ v \in k - 1 .. N - x + 1
        BY <1>0, <2>2
      <4> HIDE DEF x, v
      <4>2. SubSeq(SubSeq(s, x, N), k, v) = SubSeq(s, x + k - 1, x + v - 1)
        BY <1>0, <4>1, PartOfPart
      <4> QED
        BY <4>2 DEF x, v
    <3>4. r + 1 + (N - r) - 1 = N
      BY <1>0
    <3> HIDE DEF b
    <3> QED
      BY <3>2, <3>3, <3>4, <2>2, <1>3
  <2>7. /\ b \in Seq(T) /\ Len(b) = N - p + 1 /\ \A i \in 1 .. N - p + 1 : b[i] = s[p + i - 1]
    <3>1. p \in 1 .. N + 1 /\ N \in p - 1 .. N
      BY <1>0, <2>2
    <3> HIDE DEF b
    <3>2. /\ SubSeq(s, p, N) \in Seq(T) /\ Len(SubSeq(s, p, N)) = N - p + 1
          /\ \A i \in 1 .. N - p + 1 : SubSeq(s, p, N)[i] = s[p + i - 1]
      BY <1>0, <3>1, PartOf
    <3> QED
      BY <3>2, <2>6
  <2> HIDE DEF b
  <2>8. Reverse(Dropped(Reverse(b), White)) = SubSeq(b, 1, l)
    <3>1. b[l] \notin White
      BY <2>2, <2>3, <2>7
    <3>2. \A i \in l + 1 .. N - p + 1 : b[i] \in White
      <4>1. \A i \in l + 1 .. N - p + 1 : i \in 1 .. N - p + 1 /\ p + i - 1 \in q + 1 .. N
        BY <2>l, <2>r
      <4> QED
        BY <4>1, <2>5, <2>7
    <3>3. l \in 1 .. Len(b) /\ \A i \in l + 1 .. Len(b) : b[i] \in White
      BY <3>2, <2>2, <2>7
    <3> QED
      BY <3>1, <3>3, <2>7, DroppedBack
  <2>9. SubSeq(SubSeq(s, p, N), 1, l) = SubSeq(s, p + 1 - 1, p + l - 1)
    <3>1. p \in 1 .. N + 1 /\ N \in p - 1 .. N /\ 1 \in 1 .. N - p + 2 /\ l \in 1 - 1 .. N - p + 1
      BY <1>0, <2>2
    <3> QED
      BY <1>0, <3>1, PartOfPart
  <2>10. p + 1 - 1 = p
    BY <1>0, <2>2
  <2> QED
    BY <1>1, <1>2, <1>7, <2>2, <2>6, <2>8, <2>9, <2>10, <2>1
<1> QED
  BY <1>6, <1>7

\* What is left has neither a mark in it nor white space at its ends.
Tidied(t) ==
  /\ \A i \in DOMAIN t : t[i] # "BOM"
  /\ t # <<>> => t[1] \notin White /\ t[Len(t)] \notin White

LEMMA TrimmedIs ==
  ASSUME NEW T, NEW s \in Seq(T), Unmarked(s)
  PROVE  Trimmed(s) \in Seq(T) /\ Tidied(Trimmed(s))
<1>0. PICK N \in Nat : N = Len(s) /\ DOMAIN s = 1 .. N
  OBVIOUS
<1> DEFINE Mark == "BOM"
           words == {i \in DOMAIN s : s[i] \notin White \union {Mark}}
<1>1. Trimmed(s) = IF words = {} THEN <<>> ELSE SubSeq(s, Min(words), Max(words))
  BY DEF Trimmed
<1>2. \A i \in DOMAIN s : s[i] = Mark => i = 1
  BY DEF Unmarked, Signs
<1>3. words \in SUBSET (1 .. N) /\ \A i \in words : s[i] \notin White /\ s[i] # Mark
  BY <1>0
<1>4. CASE words = {}
  <2>1. Trimmed(s) = <<>> /\ <<>> \in Seq(T) /\ DOMAIN <<>> = {}
    BY <1>1, <1>4
  <2> QED
    BY <2>1 DEF Tidied
<1>5. CASE words # {}
  <2> HIDE DEF words
  <2>1. PICK p \in 1 .. N, q \in 1 .. N :
          /\ p = Min(words) /\ p \in words /\ \A i \in words : p <= i
          /\ q = Max(words) /\ q \in words /\ \A i \in words : q >= i
    BY <1>3, <1>5, FirstOne, LastOne
  <2>2. p <= q /\ p \in 1 .. N + 1 /\ q \in p - 1 .. N
    BY <2>1, <1>0
  <2> DEFINE t == SubSeq(s, p, q)
  <2>3. /\ t \in Seq(T) /\ Len(t) = q - p + 1 /\ DOMAIN t = 1 .. q - p + 1
        /\ \A i \in 1 .. q - p + 1 : t[i] = s[p + i - 1]
    BY <1>0, <2>2, PartOf
  <2>4. Trimmed(s) = t
    BY <1>1, <1>5, <2>1
  <2> HIDE DEF t, Mark
  <2>5. /\ 1 \in 1 .. q - p + 1 /\ q - p + 1 \in 1 .. q - p + 1
        /\ p + 1 - 1 = p /\ p + (q - p + 1) - 1 = q
    BY <2>1, <2>2, <1>0
  <2>6. t[1] \notin White /\ t[Len(t)] \notin White
    <3>1. t[1] = s[p]
      BY <2>3, <2>5
    <3>2. t[Len(t)] = s[q]
      BY <2>3, <2>5
    <3> QED
      BY <3>1, <3>2, <2>1, <1>3
  <2>7. ASSUME NEW i \in 1 .. q - p + 1 PROVE t[i] # Mark
    <3>1. CASE i = 1
      BY <3>1, <2>1, <2>3, <2>5, <1>3
    <3>2. CASE i # 1
      <4>1. p + i - 1 \in 1 .. N /\ p + i - 1 # 1
        BY <3>2, <2>1, <2>2, <1>0
      <4> QED
        BY <4>1, <1>0, <1>2, <2>3
    <3> QED
      BY <3>1, <3>2
  <2>8. Tidied(t)
    BY <2>3, <2>6, <2>7 DEF Tidied, Mark
  <2> QED
    BY <2>3, <2>4, <2>8
<1> QED
  BY <1>4, <1>5

\* Where there is nothing to trim on one side, it does not matter whether it is
\* looked at.
LEMMA NothingTrimmed ==
  /\ Dropped(<<>>, White) = <<>> /\ Dropped(<<>>, {"BOM"}) = <<>> /\ Reverse(<<>>) = <<>>
  /\ Trimmed(<<>>) = <<>>
BY DEF Dropped, Reverse, Trimmed

LEMMA TrimSides ==
  ASSUME NEW T, NEW s \in Seq(T), \A i \in DOMAIN s : s[i] # "BOM"
  PROVE  /\ trim(s, TRUE, TRUE) = Trimmed(s)
         /\ s = <<>> \/ s[1] \notin White => trim(s, FALSE, TRUE) = Trimmed(s)
         /\ s = <<>> \/ s[Len(s)] \notin White => trim(s, TRUE, FALSE) = Trimmed(s)
         /\ Tidied(s) => Trimmed(s) = s
<1> DEFINE Mark == "BOM"
<1>0. Unmarked(s)
  BY DEF Unmarked, Signs
<1>1. trim(s, TRUE, TRUE) = Trimmed(s)
  BY <1>0, TrimBoth
<1>2. CASE s = <<>>
  <2>1. \A left, right \in BOOLEAN : trim(<<>>, left, right) = <<>>
    BY NothingTrimmed DEF trim
  <2> QED
    BY <1>2, <2>1, NothingTrimmed
<1>3. CASE s # <<>>
  <2>1. Len(s) \in Nat \ {0} /\ 1 \in DOMAIN s /\ DOMAIN s = 1 .. Len(s)
    <3>1. Len(s) \in Nat /\ Len(s) # 0 /\ DOMAIN s = 1 .. Len(s)
      BY <1>3, EmptySeq
    <3> QED
      BY <3>1
  <2>2. s[1] # Mark
    BY <2>1
  <2> HIDE DEF Mark
  <2>3. Dropped(s, {Mark}) = s
    BY <1>3, <2>2, DropNone
  <2>4. ASSUME s[1] \notin White PROVE trim(s, FALSE, TRUE) = Trimmed(s)
    <3>1. Dropped(s, White) = s
      BY <1>3, <2>4, DropNone
    <3> QED
      BY <1>1, <2>3, <3>1 DEF trim, Mark
  <2>5. ASSUME s[Len(s)] \notin White PROVE trim(s, TRUE, FALSE) = Trimmed(s)
    <3> DEFINE rest == {i \in DOMAIN s : s[i] \notin White}
               d == Dropped(s, White)
    <3>1. Len(s) \in rest /\ rest \in SUBSET (1 .. Len(s)) /\ Len(s) \in Nat
      BY <2>1, <2>5
    <3>2. PICK p \in 1 .. Len(s) : p = Min(rest)
      <4> HIDE DEF rest
      <4> QED
        BY <3>1, FirstOne
    <3>3. d = SubSeq(s, p, Len(s))
      BY <3>1, <3>2 DEF Dropped
    <3>4. /\ d \in Seq(T) /\ Len(d) = Len(s) - p + 1
          /\ \A i \in 1 .. Len(s) - p + 1 : d[i] = s[p + i - 1]
      <4>1. p \in 1 .. Len(s) + 1 /\ Len(s) \in p - 1 .. Len(s)
        BY <3>1, <3>2
      <4> HIDE DEF d
      <4> QED
        BY <3>3, <4>1, PartOf
    <3> HIDE DEF d, rest
    <3>5. d # <<>> /\ d[Len(d)] \notin White
      <4>1. Len(s) - p + 1 \in 1 .. Len(s) - p + 1 /\ p + (Len(s) - p + 1) - 1 = Len(s)
        BY <3>1, <3>2
      <4>2. d[Len(d)] = s[Len(s)]
        BY <3>4, <4>1
      <4>3. Len(d) # 0
        BY <3>4, <4>1
      <4> QED
        BY <4>2, <4>3, <3>4, <2>5, EmptySeq
    <3>6. Dropped(Reverse(d), White) = Reverse(d) /\ Reverse(Reverse(d)) = d
      <4>1. /\ Reverse(d) \in Seq(T) /\ Reverse(d) # <<>> /\ Reverse(d)[1] = d[Len(d)]
            /\ Reverse(Reverse(d)) = d
        BY <3>4, <3>5, ReverseTwice
      <4> QED
        BY <4>1, <3>5, DropNone
    <3>7. trim(s, TRUE, TRUE) = d /\ trim(s, TRUE, FALSE) = d
      BY <2>3, <3>6 DEF trim, d, Mark
    <3> QED
      BY <1>1, <3>7
  <2>6. ASSUME Tidied(s) PROVE Trimmed(s) = s
    <3>1. s[1] \notin White \union {Mark} /\ s[Len(s)] \notin White
      BY <1>3, <2>2, <2>6 DEF Tidied
    <3>2. trim(s, TRUE, TRUE) = s
      BY <1>3, <3>1, TrimNone DEF Mark
    <3> QED
      BY <1>1, <3>2
  <2> QED
    BY <1>1, <1>3, <2>4, <2>5, <2>6
<1> QED
  BY <1>2, <1>3

\* A part of what has no mark has none.
LEMMA PartUnmarked ==
  ASSUME NEW T, NEW s \in Seq(T), NEW x \in 1 .. Len(s) + 1, NEW y \in x - 1 .. Len(s),
         \A i \in DOMAIN s : s[i] # "BOM"
  PROVE  \A i \in DOMAIN SubSeq(s, x, y) : SubSeq(s, x, y)[i] # "BOM"
<1> DEFINE Mark == "BOM"
           p == SubSeq(s, x, y)
<1>1. Len(s) \in Nat /\ DOMAIN s = 1 .. Len(s)
  OBVIOUS
<1>2. DOMAIN p = 1 .. y - x + 1 /\ \A i \in 1 .. y - x + 1 : p[i] = s[x + i - 1]
  BY PartOf
<1>3. \A i \in 1 .. y - x + 1 : x + i - 1 \in 1 .. Len(s)
  BY <1>1
<1>4. \A i \in 1 .. Len(s) : s[i] # Mark
  BY <1>1
<1> HIDE DEF p, Mark
<1>5. \A i \in DOMAIN p : p[i] # Mark
  BY <1>2, <1>3, <1>4
<1> QED
  BY <1>5 DEF p, Mark

\* The parser trims the text of a line out of it.
LEMMA TextRead ==
  ASSUME NEW T, NEW raw \in Seq(T), Regular(raw)
  PROVE  /\ trim(Uncommented(raw), TRUE, TRUE) = Text(raw)
         /\ Text(raw) \in Seq(T) /\ Tidied(Text(raw))
<1> DEFINE all == Signs(raw, Semicolon) \union Signs(raw, "#") \union Slashes(raw)
           c == Before(raw, all)
           Mark == "BOM"
<1>1. Uncommented(raw) = c
  BY CommentFirst DEF Regular
<1>2. all \in SUBSET DOMAIN raw
  BY DEF Signs, Slashes
<1>3. Text(raw) = Trimmed(c)
  BY DEF Text
<1> HIDE DEF all, c
<1>4. PICK m \in 0 .. Len(raw) : Cut(raw, all, m)
  BY <1>2, SomeCut
<1>5. c = SubSeq(raw, 1, m)
  BY <1>2, <1>4, CutBefore DEF c
<1>6. c \in Seq(T) /\ DOMAIN c = 1 .. m /\ \A i \in 1 .. m : c[i] = raw[i]
  BY <1>5, PrefixParts
<1>7. Unmarked(c)
  <2>1. Len(raw) \in Nat /\ DOMAIN raw = 1 .. Len(raw)
    OBVIOUS
  <2>2. \A i \in 1 .. m : i \in 1 .. Len(raw)
    BY <2>1
  <2>3. \A i \in 1 .. Len(raw) : raw[i] = Mark => i = 1
    BY <2>1 DEF Regular, Signs
  <2>4. \A i \in 1 .. m : c[i] = Mark => i = 1
    BY <2>2, <2>3, <1>6
  <2> QED
    BY <2>4, <1>6 DEF Unmarked, Signs
<1>8. trim(c, TRUE, TRUE) = Trimmed(c) /\ Trimmed(c) \in Seq(T) /\ Tidied(Trimmed(c))
  BY <1>6, <1>7, TrimBoth, TrimmedIs
<1> QED
  BY <1>1, <1>3, <1>8

\* What reading a line does to the data.
Section(st, name) == [in |-> name, data |-> Assigned(st.data, name, KeysOf(st.data, name))]
Enter(st, key, value) == [st EXCEPT !.data = Emplaced(st.data, st.in, key, value)]

LEMMA LineRead ==
  ASSUME NEW T, NEW raw \in Seq(T), Regular(raw), NEW st, NEW text, text = Text(raw)
  PROVE  /\ text = <<>> => ReadLine(st, raw) = st
         /\ IsSection(text) => ReadLine(st, raw) = Section(st, Name(text))
         /\ text # <<>> /\ ~IsSection(text) =>
              ReadLine(st, raw) = Enter(st, Key(text), Value(text))
<1> DEFINE Open == "["
           Close == "]"
           Equal == "="
           Mark == "BOM"
           n1 == Len(text)
           equals == Signs(text, Equal)
<1>1. trim(Uncommented(raw), TRUE, TRUE) = text /\ text \in Seq(T) /\ Tidied(text)
  BY TextRead
<1>2. Len(text) \in Nat /\ DOMAIN text = 1 .. Len(text)
  BY <1>1
<1>3. ReadLine(st, raw) =
        IF text = <<>> THEN st
        ELSE IF text[1] = Open /\ text[n1] = Close
          THEN [in |-> trim(SubSeq(text, 2, n1 - 1), TRUE, TRUE),
                data |-> Assigned(st.data, trim(SubSeq(text, 2, n1 - 1), TRUE, TRUE),
                                  KeysOf(st.data, trim(SubSeq(text, 2, n1 - 1), TRUE, TRUE)))]
        ELSE IF equals = {} THEN [st EXCEPT !.data = Emplaced(st.data, st.in, text, <<>>)]
        ELSE [st EXCEPT !.data = Emplaced(st.data, st.in, trim(Before(text, equals), FALSE, TRUE),
                                   trim(SubSeq(text, Min(equals) + 1, n1), TRUE, FALSE))]
  BY <1>1 DEF ReadLine
<1>4. Open # Close
  BY Zenon
<1>5. \A i \in DOMAIN text : text[i] # Mark
  BY <1>1 DEF Tidied
<1>6. IsSection(text) <=> text # <<>> /\ text[1] = Open /\ text[n1] = Close
  BY DEF IsSection
<1>7. ASSUME IsSection(text) PROVE ReadLine(st, raw) = Section(st, Name(text))
  <2>1. Len(text) >= 2
    <3>1. Len(text) # 0 /\ Len(text) # 1
      BY <1>1, <1>4, <1>6, <1>7, EmptySeq
    <3> QED
      BY <3>1, <1>2
  <2> DEFINE p == SubSeq(text, 2, n1 - 1)
  <2>2. 2 \in 1 .. Len(text) + 1 /\ Len(text) - 1 \in 2 - 1 .. Len(text)
    BY <2>1, <1>2
  <2>3. p \in Seq(T) /\ \A i \in DOMAIN p : p[i] # Mark
    BY <2>2, <1>1, <1>5, PartOf, PartUnmarked
  <2>4. trim(p, TRUE, TRUE) = Name(text)
    <3>1. trim(p, TRUE, TRUE) = Trimmed(p)
      BY <2>3, TrimSides
    <3> QED
      BY <3>1 DEF Name
  <2> HIDE DEF Open, Close
  <2> QED
    BY <1>3, <1>6, <1>7, <2>4 DEF Section
<1>8. ASSUME text # <<>>, ~IsSection(text)
      PROVE  ReadLine(st, raw) = Enter(st, Key(text), Value(text))
  <2>0. text[1] \notin White /\ text[Len(text)] \notin White /\ Len(text) # 0
    BY <1>1, <1>8, EmptySeq DEF Tidied
  <2>1. equals \in SUBSET DOMAIN text
    BY DEF Signs
  <2>2. CASE equals = {}
    <3>1. Before(text, equals) = text
      BY <2>2 DEF Before
    <3>2. Trimmed(text) = text
      BY <1>1, <1>5, TrimSides
    <3>3. Key(text) = text /\ Value(text) = <<>>
      BY <3>1, <3>2, <2>2 DEF Key, Value
    <3> HIDE DEF equals, Open, Close
    <3> QED
      BY <3>3, <2>2, <1>3, <1>6, <1>8 DEF Enter
  <2>3. CASE equals # {}
    <3>1. PICK m \in 0 .. Len(text) : Cut(text, equals, m)
      BY <1>1, <2>1, SomeCut
    <3>2. Before(text, equals) = SubSeq(text, 1, m)
      BY <1>1, <2>1, <3>1, CutBefore
    <3>3. trim(Before(text, equals), FALSE, TRUE) = Key(text)
      <4> DEFINE b == SubSeq(text, 1, m)
      <4>1. 1 \in 1 .. Len(text) + 1 /\ m \in 1 - 1 .. Len(text)
        BY <1>2, <3>1
      <4>2. b \in Seq(T) /\ \A i \in DOMAIN b : b[i] # Mark
        BY <4>1, <1>1, <1>5, PartOf, PartUnmarked
      <4>3. Len(b) = m /\ \A i \in 1 .. m : b[i] = text[i]
        BY <1>1, <3>1, PrefixParts
      <4> HIDE DEF b
      <4>4. b = <<>> \/ b[1] \notin White
        <5>1. CASE m = 0
          BY <5>1, <4>2, <4>3, EmptySeq
        <5>2. CASE m # 0
          <6>1. 1 \in 1 .. m
            BY <5>2, <3>1, <1>2
          <6> QED
            BY <6>1, <4>3, <2>0
        <5> QED
          BY <5>1, <5>2
      <4>5. trim(b, FALSE, TRUE) = Trimmed(b)
        BY <4>2, <4>4, TrimSides
      <4> QED
        BY <4>5, <3>2 DEF b, Key
    <3>4. trim(SubSeq(text, Min(equals) + 1, n1), TRUE, FALSE) = Value(text)
      <4>1. PICK e \in 1 .. Len(text) : e = Min(equals)
        <5>1. equals \in SUBSET (1 .. Len(text))
          BY <1>2, <2>1
        <5> HIDE DEF equals
        <5> QED
          BY <5>1, <1>2, <2>3, FirstOne
      <4> DEFINE b == SubSeq(text, e + 1, n1)
      <4>2. e + 1 \in 1 .. Len(text) + 1 /\ Len(text) \in e + 1 - 1 .. Len(text)
        BY <1>2, <4>1
      <4>3. /\ b \in Seq(T) /\ \A i \in DOMAIN b : b[i] # Mark
            /\ Len(b) = Len(text) - (e + 1) + 1
            /\ \A i \in 1 .. Len(text) - (e + 1) + 1 : b[i] = text[e + 1 + i - 1]
        <5> DEFINE x == e + 1
        <5>1. x \in 1 .. Len(text) + 1 /\ Len(text) \in x - 1 .. Len(text)
          BY <4>2
        <5> HIDE DEF x
        <5>2. /\ SubSeq(text, x, Len(text)) \in Seq(T)
              /\ Len(SubSeq(text, x, Len(text))) = Len(text) - x + 1
              /\ \A i \in 1 .. Len(text) - x + 1 : SubSeq(text, x, Len(text))[i] = text[x + i - 1]
          BY <5>1, <1>1, PartOf
        <5>3. \A i \in DOMAIN SubSeq(text, x, Len(text)) : SubSeq(text, x, Len(text))[i] # Mark
          BY <5>1, <1>1, <1>5, PartUnmarked
        <5> QED
          BY <5>2, <5>3 DEF x
      <4> HIDE DEF b
      <4>4. b = <<>> \/ b[Len(b)] \notin White
        <5>1. CASE e = Len(text)
          <6>1. Len(b) = 0
            BY <5>1, <4>3, <1>2
          <6> QED
            BY <6>1, <4>3, EmptySeq
        <5>2. CASE e # Len(text)
          <6>1. PICK l \in Nat : l = Len(text) - (e + 1) + 1
            BY <5>2, <4>1, <1>2
          <6>2. l \in 1 .. l /\ e + 1 + l - 1 = Len(text)
            BY <6>1, <5>2, <4>1, <1>2
          <6>3. b[Len(b)] = text[Len(text)]
            BY <6>1, <6>2, <4>3
          <6> QED
            BY <6>3, <2>0
        <5> QED
          BY <5>1, <5>2
      <4>5. trim(b, TRUE, FALSE) = Trimmed(b)
        BY <4>3, <4>4, TrimSides
      <4>6. Value(text) = Trimmed(SubSeq(text, Min(equals) + 1, Len(text)))
        BY <2>3 DEF Value
      <4> QED
        BY <4>1, <4>5, <4>6 DEF b
    <3> HIDE DEF equals, Open, Close
    <3> QED
      BY <3>3, <3>4, <2>3, <1>3, <1>6, <1>8 DEF Enter
  <2> QED
    BY <2>2, <2>3
<1>9. text = <<>> => ReadLine(st, raw) = st
  BY <1>3
<1> QED
  BY <1>7, <1>8, <1>9

-------------------------------------------------------------------------------
(***************************************************************************)
(* What the lines of a file come to.                                       *)
(***************************************************************************)
\* Section sect of data has an entry key.
Holds(data, sect, key) == sect \in DOMAIN data /\ key \in DOMAIN data[sect]

LEMMA SectionHolds ==
  ASSUME NEW data, NEW name, NEW sect, NEW key
  PROVE  LET new == Assigned(data, name, KeysOf(data, name)) IN
           /\ Holds(new, sect, key) <=> Holds(data, sect, key)
           /\ Holds(data, sect, key) => new[sect][key] = data[sect][key]
<1> DEFINE keys == KeysOf(data, name)
           new == Assigned(data, name, keys)
<1>1. name \in DOMAIN data => keys = data[name]
  BY DEF KeysOf
<1>2. name \notin DOMAIN data => DOMAIN keys = {}
  BY DEF KeysOf, NoKeys
<1> HIDE DEF keys
<1>3. DOMAIN new = DOMAIN data \union {name}
  BY DEF Assigned
<1>4. \A x \in DOMAIN data \union {name} : new[x] = IF x = name THEN keys ELSE data[x]
  BY DEF Assigned
<1> HIDE DEF new
<1>5. CASE sect = name
  BY <1>1, <1>2, <1>3, <1>4, <1>5 DEF Holds, new, keys
<1>6. CASE sect # name
  BY <1>3, <1>4, <1>6 DEF Holds, new, keys
<1> QED
  BY <1>5, <1>6

LEMMA EntryHolds ==
  ASSUME NEW data, NEW in, NEW name, NEW value, NEW sect, NEW key
  PROVE  LET new == Emplaced(data, in, name, value) IN
           /\ Holds(new, sect, key) <=> Holds(data, sect, key) \/ (in = sect /\ name = key)
           /\ Holds(data, sect, key) => new[sect][key] = data[sect][key]
           /\ ~Holds(data, sect, key) /\ in = sect /\ name = key => new[sect][key] = value
<1> DEFINE keys == KeysOf(data, in)
           put == IF name \in DOMAIN keys THEN keys ELSE Assigned(keys, name, value)
           new == Emplaced(data, in, name, value)
<1>0. new = Assigned(data, in, put)
  BY DEF Emplaced
<1>1. in \in DOMAIN data => keys = data[in]
  BY DEF KeysOf
<1>2. in \notin DOMAIN data => DOMAIN keys = {}
  BY DEF KeysOf, NoKeys
<1> HIDE DEF keys
<1>3. /\ \A k : k \in DOMAIN put <=> k \in DOMAIN keys \/ k = name
      /\ \A k \in DOMAIN keys : put[k] = keys[k]
      /\ name \notin DOMAIN keys => put[name] = value
  <2>1. CASE name \in DOMAIN keys
    BY <2>1
  <2>2. CASE name \notin DOMAIN keys
    BY <2>2 DEF Assigned
  <2> QED
    BY <2>1, <2>2
<1> HIDE DEF put, new
<1>4. /\ \A x : x \in DOMAIN new <=> x \in DOMAIN data \/ x = in
      /\ \A x \in DOMAIN new : new[x] = IF x = in THEN put ELSE data[x]
  BY <1>0 DEF Assigned
<1>5. CASE sect = in
  <2>1. new[sect] = put /\ sect \in DOMAIN new
    BY <1>4, <1>5
  <2>2. Holds(data, sect, key) <=> key \in DOMAIN keys
    BY <1>1, <1>2, <1>5 DEF Holds
  <2>3. Holds(data, sect, key) => keys[key] = data[sect][key]
    BY <1>1, <1>5 DEF Holds
  <2>4. Holds(new, sect, key) <=> key \in DOMAIN keys \/ key = name
    BY <2>1, <1>3 DEF Holds
  <2>5. new[sect][key] = put[key]
    BY <2>1
  <2> QED
    BY <2>2, <2>3, <2>4, <2>5, <1>3, <1>5 DEF new
<1>6. CASE sect # in
  <2>1. sect \in DOMAIN new <=> sect \in DOMAIN data
    BY <1>4, <1>6
  <2>2. sect \in DOMAIN data => new[sect] = data[sect]
    BY <1>4, <1>6
  <2> QED
    BY <2>1, <2>2, <1>6 DEF Holds, new
<1> QED
  BY <1>5, <1>6

\* The state of the parser is a record, and reading a line leaves it one.
IsState(st) == st = [in |-> st.in, data |-> st.data]

LEMMA LineSays ==
  ASSUME NEW T, NEW raw \in Seq(T), Regular(raw), NEW st, IsState(st), NEW sect, NEW key,
         NEW text, text = Text(raw), NEW new, new = ReadLine(st, raw)
  PROVE  /\ IsState(new)
         /\ IsSection(text) =>
              /\ new.in = Name(text)
              /\ Holds(new.data, sect, key) <=> Holds(st.data, sect, key)
              /\ Holds(st.data, sect, key) => new.data[sect][key] = st.data[sect][key]
         /\ ~IsSection(text) =>
              LET adds == st.in = sect /\ text # <<>> /\ Key(text) = key IN
              /\ new.in = st.in
              /\ Holds(new.data, sect, key) <=> Holds(st.data, sect, key) \/ adds
              /\ Holds(st.data, sect, key) => new.data[sect][key] = st.data[sect][key]
              /\ ~Holds(st.data, sect, key) /\ adds => new.data[sect][key] = Value(text)
<1>0. /\ text = <<>> => new = st
      /\ IsSection(text) => new = Section(st, Name(text))
      /\ text # <<>> /\ ~IsSection(text) => new = Enter(st, Key(text), Value(text))
  BY LineRead
<1>1. CASE text = <<>>
  <2>1. new = st /\ ~IsSection(text)
    BY <1>0, <1>1 DEF IsSection
  <2> QED
    BY <1>1, <2>1
<1>2. CASE IsSection(text)
  <2> DEFINE d == Assigned(st.data, Name(text), KeysOf(st.data, Name(text)))
  <2>1. new = [in |-> Name(text), data |-> d]
    BY <1>0, <1>2 DEF Section
  <2>2. /\ Holds(d, sect, key) <=> Holds(st.data, sect, key)
        /\ Holds(st.data, sect, key) => d[sect][key] = st.data[sect][key]
    BY SectionHolds
  <2> HIDE DEF d
  <2>3. new.in = Name(text) /\ new.data = d
    BY <2>1
  <2> QED
    BY <1>2, <2>1, <2>2, <2>3 DEF IsState
<1>3. CASE text # <<>> /\ ~IsSection(text)
  <2> DEFINE d == Emplaced(st.data, st.in, Key(text), Value(text))
  <2>1. new = [st EXCEPT !.data = d]
    BY <1>0, <1>3 DEF Enter
  <2>2. /\ Holds(d, sect, key) <=>
             Holds(st.data, sect, key) \/ (st.in = sect /\ Key(text) = key)
        /\ Holds(st.data, sect, key) => d[sect][key] = st.data[sect][key]
        /\ ~Holds(st.data, sect, key) /\ st.in = sect /\ Key(text) = key
             => d[sect][key] = Value(text)
    BY EntryHolds
  <2> HIDE DEF d
  <2>3. new = [in |-> st.in, data |-> d]
    BY <2>1 DEF IsState
  <2>4. new.in = st.in /\ new.data = d
    BY <2>3
  <2> QED
    BY <1>3, <2>2, <2>3, <2>4 DEF IsState
<1> QED
  BY <1>1, <1>2, <1>3

\* Line i is under the section sect; what lines up to i say of its entry key.
Within(text, sect, i) ==
  \E h \in 1 .. i : /\ IsSection(text[h]) /\ Name(text[h]) = sect
                    /\ \A j \in h + 1 .. i : ~IsSection(text[j])
Adds(text, sect, key, i) ==
  Key(text[i]) = key /\ ~IsSection(text[i]) /\ Within(text, sect, i - 1)
Adding(text, sect, key, i) == {m \in 1 .. i : Adds(text, sect, key, m)}
SaidTo(text, sect, key, i) ==
  LET adding == Adding(text, sect, key, i)
  IN {Value(text[j]) : j \in {m \in adding : \A h \in adding : m <= h}}

LEMMA WithinNext ==
  ASSUME NEW text, NEW sect, NEW i \in Nat \ {0}
  PROVE  /\ IsSection(text[i]) => (Within(text, sect, i) <=> Name(text[i]) = sect)
         /\ ~IsSection(text[i]) => (Within(text, sect, i) <=> Within(text, sect, i - 1))
<1>1. ASSUME IsSection(text[i]), Within(text, sect, i) PROVE Name(text[i]) = sect
  <2>1. PICK h \in 1 .. i : /\ Name(text[h]) = sect
                            /\ \A j \in h + 1 .. i : ~IsSection(text[j])
    BY <1>1 DEF Within
  <2>2. h = i
    <3>1. h # i => i \in h + 1 .. i
      OBVIOUS
    <3> QED
      BY <3>1, <2>1, <1>1
  <2> QED
    BY <2>1, <2>2
<1>2. ASSUME IsSection(text[i]), Name(text[i]) = sect PROVE Within(text, sect, i)
  <2>1. i \in 1 .. i /\ \A j \in i + 1 .. i : ~IsSection(text[j])
    OBVIOUS
  <2> QED
    BY <2>1, <1>2 DEF Within
<1>3. ASSUME ~IsSection(text[i]), Within(text, sect, i) PROVE Within(text, sect, i - 1)
  <2>1. PICK h \in 1 .. i : /\ IsSection(text[h]) /\ Name(text[h]) = sect
                            /\ \A j \in h + 1 .. i : ~IsSection(text[j])
    BY <1>3 DEF Within
  <2>2. h # i
    BY <2>1, <1>3
  <2>3. h \in 1 .. i - 1 /\ \A j \in h + 1 .. i - 1 : j \in h + 1 .. i
    BY <2>2
  <2> QED
    BY <2>1, <2>3 DEF Within
<1>4. ASSUME ~IsSection(text[i]), Within(text, sect, i - 1) PROVE Within(text, sect, i)
  <2>1. PICK h \in 1 .. i - 1 : /\ IsSection(text[h]) /\ Name(text[h]) = sect
                                /\ \A j \in h + 1 .. i - 1 : ~IsSection(text[j])
    BY <1>4 DEF Within
  <2>2. h \in 1 .. i /\ \A j \in h + 1 .. i : j = i \/ j \in h + 1 .. i - 1
    OBVIOUS
  <2> QED
    BY <2>1, <2>2, <1>4 DEF Within
<1> QED
  BY <1>1, <1>2, <1>3, <1>4

\* Nothing or one value is said, and only the first line to say one counts.
LEMMA SaidFirst ==
  ASSUME NEW text, NEW sect, NEW key, NEW i \in Nat
  PROVE  LET adding == Adding(text, sect, key, i) IN
           /\ adding = {} => SaidTo(text, sect, key, i) = {}
           /\ \A p \in adding : (\A h \in adding : p <= h)
                => SaidTo(text, sect, key, i) = {Value(text[p])}
<1> DEFINE adding == Adding(text, sect, key, i)
           V(m) == Value(text[m])
<1>1. adding \in SUBSET (1 .. i)
  BY DEF Adding
<1>2. SaidTo(text, sect, key, i) = {V(j) : j \in {m \in adding : \A h \in adding : m <= h}}
  BY DEF SaidTo
<1> HIDE DEF adding, V
<1>3. ASSUME NEW p \in adding, \A h \in adding : p <= h
      PROVE  {m \in adding : \A h \in adding : m <= h} = {p}
  <2>1. ASSUME NEW m \in adding, \A h \in adding : m <= h PROVE m = p
    <3>1. m <= p /\ p <= m /\ m \in Int /\ p \in Int
      BY <2>1, <1>3, <1>1
    <3> QED
      BY <3>1
  <2> QED
    BY <2>1, <1>3
<1>4. ASSUME NEW p \in adding, \A h \in adding : p <= h
      PROVE  SaidTo(text, sect, key, i) = {V(p)}
  BY <1>2, <1>3, <1>4
<1>5. adding = {} => SaidTo(text, sect, key, i) = {}
  BY <1>2
<1> QED
  BY <1>4, <1>5 DEF adding, V

LEMMA SaidNext ==
  ASSUME NEW text, NEW sect, NEW key, NEW i \in Nat \ {0}
  PROVE  LET old == SaidTo(text, sect, key, i - 1) IN
           SaidTo(text, sect, key, i) =
             IF old = {} /\ Adds(text, sect, key, i) THEN {Value(text[i])} ELSE old
<1> DEFINE before == Adding(text, sect, key, i - 1)
           after == Adding(text, sect, key, i)
           old == SaidTo(text, sect, key, i - 1)
           said == SaidTo(text, sect, key, i)
           adds == Adds(text, sect, key, i)
           V(m) == Value(text[m])
<1>1. i - 1 \in Nat /\ \A m : m \in 1 .. i <=> m \in 1 .. i - 1 \/ m = i
  OBVIOUS
<1>2. after = before \union (IF adds THEN {i} ELSE {})
  BY <1>1 DEF Adding
<1>3. before \in SUBSET (1 .. i - 1)
  BY DEF Adding
<1>4. /\ before = {} => old = {}
      /\ \A p \in before : (\A h \in before : p <= h) => old = {V(p)}
  BY <1>1, SaidFirst
<1>5. /\ after = {} => said = {}
      /\ \A p \in after : (\A h \in after : p <= h) => said = {V(p)}
  <2>1. i \in Nat
    OBVIOUS
  <2> QED
    BY <2>1, SaidFirst
<1> HIDE DEF before, after, old, said, adds, V
<1>6. CASE before = {}
  <2>1. CASE adds
    <3>1. i \in after /\ \A h \in after : i <= h
      BY <1>2, <1>6, <2>1
    <3> QED
      BY <3>1, <2>1, <1>4, <1>5, <1>6 DEF old, said, adds, V
  <2>2. CASE ~adds
    BY <2>2, <1>2, <1>4, <1>5, <1>6 DEF old, said, adds
  <2> QED
    BY <2>1, <2>2
<1>7. CASE before # {}
  <2>1. PICK p \in before : \A h \in before : p <= h
    BY <1>1, <1>3, <1>7, FirstOne
  <2>2. p \in after /\ \A h \in after : p <= h
    <3>1. p \in 1 .. i - 1 /\ p <= i
      BY <2>1, <1>3
    <3> QED
      BY <3>1, <2>1, <1>2
  <2> QED
    BY <2>1, <2>2, <1>4, <1>5 DEF old, said, V
<1> QED
  BY <1>6, <1>7

LEMMA SaysIs ==
  ASSUME NEW T, NEW f \in Seq(T), NEW k
  PROVE  Says(f, k) = SaidTo([i \in DOMAIN f |-> Text(f[i])], <<k[1]>>, <<k[2]>>, Len(f))
<1> DEFINE text == [i \in DOMAIN f |-> Text(f[i])]
           sect == <<k[1]>>
           key == <<k[2]>>
           Under(i) == \E h \in 1 .. i - 1 :
                         /\ IsSection(text[h]) /\ Name(text[h]) = sect
                         /\ \A j \in h + 1 .. i : ~IsSection(text[j])
           Giving == {i \in DOMAIN f : Key(text[i]) = key /\ Under(i)}
<1>1. Says(f, k) = {Value(text[i]) : i \in {j \in Giving : \A h \in Giving : j <= h}}
  BY DEF Says
<1>2. DOMAIN f = 1 .. Len(f) /\ Len(f) \in Nat
  OBVIOUS
<1> HIDE DEF text, sect, key
<1>3. ASSUME NEW i \in 1 .. Len(f)
      PROVE  (Key(text[i]) = key /\ Under(i)) <=> Adds(text, sect, key, i)
  <2>1. ASSUME NEW h \in 1 .. i - 1
        PROVE  (\A j \in h + 1 .. i : ~IsSection(text[j]))
                 <=> ~IsSection(text[i]) /\ \A j \in h + 1 .. i - 1 : ~IsSection(text[j])
    <3>1. \A j : j \in h + 1 .. i <=> j = i \/ j \in h + 1 .. i - 1
      BY <1>2
    <3> QED
      BY <3>1
  <2>2. Under(i) <=> ~IsSection(text[i]) /\ Within(text, sect, i - 1)
    BY <2>1 DEF Within
  <2> HIDE DEF Under
  <2> QED
    BY <2>2 DEF Adds
<1> HIDE DEF Under
<1>4. Giving = Adding(text, sect, key, Len(f))
  BY <1>2, <1>3 DEF Adding
<1> HIDE DEF Giving
<1>5. Says(f, k) = SaidTo(text, sect, key, Len(f))
  BY <1>1, <1>4 DEF SaidTo
<1> QED
  BY <1>5 DEF text, sect, key

\* Every file is read to its end.
LEMMA ReadAll ==
  ASSUME NEW T, NEW f \in Seq(T)
  PROVE  \E h : /\ h[0] = Empty
                /\ \A k \in 1 .. Len(f) : h[k] = ReadLine(h[k - 1], f[k])
<1> DEFINE Read(m) == \E h : /\ h[0] = Empty
                             /\ \A k \in 1 .. m : h[k] = ReadLine(h[k - 1], f[k])
           M == {m \in 0 .. Len(f) : Read(m)}
<1>0. Len(f) \in Nat /\ Len(f) \in 0 .. Len(f)
  OBVIOUS
<1>1. Read(0)
  <2> DEFINE h == [k \in {0} |-> Empty]
  <2>1. h[0] = Empty /\ \A k \in 1 .. 0 : FALSE
    OBVIOUS
  <2> HIDE DEF h
  <2> QED
    BY <2>1
<1>2. ASSUME NEW m \in 1 .. Len(f), Read(m - 1) PROVE Read(m)
  <2>1. PICK h : /\ h[0] = Empty
                 /\ \A k \in 1 .. m - 1 : h[k] = ReadLine(h[k - 1], f[k])
    BY <1>2
  <2>2. m \in Nat /\ m # 0
    OBVIOUS
  <2> DEFINE last == ReadLine(h[m - 1], f[m])
             r == [k \in 0 .. m |-> IF k = m THEN last ELSE h[k]]
  <2>3. r[m] = last /\ \A k \in 0 .. m - 1 : r[k] = h[k]
    BY <2>2
  <2> HIDE DEF r, last
  <2>4. ASSUME NEW k \in 1 .. m PROVE r[k] = ReadLine(r[k - 1], f[k])
    <3>1. k - 1 \in 0 .. m - 1
      BY <2>2
    <3>2. r[k - 1] = h[k - 1]
      BY <3>1, <2>3
    <3>3. CASE k = m
      BY <3>2, <3>3, <2>3 DEF last
    <3>4. CASE k # m
      <4>1. k \in 1 .. m - 1 /\ k \in 0 .. m - 1
        BY <3>4, <2>2
      <4> QED
        BY <4>1, <3>2, <2>1, <2>3
    <3> QED
      BY <3>3, <3>4
  <2>5. r[0] = Empty
    <3>1. 0 \in 0 .. m - 1
      BY <2>2
    <3> QED
      BY <3>1, <2>1, <2>3
  <2> QED
    BY <2>4, <2>5
<1> HIDE DEF Read
<1>3. M \in SUBSET (0 .. Len(f)) /\ 0 \in M /\ \A m \in 1 .. Len(f) : m - 1 \in M => m \in M
  BY <1>0, <1>1, <1>2
<1>4. Len(f) \in M
  <2> HIDE DEF M
  <2> QED
    BY <1>0, <1>3, UpTo
<1> QED
  BY <1>4 DEF Read

LEMMA NoKey == Key(<<>>) = <<>>
<1>1. Signs(<<>>, "=") = {}
  BY DEF Signs
<1>2. Before(<<>>, {}) = <<>>
  BY DEF Before
<1> QED
  BY <1>1, <1>2, NothingTrimmed DEF Key

\* Line by line, the entry the parser has is the first the lines so far say.
SoFar(st, text, sect, key, i) ==
  LET said == SaidTo(text, sect, key, i) IN
    /\ IsState(st) /\ (st.in = sect <=> Within(text, sect, i))
    /\ Holds(st.data, sect, key) <=> said # {}
    /\ Holds(st.data, sect, key) => said = {st.data[sect][key]}

LEMMA SoFarNext ==
  ASSUME NEW T, NEW raw \in Seq(T), Regular(raw), NEW text, NEW i \in Nat \ {0},
         text[i] = Text(raw), NEW sect, NEW key, key # <<>>,
         NEW st, SoFar(st, text, sect, key, i - 1), NEW new, new = ReadLine(st, raw)
  PROVE  SoFar(new, text, sect, key, i)
<1> DEFINE old == SaidTo(text, sect, key, i - 1)
           said == SaidTo(text, sect, key, i)
           t == text[i]
<1>1. /\ IsState(st) /\ (st.in = sect <=> Within(text, sect, i - 1))
      /\ Holds(st.data, sect, key) <=> old # {}
      /\ Holds(st.data, sect, key) => old = {st.data[sect][key]}
  BY DEF SoFar
<1>2. said = IF old = {} /\ Adds(text, sect, key, i) THEN {Value(t)} ELSE old
  BY SaidNext
<1>3. /\ IsSection(t) => (Within(text, sect, i) <=> Name(t) = sect)
      /\ ~IsSection(t) => (Within(text, sect, i) <=> Within(text, sect, i - 1))
  BY WithinNext
<1>4. Adds(text, sect, key, i) <=> Key(t) = key /\ ~IsSection(t) /\ Within(text, sect, i - 1)
  BY DEF Adds
<1>5. t = <<>> => Key(t) # key
  BY NoKey
<1> HIDE DEF t, said, old
<1>6. /\ IsState(new)
      /\ IsSection(t) =>
           /\ new.in = Name(t)
           /\ Holds(new.data, sect, key) <=> Holds(st.data, sect, key)
           /\ Holds(st.data, sect, key) => new.data[sect][key] = st.data[sect][key]
      /\ ~IsSection(t) =>
           LET adds == st.in = sect /\ t # <<>> /\ Key(t) = key IN
           /\ new.in = st.in
           /\ Holds(new.data, sect, key) <=> Holds(st.data, sect, key) \/ adds
           /\ Holds(st.data, sect, key) => new.data[sect][key] = st.data[sect][key]
           /\ ~Holds(st.data, sect, key) /\ adds => new.data[sect][key] = Value(t)
  BY <1>1, LineSays DEF t
<1>7. /\ IsState(new) /\ (new.in = sect <=> Within(text, sect, i))
      /\ Holds(new.data, sect, key) <=> said # {}
      /\ Holds(new.data, sect, key) => said = {new.data[sect][key]}
  <2>1. CASE IsSection(t)
    BY <2>1, <1>1, <1>2, <1>3, <1>4, <1>6
  <2>2. CASE ~IsSection(t)
    <3> DEFINE adds == st.in = sect /\ t # <<>> /\ Key(t) = key
    <3>1. adds <=> Adds(text, sect, key, i)
      BY <2>2, <1>1, <1>4, <1>5
    <3>2. /\ new.in = st.in
          /\ Holds(new.data, sect, key) <=> Holds(st.data, sect, key) \/ adds
          /\ Holds(st.data, sect, key) => new.data[sect][key] = st.data[sect][key]
          /\ ~Holds(st.data, sect, key) /\ adds => new.data[sect][key] = Value(t)
      BY <2>2, <1>6
    <3> HIDE DEF adds
    <3> QED
      BY <3>1, <3>2, <2>2, <1>1, <1>2, <1>3, <1>6
  <2> QED
    BY <2>1, <2>2
<1> QED
  BY <1>7 DEF SoFar, said

\* The parser finds an entry where the file says one, and in it what it says
\* there (basic_ini::read_file).
LEMMA FileSays ==
  ASSUME NEW T, NEW f \in Seq(Seq(T)), \A i \in DOMAIN f : Regular(f[i]), NEW k
  PROVE  /\ Has(Parsed(f), k) <=> Says(f, k) # {}
         /\ Has(Parsed(f), k) => Says(f, k) = {Get(Parsed(f), k)}
<1> DEFINE N == Len(f)
           text == [i \in DOMAIN f |-> Text(f[i])]
           sect == <<k[1]>>
           key == <<k[2]>>
<1>0. N \in Nat /\ DOMAIN f = 1 .. N /\ N \in 0 .. N
  OBVIOUS
<1>1. PICK h : /\ h[0] = Empty
               /\ \A i \in 1 .. N : h[i] = ReadLine(h[i - 1], f[i])
  BY ReadAll
<1>2. Parsed(f) = h[N].data
  <2>1. ReadTo(f, h[N])
    BY <1>1 DEF ReadTo
  <2> QED
    BY <1>0, <2>1, ParsedIs
<1>3. Says(f, k) = SaidTo(text, sect, key, N)
  BY SaysIs
<1>4. sect # <<>> /\ key # <<>>
  <2>1. ASSUME NEW x PROVE <<x>> # <<>>
    <3> DEFINE X == {x}
    <3>1. x \in X
      OBVIOUS
    <3> HIDE DEF X
    <3> QED
      BY <3>1, One
  <2> QED
    BY <2>1
<1>5. \A i \in 1 .. N : text[i] = Text(f[i]) /\ f[i] \in Seq(T) /\ Regular(f[i])
  <2> DEFINE X == Seq(T)
  <2>1. f \in Seq(X)
    OBVIOUS
  <2> HIDE DEF X
  <2>2. \A i \in 1 .. N : f[i] \in X
    BY <2>1
  <2>3. \A i \in 1 .. N : text[i] = Text(f[i])
    BY <1>0
  <2>4. \A i \in 1 .. N : Regular(f[i])
    BY <1>0
  <2> QED
    BY <2>2, <2>3, <2>4 DEF X
<1>6. /\ Has(Parsed(f), k) <=> Holds(Parsed(f), sect, key)
      /\ Get(Parsed(f), k) = Parsed(f)[sect][key]
  BY DEF Has, Get, Holds
<1> DEFINE Ok(i) == SoFar(h[i], text, sect, key, i)
           M == {i \in 0 .. N : Ok(i)}
<1> HIDE DEF N, text, sect, key
<1>7. Ok(0)
  <2>1. /\ Empty.in = <<>> /\ DOMAIN Empty.data = {} /\ Empty = [in |-> Empty.in, data |-> Empty.data]
    BY DEF Empty
  <2>2. ~Within(text, sect, 0) /\ SaidTo(text, sect, key, 0) = {}
    <3>1. Adding(text, sect, key, 0) = {}
      BY DEF Adding
    <3> QED
      BY <3>1, SaidFirst DEF Within
  <2> QED
    BY <2>1, <2>2, <1>1, <1>4 DEF SoFar, IsState, Holds
<1>8. ASSUME NEW i \in 1 .. N, Ok(i - 1) PROVE Ok(i)
  <2>1. i \in Nat \ {0}
    BY <1>0
  <2>2. h[i] = ReadLine(h[i - 1], f[i]) /\ text[i] = Text(f[i]) /\ f[i] \in Seq(T) /\ Regular(f[i])
    BY <1>1, <1>5
  <2> QED
    BY <2>1, <2>2, <1>4, <1>8, SoFarNext
<1> HIDE DEF Ok
<1>9. M \in SUBSET (0 .. N) /\ 0 \in M /\ \A i \in 1 .. N : i - 1 \in M => i \in M
  <2>1. 0 \in 0 .. N /\ \A i \in 1 .. N : i \in 0 .. N
    BY <1>0
  <2> QED
    BY <2>1, <1>7, <1>8
<1>10. N \in M
  <2> HIDE DEF M
  <2> QED
    BY <1>0, <1>9, UpTo
<1>11. Ok(N)
  BY <1>10
<1> QED
  BY <1>2, <1>3, <1>6, <1>11 DEF Ok, SoFar

\* What a file says of an entry is made of its tokens.
LEMMA SaidTyped ==
  ASSUME NEW T, NEW f \in Seq(Seq(T)), \A i \in DOMAIN f : Regular(f[i]), NEW k
  PROVE  Says(f, k) \subseteq Seq(T)
<1> DEFINE X == Seq(T)
           text == [i \in DOMAIN f |-> Text(f[i])]
           sect == <<k[1]>>
           key == <<k[2]>>
           Mark == "BOM"
<1>1. f \in Seq(X)
  OBVIOUS
<1>2. ASSUME NEW i \in DOMAIN f PROVE Value(Text(f[i])) \in Seq(T)
  <2>1. f[i] \in Seq(T)
    <3> HIDE DEF X
    <3>1. f[i] \in X
      BY <1>1
    <3> QED
      BY <3>1 DEF X
  <2>2. Text(f[i]) \in Seq(T) /\ Tidied(Text(f[i]))
    BY <2>1, TextRead
  <2>3. ASSUME NEW t \in Seq(T), Tidied(t) PROVE Value(t) \in Seq(T)
    <3> DEFINE equals == Signs(t, "=")
    <3>1. Value(t) = IF equals = {} THEN <<>> ELSE Trimmed(SubSeq(t, Min(equals) + 1, Len(t)))
      BY DEF Value
    <3>2. equals \in SUBSET (1 .. Len(t)) /\ Len(t) \in Nat
      BY DEF Signs
    <3>3. \A j \in DOMAIN t : t[j] # Mark
      BY <2>3 DEF Tidied
    <3> HIDE DEF equals, Mark
    <3>4. CASE equals = {}
      BY <3>1, <3>4
    <3>5. CASE equals # {}
      <4>1. PICK e \in 1 .. Len(t) : e = Min(equals)
        BY <3>2, <3>5, FirstOne
      <4>2. PICK x \in Nat : x = e + 1
        BY <3>2, <4>1
      <4>3. x \in 1 .. Len(t) + 1 /\ Len(t) \in x - 1 .. Len(t)
        BY <3>2, <4>1, <4>2
      <4> DEFINE p == SubSeq(t, x, Len(t))
      <4>4. p \in Seq(T) /\ \A j \in DOMAIN p : p[j] # Mark
        BY <4>3, <3>3, PartOf, PartUnmarked DEF Mark
      <4>5. Value(t) = Trimmed(p)
        BY <3>1, <3>5, <4>1, <4>2
      <4> HIDE DEF p
      <4>6. Unmarked(p)
        BY <4>4 DEF Unmarked, Signs, Mark
      <4> QED
        BY <4>4, <4>5, <4>6, TrimmedIs
    <3> QED
      BY <3>4, <3>5
  <2> QED
    BY <2>2, <2>3
<1>3. \A i \in DOMAIN f : text[i] = Text(f[i])
  OBVIOUS
<1>4. Says(f, k) = SaidTo(text, sect, key, Len(f))
  BY <1>1, SaysIs
<1>5. DOMAIN f = 1 .. Len(f)
  BY <1>1
<1> HIDE DEF text, sect, key, X
<1>6. Adding(text, sect, key, Len(f)) \subseteq DOMAIN f
  BY <1>5 DEF Adding
<1> QED
  BY <1>2, <1>3, <1>4, <1>6 DEF SaidTo

-------------------------------------------------------------------------------
(***************************************************************************)
(* What the readers make of what a file says.                              *)
(***************************************************************************)
Reflects(data, k, said) ==
  /\ Has(data, k) <=> said # {}
  /\ Has(data, k) => said = {Get(data, k)}

LEMMA BooleanSaid ==
  ASSUME NEW data, NEW k, NEW said, Reflects(data, k, said)
  PROVE  /\ ReadBoolean(data, k, FALSE) \in BOOLEAN
         /\ ReadBoolean(data, k, FALSE) <=> \E v \in said : v \notin No
<1>1. ReadBoolean(data, k, FALSE) = IF Has(data, k) THEN Get(data, k) \notin No ELSE FALSE
  BY DEF ReadBoolean
<1> QED
  BY <1>1 DEF Reflects

IsNamed(v, l) == v # <<>> /\ v[1] \in DOMAIN Number /\ Number[v[1]] = l

LEMMA LanguageSaid ==
  ASSUME NEW data, NEW k, NEW said, Reflects(data, k, said),
         NEW l, l = Clamped(ReadInteger(data, k, 1))
  PROVE  /\ l \in 0 .. 7
         /\ \A m \in 0 .. 7 \ {1} : l = m <=> \E v \in said : IsNamed(v, m)
<1> DEFINE v == Get(data, k)
<1>1. ReadInteger(data, k, 1) =
        IF Has(data, k) /\ v # <<>> /\ v[1] \in DOMAIN Number THEN Number[v[1]] ELSE 1
  BY DEF ReadInteger
<1>2. \A i : Clamped(i) = IF i \in 0 .. 7 THEN i ELSE 1
  BY DEF Clamped
<1>3. l \in 0 .. 7
  BY <1>2
<1>4. ASSUME NEW m \in 0 .. 7 \ {1}, l = m PROVE v \in said /\ IsNamed(v, m)
  <2>1. Has(data, k) /\ v # <<>> /\ v[1] \in DOMAIN Number
    BY <1>1, <1>2, <1>4
  <2>2. l = Number[v[1]]
    BY <1>1, <1>2, <1>4, <2>1
  <2> HIDE DEF v
  <2> QED
    BY <2>1, <2>2, <1>4 DEF Reflects, IsNamed, v
<1>5. ASSUME NEW m \in 0 .. 7 \ {1}, NEW w \in said, IsNamed(w, m) PROVE l = m
  <2>1. Has(data, k) /\ w = v
    BY DEF Reflects
  <2>2. IsNamed(v, m)
    BY <1>5, <2>1
  <2>3. ReadInteger(data, k, 1) = m
    BY <1>1, <2>1, <2>2 DEF IsNamed
  <2> QED
    BY <1>2, <2>3
<1> HIDE DEF v
<1> QED
  BY <1>3, <1>4, <1>5

\* The values of said that have something in them.
Given(said) ==
  {Unquoted(v) : v \in {w \in said : w # <<>> /\ ~(Len(w) = 1 /\ w[1] \in Quote)}}

LEMMA StringSaid ==
  ASSUME NEW T, NEW data, NEW k, NEW said, Reflects(data, k, said), said \subseteq Seq(T),
         NEW default
  PROVE  ReadString(data, k, default) \in IF Given(said) = {} THEN {default} ELSE Given(said)
<1> DEFINE v == IF Has(data, k) THEN Get(data, k) ELSE <<>>
           open == IF v # <<>> /\ v[1] \in Quote THEN Tail(v) ELSE v
           text == IF open # <<>> /\ open[Len(open)] \in Quote THEN Front(open) ELSE open
           r == ReadString(data, k, default)
<1>1. r = IF open = <<>> THEN default ELSE text
  BY DEF ReadString
<1>2. ASSUME Has(data, k) PROVE v \in Seq(T)
  BY <1>2 DEF Reflects
<1>3. ~Has(data, k) => v = <<>>
  OBVIOUS
<1>4. v \in Seq(T)
  BY <1>2, <1>3
<1> HIDE DEF v
<1>5. v = <<>> => open = <<>>
  OBVIOUS
<1> DEFINE a == IF v # <<>> /\ v[1] \in Quote THEN 2 ELSE 1
           N == Len(v)
<1>6. N \in Nat /\ (v # <<>> => N # 0) /\ a \in 1 .. 2 /\ (v # <<>> => a \in 1 .. N + 1)
  BY <1>4, EmptySeq
<1>7. v # <<>> => open = SubSeq(v, a, N)
  <2>1. CASE v # <<>> /\ v[1] \in Quote
    <3> DEFINE x == Tail(v)
               y == SubSeq(v, 2, N)
    <3>1. x \in Seq(T) /\ Len(x) = N - 1 /\ \A i \in 1 .. N - 1 : x[i] = v[i + 1]
      BY <2>1, <1>4, HeadTailProperties
    <3>2. 2 \in 1 .. Len(v) + 1 /\ Len(v) \in 2 - 1 .. Len(v)
      BY <2>1, <1>6
    <3>3. y \in Seq(T) /\ Len(y) = N - 2 + 1 /\ \A i \in 1 .. N - 2 + 1 : y[i] = v[2 + i - 1]
      BY <3>2, <1>4, PartOf
    <3>4. open = x /\ a = 2
      BY <2>1
    <3>5. N - 2 + 1 = N - 1 /\ N - 1 \in Nat /\ \A i \in Int : 2 + i - 1 = i + 1
      BY <2>1, <1>6
    <3> HIDE DEF x, y, open, a, N
    <3>6. \A i \in 1 .. N - 1 : x[i] = y[i]
      BY <3>1, <3>3, <3>5
    <3>7. x = y
      BY <3>1, <3>3, <3>5, <3>6, SeqEqual
    <3> QED
      BY <3>4, <3>7 DEF y
  <2>2. CASE v # <<>> /\ v[1] \notin Quote
    BY <2>2, <1>4
  <2> QED
    BY <2>1, <2>2
<1>8. /\ open \in Seq(T) /\ (v # <<>> => Len(open) = N - a + 1)
      /\ (v # <<>> => \A i \in 1 .. N - a + 1 : open[i] = v[a + i - 1])
  <2>1. CASE v = <<>>
    BY <2>1, <1>4, <1>5
  <2>2. CASE v # <<>>
    <3>1. a \in 1 .. Len(v) + 1 /\ Len(v) \in a - 1 .. Len(v)
      BY <2>2, <1>6
    <3> HIDE DEF a, open
    <3>2. /\ SubSeq(v, a, Len(v)) \in Seq(T) /\ Len(SubSeq(v, a, Len(v))) = Len(v) - a + 1
          /\ \A i \in 1 .. Len(v) - a + 1 : SubSeq(v, a, Len(v))[i] = v[a + i - 1]
      BY <3>1, <1>4, PartOf
    <3> QED
      BY <3>2, <2>2, <1>7
  <2> QED
    BY <2>1, <2>2
<1> HIDE DEF open, text
<1>9. ASSUME open # <<>> PROVE text = Unquoted(v)
  <2>0. v # <<>>
    BY <1>5, <1>9
  <2> DEFINE b == IF v # <<>> /\ v[N] \in Quote THEN N - 1 ELSE N
  <2>1. Unquoted(v) = SubSeq(v, a, b)
    BY DEF Unquoted
  <2>2. Len(open) = N - a + 1 /\ Len(open) # 0 /\ open[Len(open)] = v[N] /\ a <= N
    <3>1. Len(open) # 0 /\ Len(open) = N - a + 1
      BY <2>0, <1>8, <1>9, EmptySeq
    <3> HIDE DEF a, N
    <3>2. a <= N /\ N - a + 1 \in 1 .. N - a + 1 /\ a + (N - a + 1) - 1 = N
      BY <3>1, <2>0, <1>6, <1>8
    <3> QED
      BY <3>1, <3>2, <2>0, <1>8
  <2> HIDE DEF a, N
  <2>3. CASE v[N] \in Quote
    <3>1. text = SubSeq(open, 1, Len(open) - 1)
      BY <2>2, <2>3, <1>8, <1>9 DEF text, Front
    <3>2. SubSeq(SubSeq(v, a, N), 1, N - a) = SubSeq(v, a + 1 - 1, a + (N - a) - 1)
      <4> DEFINE l == N - a
      <4>1. a \in 1 .. N + 1 /\ N \in a - 1 .. N /\ 1 \in 1 .. N - a + 2 /\ l \in 1 - 1 .. N - a + 1
        BY <2>0, <2>2, <1>6
      <4> HIDE DEF l
      <4>2. SubSeq(SubSeq(v, a, N), 1, l) = SubSeq(v, a + 1 - 1, a + l - 1)
        BY <4>1, <1>4, PartOfPart DEF N
      <4> QED
        BY <4>2 DEF l
    <3>3. Len(open) - 1 = N - a /\ a + 1 - 1 = a /\ a + (N - a) - 1 = N - 1
      BY <2>2, <1>6
    <3> QED
      BY <3>1, <3>2, <3>3, <2>0, <2>1, <2>3, <1>7
  <2>4. CASE v[N] \notin Quote
    BY <2>0, <2>1, <2>2, <2>4, <1>7 DEF text
  <2> QED
    BY <2>3, <2>4
<1>10. ASSUME v # <<>>
       PROVE  open = <<>> <=> Len(v) = 1 /\ v[1] \in Quote
  <2>1. (open = <<>> <=> Len(open) = 0) /\ Len(open) = N - a + 1
    BY <1>8, <1>10, EmptySeq
  <2>2. (v[1] \in Quote => a = 2) /\ (v[1] \notin Quote => a = 1)
    BY <1>10
  <2> HIDE DEF a, N
  <2>3. N \in Nat /\ N # 0 /\ a \in 1 .. 2
    BY <1>6, <1>10
  <2>4. CASE v[1] \in Quote
    <3>1. Len(open) = 0 <=> N = 1
      BY <2>1, <2>2, <2>3, <2>4
    <3> QED
      BY <3>1, <2>1, <2>4 DEF N
  <2>5. CASE v[1] \notin Quote
    <3>1. Len(open) # 0
      BY <2>1, <2>2, <2>3, <2>5
    <3> QED
      BY <3>1, <2>1, <2>5
  <2> QED
    BY <2>4, <2>5
<1> HIDE DEF r
<1>11. CASE open # <<>>
  <2>1. Has(data, k) /\ v # <<>>
    BY <1>3, <1>5, <1>11
  <2>2. said = {v}
    BY <2>1 DEF Reflects, v
  <2>3. Given(said) = {Unquoted(v)}
    BY <2>1, <2>2, <1>10, <1>11 DEF Given
  <2>4. r = Unquoted(v)
    BY <1>1, <1>9, <1>11
  <2> QED
    BY <2>3, <2>4 DEF r
<1>12. CASE open = <<>>
  <2>1. Given(said) = {}
    <3>1. CASE Has(data, k)
      <4>1. said = {v}
        BY <3>1 DEF Reflects, v
      <4> QED
        BY <4>1, <1>10, <1>12 DEF Given
    <3>2. CASE ~Has(data, k)
      BY <3>2 DEF Reflects, Given
    <3> QED
      BY <3>1, <3>2
  <2>2. r = default
    BY <1>1, <1>12
  <2> QED
    BY <2>1, <2>2 DEF r
<1> QED
  BY <1>11, <1>12

-------------------------------------------------------------------------------
(***************************************************************************)
(* The file the running settings came from.                                *)
(***************************************************************************)
IsText(f) == \E T : f \in Seq(Seq(T))

\* The tokens of a new file.
Tokens ==
  {"[", "]", "=", "patches", "False", "1", "client_language", Space}
    \union Switches \union Hosts \union {u[1] : u \in Urls} \union {u[2] : u \in Urls}

LEMMA DefaultsText ==
  ASSUME NEW e \in Defaults
  PROVE  SectionLine(e[1]) \in Seq(Tokens) /\ Entry(e[2], e[3]) \in Seq(Tokens)
<1> DEFINE S == Tokens
<1>s. /\ "[" \in S /\ "]" \in S /\ "=" \in S /\ "patches" \in S /\ "False" \in S /\ "1" \in S
      /\ "client_language" \in S /\ Space \in S
      /\ (\A k \in Switches : k \in S) /\ (\A h \in Hosts : h \in S)
      /\ \A u \in Urls : u[1] \in S /\ u[2] \in S
  BY DEF Tokens
<1> HIDE DEF S
<1>1. e[1] \in S /\ e[2] \in S /\ e[3] \in Seq(S)
  <2>1. CASE e \in SwitchedOff
    <3> DEFINE p == "patches"
               v == <<Space, "False">>
    <3>1. PICK k \in Switches : e = <<p, k, v>>
      BY <2>1 DEF SwitchedOff
    <3>2. v \in Seq(S) /\ p \in S /\ k \in S
      <4> DEFINE word == "False"
      <4>1. word \in S /\ Space \in S /\ p \in S /\ k \in S
        BY <1>s
      <4> HIDE DEF word, p
      <4>2. <<Space, word>> \in Seq(S)
        BY <4>1, Two
      <4> QED
        BY <4>1, <4>2 DEF word
    <3> HIDE DEF p, v
    <3>3. e[1] = p /\ e[2] = k /\ e[3] = v
      BY <3>1, Parts
    <3> QED
      BY <3>2, <3>3
  <2>2. CASE e \in English
    <3> DEFINE p == "patches"
               k == "client_language"
               v == <<Space, "1">>
    <3>1. e = <<p, k, v>>
      BY <2>2 DEF English
    <3>2. v \in Seq(S) /\ p \in S /\ k \in S
      <4> DEFINE word == "1"
      <4>1. word \in S /\ Space \in S /\ p \in S /\ k \in S
        BY <1>s
      <4> HIDE DEF word, p, k
      <4>2. <<Space, word>> \in Seq(S)
        BY <4>1, Two
      <4> QED
        BY <4>1, <4>2 DEF word
    <3> HIDE DEF p, v, k
    <3>3. e[1] = p /\ e[2] = k /\ e[3] = v
      BY <3>1, Parts
    <3> QED
      BY <3>2, <3>3
  <2>3. CASE e \in OfficialOnes
    <3>1. PICK u \in Urls : e = <<u[1], u[2], Official[u]>>
      BY <2>3 DEF OfficialOnes
    <3>2. e[1] = u[1] /\ e[2] = u[2] /\ e[3] = Official[u]
      BY <3>1, Parts
    <3>3. PICK h \in Hosts : Official[u] = <<h>>
      BY Officials
    <3>4. h \in S /\ u[1] \in S /\ u[2] \in S
      BY <1>s
    <3>5. <<h>> \in Seq(S)
      BY <3>4, One
    <3> QED
      BY <3>2, <3>3, <3>4, <3>5
  <2> QED
    BY <2>1, <2>2, <2>3 DEF Defaults
<1>2. SectionLine(e[1]) \in Seq(S)
  <2> DEFINE open == "["
             close == "]"
             a == e[1]
  <2>1. open \in S /\ close \in S /\ a \in S
    BY <1>s, <1>1
  <2> HIDE DEF open, close, a
  <2>2. IsThree(<<open, a, close>>, S, open, a, close)
    BY <2>1, Three
  <2> DEFINE t == <<open, a, close>>
  <2>3. IsThree(t, S, open, a, close)
    BY <2>2
  <2> HIDE DEF t
  <2>4. t \in Seq(S)
    BY <2>3 DEF IsThree
  <2> QED
    BY <2>4 DEF t, open, close, a, SectionLine
<1>3. Entry(e[2], e[3]) \in Seq(S)
  <2> DEFINE eq == "="
             a == e[2]
             v == e[3]
  <2>1. eq \in S /\ a \in S /\ v \in Seq(S)
    BY <1>s, <1>1
  <2> HIDE DEF eq, a, v
  <2>2. <<a, eq>> \in Seq(S)
    BY <2>1, Two
  <2> DEFINE t == <<a, eq>>
  <2>3. t \in Seq(S)
    BY <2>2
  <2> HIDE DEF t
  <2>4. t \o v \in Seq(S)
    BY <2>1, <2>3, ConcatProperties
  <2> QED
    BY <2>4 DEF t, eq, a, v, Entry
<1> QED
  BY <1>2, <1>3 DEF S

LEMMA FlattenedTyped ==
  ASSUME NEW X, NEW m \in Nat \ {0}, NEW parts \in [1 .. m -> Seq(X)]
  PROVE  FlattenSeq(parts) \in Seq(X)
<1>1. PICK w : /\ FlattenSeq(parts) = w[m] /\ w[1] = parts[1]
               /\ \A k \in 2 .. m : w[k] = w[k - 1] \o parts[k]
  BY Flattened
<1> DEFINE W == {k \in 0 .. m - 1 : w[k + 1] \in Seq(X)}
<1>2. m - 1 \in Nat /\ m - 1 \in 0 .. m - 1 /\ m - 1 + 1 = m /\ W \in SUBSET (0 .. m - 1)
  OBVIOUS
<1>3. 0 \in W
  <2>1. 1 \in 1 .. m /\ parts[1] \in Seq(X)
    OBVIOUS
  <2> QED
    BY <1>1, <1>2, <2>1
<1>4. ASSUME NEW k \in 1 .. m - 1, k - 1 \in W PROVE k \in W
  <2> DEFINE i == k + 1
  <2>1. i \in 2 .. m /\ i \in 1 .. m /\ i - 1 = k /\ k \in 0 .. m - 1 /\ k - 1 + 1 = k
    OBVIOUS
  <2>2. w[k] \in Seq(X)
    BY <1>4, <2>1
  <2> HIDE DEF i
  <2>3. w[i] = w[k] \o parts[i] /\ parts[i] \in Seq(X)
    BY <1>1, <2>1
  <2>4. w[i] \in Seq(X)
    BY <2>2, <2>3, ConcatProperties
  <2> QED
    BY <2>1, <2>4 DEF i
<1>5. m - 1 \in W
  <2> HIDE DEF W
  <2> QED
    BY <1>2, <1>3, <1>4, UpTo
<1> QED
  BY <1>1, <1>2, <1>5

LEMMA NewFileText ==
  ASSUME NEW m \in 1 .. Len(NewEntries)
  PROVE  IsText(NewFile(m))
<1> DEFINE e(i) == NewEntries[i]
           X == Seq(Tokens)
           Lines(i) == IF i = 1 \/ e(i - 1)[1] # e(i)[1]
                         THEN <<SectionLine(e(i)[1])>> \o <<Entry(e(i)[2], e(i)[3])>>
                         ELSE <<Entry(e(i)[2], e(i)[3])>>
           parts == [i \in 1 .. m |-> Lines(i)]
<1>0. NewEntries \in Seq(Defaults)
  BY OptionsTyped, UrlsTyped, ConcatProperties DEF NewEntries
<1>1. m \in Nat \ {0} /\ \A i \in 1 .. m : e(i) \in Defaults
  BY <1>0
<1>2. NewFile(m) = FlattenSeq(parts)
  BY DEF NewFile
<1>3. ASSUME NEW i \in 1 .. m PROVE Lines(i) \in Seq(X)
  <2> DEFINE a == SectionLine(e(i)[1])
             b == Entry(e(i)[2], e(i)[3])
  <2>1. a \in X /\ b \in X
    BY <1>1, DefaultsText
  <2>2. Lines(i) \in {<<a>> \o <<b>>, <<b>>}
    OBVIOUS
  <2> HIDE DEF a, b, X, Lines
  <2>3. <<a>> \in Seq(X) /\ <<b>> \in Seq(X)
    BY <2>1
  <2>4. <<a>> \o <<b>> \in Seq(X)
    BY <2>3, ConcatProperties
  <2> QED
    BY <2>2, <2>3, <2>4
<1>4. parts \in [1 .. m -> Seq(X)]
  <2> HIDE DEF Lines, X
  <2> QED
    BY <1>3
<1> HIDE DEF parts, X
<1>5. FlattenSeq(parts) \in Seq(X)
  BY <1>1, <1>4, FlattenedTyped
<1> QED
  BY <1>2, <1>5 DEF IsText, X

\* Whatever is in memory came from the file read at launch, and that is a text.
SourceInv ==
  /\ file # NoFile => IsText(file)
  /\ IsText(readFrom) /\ settings = Loaded(readFrom)

LEMMA SourceStep ==
  ASSUME SourceInv, UntouchedInv, [Next]_vars
  PROVE  SourceInv'
<1>0. IsText(<<>>) /\ \A m \in 1 .. Len(NewEntries) : IsText(NewFile(m))
  BY NewFileText DEF IsText
<1>1. Loaded(<<>>) = Initial
  BY NothingTidy, TidyLoads
<1>2. file' # NoFile => IsText(file')
  <2>1. CASE UserEdits
    BY <2>1, FilesAssumption DEF UserEdits, IsText
  <2>2. CASE UserCopies
    <3>1. created \in 1 .. Len(NewEntries)
      <4>1. Len(NewEntries) \in Nat
        BY NewEntriesMean
      <4> QED
        BY <2>2, <4>1 DEF UntouchedInv, CreatedInv, UserCopies
    <3>2. file' = NewFile(created)
      BY <2>2 DEF UserCopies
    <3> QED
      BY <3>1, <3>2, <1>0
  <2>3. CASE UNCHANGED file
    BY <2>3 DEF SourceInv, IsText
  <2>4. UNCHANGED file \/ UserEdits \/ UserCopies
    BY DEF Next, vars, Launch, CreateNewConfigFile, Created, LoadConfigurationFile,
           GetHostByName, Exit
  <2> QED
    BY <2>1, <2>2, <2>3, <2>4
<1>3. IsText(readFrom') /\ settings' = Loaded(readFrom')
  <2>1. CASE LoadConfigurationFile
    <3>1. settings' = Loaded(Contents(file)) /\ readFrom' = Contents(file)
      BY <2>1 DEF LoadConfigurationFile
    <3>2. IsText(Contents(file))
      BY <1>0 DEF Contents, SourceInv
    <3> QED
      BY <3>1, <3>2
  <2>2. CASE Exit
    BY <2>2, <1>0, <1>1 DEF Exit
  <2>3. CASE UNCHANGED <<settings, readFrom>>
    BY <2>3 DEF SourceInv, IsText
  <2>4. LoadConfigurationFile \/ Exit \/ UNCHANGED <<settings, readFrom>>
    BY DEF Next, vars, Launch, CreateNewConfigFile, Created, GetHostByName, UserEdits, UserCopies
  <2> QED
    BY <2>1, <2>2, <2>3, <2>4
<1> QED
  BY <1>2, <1>3 DEF SourceInv, IsText

\* What is in memory always came from the file that was read at launch, whatever the
\* user or the program wrote since (Settings::Init, called when the game starts, is the
\* only caller of LoadConfigurationFile).
THEOREM SourceInductive == Spec => []SourceInv
<1>1. Init => SourceInv
  <2>1. Loaded(<<>>) = Initial /\ IsText(<<>>)
    BY NothingTidy, TidyLoads DEF IsText
  <2> QED
    BY <2>1 DEF Init, SourceInv
<1> QED
  BY <1>1, SourceStep, UntouchedInductive, PTL DEF Spec

\* An entry of the file read at launch is found where the file says it.
LEMMA RunningReflects ==
  ASSUME SourceInv, \A i \in DOMAIN readFrom : Regular(readFrom[i]), NEW k
  PROVE  /\ Reflects(Parsed(readFrom), k, Says(readFrom, k))
         /\ \E T : Says(readFrom, k) \subseteq Seq(T)
<1>1. PICK T : readFrom \in Seq(Seq(T))
  BY DEF SourceInv, IsText
<1>2. Says(readFrom, k) \subseteq Seq(T)
  BY <1>1, SaidTyped
<1>3. /\ Has(Parsed(readFrom), k) <=> Says(readFrom, k) # {}
      /\ Has(Parsed(readFrom), k) => Says(readFrom, k) = {Get(Parsed(readFrom), k)}
  BY <1>1, FileSays
<1> QED
  BY <1>2, <1>3 DEF Reflects

LEMMA OptionsSaid ==
  ASSUME SourceInv
  PROVE  OptionsObeyFile
<1> DEFINE data == Parsed(readFrom)
           Option(k) == <<"patches", k>>
           Said(k) == Says(readFrom, Option(k))
           Obeys(k, on) == on <=> \E v \in Said(k) : v \notin No
           language == Option("client_language")
<1> SUFFICES ASSUME \A i \in DOMAIN readFrom : Regular(readFrom[i])
             PROVE  /\ Obeys("gameguard", settings.gameguard)
                    /\ Obeys("redirect", settings.redirect)
                    /\ Obeys("episode4_mode", settings.episode4)
                    /\ Obeys("enable_direct_input", settings.noIME)
                    /\ settings.language \in 0 .. 7
                    /\ \A l \in 0 .. 7 \ {1} :
                         settings.language = l <=> \E v \in Said("client_language") : IsNamed(v, l)
  BY DEF OptionsObeyFile, IsNamed
<1>1. \A k : Reflects(data, k, Says(readFrom, k))
  BY RunningReflects
<1>2. /\ settings.gameguard = ReadBoolean(data, Option("gameguard"), FALSE)
      /\ settings.redirect = ReadBoolean(data, Option("redirect"), FALSE)
      /\ settings.episode4 = ReadBoolean(data, Option("episode4_mode"), FALSE)
      /\ settings.noIME = ReadBoolean(data, Option("enable_direct_input"), FALSE)
      /\ settings.language = Clamped(ReadInteger(data, language, 1))
  BY DEF SourceInv, Loaded
<1> HIDE DEF data, Option
<1>3. ASSUME NEW k PROVE Obeys(k, ReadBoolean(data, Option(k), FALSE))
  <2>1. Reflects(data, Option(k), Said(k))
    BY <1>1
  <2> QED
    BY <2>1, BooleanSaid
<1>4. /\ settings.language \in 0 .. 7
      /\ \A l \in 0 .. 7 \ {1} :
           settings.language = l <=> \E v \in Said("client_language") : IsNamed(v, l)
  <2> DEFINE said == Says(readFrom, language)
             l == settings.language
  <2>1. Reflects(data, language, said)
    BY <1>1
  <2>2. l = Clamped(ReadInteger(data, language, 1))
    BY <1>2
  <2> HIDE DEF said, l
  <2>3. /\ l \in 0 .. 7
        /\ \A m \in 0 .. 7 \ {1} : l = m <=> \E v \in said : IsNamed(v, m)
    BY <2>1, <2>2, LanguageSaid
  <2> QED
    BY <2>3 DEF said, l
<1> HIDE DEF Obeys
<1>5. /\ Obeys("gameguard", settings.gameguard) /\ Obeys("redirect", settings.redirect)
      /\ Obeys("episode4_mode", settings.episode4)
      /\ Obeys("enable_direct_input", settings.noIME)
  BY <1>2, <1>3
<1> QED
  BY <1>4, <1>5

\* For every file the user may write, the options in memory are what the file read
\* at launch says, comments left out: the first of the entries under the section
\* decides, and what is no number, or no language of the game, is English
\* (LoadConfigurationFile, CIniReader and basic_ini::read_file).
THEOREM OptionsAlwaysObeyFile == Spec => []OptionsObeyFile
<1>1. SourceInv => OptionsObeyFile
  BY OptionsSaid
<1> QED
  BY <1>1, SourceInductive, PTL

LEMMA LookupSaid ==
  ASSUME SourceInv, AsRead
  PROVE  LookupObeysFile
<1> DEFINE redirect == <<"patches", "redirect">>
           on == \E v \in Says(readFrom, redirect) : v \notin No
           given(u) == Given(Says(readFrom, u))
           data == Parsed(readFrom)
           mem == Loaded(readFrom)
           name == lookup.name
           sent == lookup.sent
<1> SUFFICES ASSUME lookup # NoLookup, \A i \in DOMAIN readFrom : Regular(readFrom[i])
             PROVE  IF ~on THEN sent = name
                    ELSE IF name \in OtherNames THEN sent = <<>>
                    ELSE \E u \in Urls :
                           /\ Official[u] = name
                           /\ sent \in IF given(u) = {} THEN {name} ELSE given(u)
  BY DEF LookupObeysFile, Addresses, Given
<1>1. \A k : Reflects(data, k, Says(readFrom, k)) /\ \E T : Says(readFrom, k) \subseteq Seq(T)
  BY RunningReflects
<1>2. /\ name \in Names
      /\ ~mem.redirect => sent = name
      /\ mem.redirect =>
           /\ \A u \in Urls : Official[u] = name => sent = mem.url[u]
           /\ name \in OtherNames => sent = <<>>
  BY DEF AsRead
<1>3. /\ mem.redirect = ReadBoolean(data, redirect, FALSE)
      /\ \A u \in Urls : mem.url[u] = ReadString(data, u, Official[u])
  BY DEF Loaded, DefaultUrl
<1> HIDE DEF mem, data, redirect, name, sent
<1>4. mem.redirect \in BOOLEAN /\ (mem.redirect <=> on)
  BY <1>1, <1>3, BooleanSaid
<1>5. ASSUME NEW u \in Urls
      PROVE  mem.url[u] \in IF given(u) = {} THEN {Official[u]} ELSE given(u)
  <2> DEFINE said == Says(readFrom, u)
  <2>1. Reflects(data, u, said)
    BY <1>1
  <2>2. PICK T : said \subseteq Seq(T)
    BY <1>1
  <2> HIDE DEF said
  <2> DEFINE default == Official[u]
  <2> HIDE DEF default
  <2>3. ReadString(data, u, default) \in IF Given(said) = {} THEN {default} ELSE Given(said)
    BY <2>1, <2>2, StringSaid
  <2> QED
    BY <2>3, <1>3 DEF said, default
<1> HIDE DEF on, given
<1>6. CASE ~on
  BY <1>2, <1>4, <1>6
<1>7. CASE on /\ name \in OtherNames
  BY <1>2, <1>4, <1>7
<1>8. CASE on /\ name \notin OtherNames
  <2>1. PICK u \in Urls : Official[u] = name
    BY <1>2, <1>8 DEF Names
  <2>2. sent = mem.url[u]
    BY <1>2, <1>4, <1>8, <2>1
  <2> QED
    BY <2>1, <2>2, <1>5, <1>8
<1> QED
  BY <1>6, <1>7, <1>8

\* For every file the user may write and whatever he writes while the game runs, a
\* name goes where the file read at launch sends it, comments left out, or to itself
\* (_gethostbyname, LoadConfigurationFile and basic_ini::read_file).
THEOREM LookupsObeyFile == Spec => []LookupObeysFile
<1>1. SourceInv /\ AsRead => LookupObeysFile
  BY LookupSaid
<1> QED
  BY <1>1, SourceInductive, LookupsAreAsRead, PTL

-------------------------------------------------------------------------------
(***************************************************************************)
(* What is left of a line has no comments in it.                           *)
(***************************************************************************)
Bare(s) ==
  /\ \A i \in DOMAIN s : s[i] # Semicolon /\ s[i] # "#"
  /\ \A i \in DOMAIN s : s[i] = Space /\ i + 1 \in DOMAIN s => s[i + 1] # "//"

LEMMA BarePart ==
  ASSUME NEW T, NEW s \in Seq(T), Bare(s),
         NEW x \in 1 .. Len(s) + 1, NEW y \in x - 1 .. Len(s)
  PROVE  Bare(SubSeq(s, x, y))
<1> DEFINE p == SubSeq(s, x, y)
           Slash == "//"
           Hash == "#"
<1>1. Len(s) \in Nat /\ DOMAIN s = 1 .. Len(s)
  OBVIOUS
<1>2. DOMAIN p = 1 .. y - x + 1 /\ \A i \in 1 .. y - x + 1 : p[i] = s[x + i - 1]
  BY PartOf
<1>3. /\ \A i \in DOMAIN s : s[i] # Semicolon /\ s[i] # Hash
      /\ \A i \in DOMAIN s : s[i] = Space /\ i + 1 \in DOMAIN s => s[i + 1] # Slash
  BY DEF Bare
<1> HIDE DEF p, Slash, Hash
<1>4. ASSUME NEW i \in DOMAIN p PROVE p[i] # Semicolon /\ p[i] # Hash
  <2>1. x + i - 1 \in 1 .. Len(s)
    BY <1>1, <1>2
  <2> QED
    BY <2>1, <1>1, <1>2, <1>3
<1>5. ASSUME NEW i \in DOMAIN p, p[i] = Space, i + 1 \in DOMAIN p PROVE p[i + 1] # Slash
  <2> DEFINE j == x + i - 1
  <2>1. j \in 1 .. Len(s) /\ j + 1 \in 1 .. Len(s) /\ x + (i + 1) - 1 = j + 1
    <3>1. x \in Nat /\ y \in Nat /\ x >= 1 /\ y <= Len(s) /\ i \in 1 .. y - x + 1
          /\ i + 1 \in 1 .. y - x + 1
      BY <1>1, <1>2, <1>5
    <3>2. i \in Nat /\ i >= 1 /\ i + 1 <= y - x + 1
      BY <3>1
    <3>3. x + i - 1 >= 1 /\ x + i - 1 + 1 <= Len(s) /\ x + (i + 1) - 1 = x + i - 1 + 1
      BY <3>1, <3>2, <1>1
    <3> QED
      BY <3>1, <3>2, <3>3, <1>1
  <2>2. p[i] = s[j] /\ p[i + 1] = s[j + 1]
    BY <1>2, <1>5, <2>1
  <2> HIDE DEF j
  <2> QED
    BY <2>1, <2>2, <1>1, <1>3, <1>5
<1> QED
  BY <1>4, <1>5 DEF Bare, p, Slash, Hash

\* Trimming takes a part, and leaves an end that is neither white space nor a mark.
LEMMA TrimmedPart ==
  ASSUME NEW T, NEW s \in Seq(T)
  PROVE  \E x \in 1 .. Len(s) + 1 : \E y \in x - 1 .. Len(s) :
           /\ Trimmed(s) = SubSeq(s, x, y)
           /\ s # <<>> /\ s[1] \notin White \union {"BOM"} => x = 1 /\ y # 0
           /\ s # <<>> /\ s[Len(s)] \notin White \union {"BOM"} => y = Len(s) /\ x # Len(s) + 1
<1>0. PICK N \in Nat : N = Len(s) /\ DOMAIN s = 1 .. N
  OBVIOUS
<1> DEFINE Ends == White \union {"BOM"}
           words == {i \in DOMAIN s : s[i] \notin Ends}
<1>1. Trimmed(s) = IF words = {} THEN <<>> ELSE SubSeq(s, Min(words), Max(words))
  BY DEF Trimmed
<1>2. words \in SUBSET (1 .. N) /\ \A i \in 1 .. N : s[i] \notin Ends => i \in words
  BY <1>0
<1>3. s # <<>> => 1 \in 1 .. N /\ N \in 1 .. N
  <2>1. s # <<>> => N # 0
    BY <1>0, EmptySeq
  <2> QED
    BY <2>1, <1>0
<1>4. CASE words = {}
  <2>1. 1 \in 1 .. N + 1 /\ 0 \in 1 - 1 .. N
    BY <1>0
  <2>2. SubSeq(s, 1, 0) = <<>>
    <3>1. SubSeq(s, 1, 0) \in Seq(T) /\ Len(SubSeq(s, 1, 0)) = 0
      BY <2>1, <1>0, PrefixParts
    <3> QED
      BY <3>1, EmptySeq
  <2>3. s = <<>> \/ (s[1] \in Ends /\ s[N] \in Ends)
    BY <1>2, <1>3, <1>4
  <2> HIDE DEF words, Ends
  <2>4. Trimmed(s) = SubSeq(s, 1, 0)
    BY <1>1, <1>4, <2>2
  <2> QED
    BY <2>1, <2>3, <2>4, <1>0 DEF Ends
<1>5. CASE words # {}
  <2> HIDE DEF words, Ends
  <2>1. PICK p \in 1 .. N, q \in 1 .. N :
          /\ p = Min(words) /\ p \in words /\ \A i \in words : p <= i
          /\ q = Max(words) /\ q \in words /\ \A i \in words : q >= i
    BY <1>2, <1>5, FirstOne, LastOne
  <2>2. p <= q /\ p \in 1 .. N + 1 /\ q \in p - 1 .. N /\ q # 0 /\ p # N + 1
    BY <2>1, <1>0
  <2>3. s # <<>> /\ s[1] \notin Ends => p = 1
    BY <1>2, <1>3, <2>1
  <2>4. s # <<>> /\ s[N] \notin Ends => q = N
    BY <1>2, <1>3, <2>1
  <2>5. Trimmed(s) = SubSeq(s, p, q)
    BY <1>1, <1>5, <2>1
  <2> QED
    BY <2>2, <2>3, <2>4, <2>5, <1>0 DEF Ends
<1> QED
  BY <1>4, <1>5

\* The part between the first and the last word is what trimming leaves.
LEMMA TrimmedTo ==
  ASSUME NEW T, NEW s \in Seq(T), NEW x \in 1 .. Len(s), NEW y \in x .. Len(s),
         \A i \in 1 .. Len(s) : i < x \/ i > y => s[i] \in White,
         s[x] \notin White \union {"BOM"}, s[y] \notin White \union {"BOM"}
  PROVE  Trimmed(s) = SubSeq(s, x, y)
<1>0. PICK N \in Nat : N = Len(s) /\ DOMAIN s = 1 .. N
  OBVIOUS
<1> DEFINE Ends == White \union {"BOM"}
           words == {i \in DOMAIN s : s[i] \notin Ends}
<1>1. Trimmed(s) = IF words = {} THEN <<>> ELSE SubSeq(s, Min(words), Max(words))
  BY DEF Trimmed
<1>2. White \subseteq Ends /\ s[x] \notin Ends /\ s[y] \notin Ends
  OBVIOUS
<1> HIDE DEF Ends
<1>3. x \in words /\ y \in words /\ words \in SUBSET Nat /\ \A i \in words : x <= i /\ y >= i
  BY <1>0, <1>2
<1> HIDE DEF words
<1>4. Min(words) = x /\ Max(words) = y
  BY <1>3, MinIs, MaxIs
<1> QED
  BY <1>1, <1>3, <1>4

LEMMA TrimmedBlank ==
  ASSUME NEW T, NEW s \in Seq(T), \A i \in 1 .. Len(s) : s[i] \in White
  PROVE  Trimmed(s) = <<>>
<1> DEFINE words == {i \in DOMAIN s : s[i] \notin White \union {"BOM"}}
<1>1. words = {}
  OBVIOUS
<1>2. Trimmed(s) = IF words = {} THEN <<>> ELSE SubSeq(s, Min(words), Max(words))
  BY DEF Trimmed
<1> QED
  BY <1>1, <1>2

LEMMA TrimmedBare ==
  ASSUME NEW T, NEW s \in Seq(T)
  PROVE  /\ Trimmed(s) \in Seq(T) /\ (Bare(s) => Bare(Trimmed(s)))
         /\ \A i \in DOMAIN Trimmed(s) : \E j \in DOMAIN s : Trimmed(s)[i] = s[j]
<1>0. Len(s) \in Nat /\ DOMAIN s = 1 .. Len(s)
  OBVIOUS
<1>1a. PICK x \in 1 .. Len(s) + 1 : \E y \in x - 1 .. Len(s) : Trimmed(s) = SubSeq(s, x, y)
  BY TrimmedPart
<1>1. PICK y \in x - 1 .. Len(s) : Trimmed(s) = SubSeq(s, x, y)
  BY <1>1a
<1> DEFINE p == SubSeq(s, x, y)
<1>2. /\ p \in Seq(T) /\ DOMAIN p = 1 .. y - x + 1
      /\ \A i \in 1 .. y - x + 1 : p[i] = s[x + i - 1]
  BY PartOf
<1>3. Bare(s) => Bare(p)
  BY BarePart
<1>4. \A i \in 1 .. y - x + 1 : x + i - 1 \in 1 .. Len(s)
  BY <1>0
<1> HIDE DEF p
<1>5. \A i \in DOMAIN p : \E j \in DOMAIN s : p[i] = s[j]
  BY <1>0, <1>2, <1>4
<1> QED
  BY <1>1, <1>2, <1>3, <1>5 DEF p

\* Where a line begins or ends with a word, so does what is left.
LEMMA TrimmedEnds ==
  ASSUME NEW T, NEW s \in Seq(T), s # <<>>
  PROVE  /\ s[1] \notin White \union {"BOM"} => Trimmed(s)[1] = s[1]
         /\ s[Len(s)] \notin White \union {"BOM"} => Trimmed(s)[Len(Trimmed(s))] = s[Len(s)]
<1> DEFINE Ends == White \union {"BOM"}
           t == Trimmed(s)
           IsPart(x, y) == /\ t = SubSeq(s, x, y)
                           /\ s[1] \notin Ends => x = 1 /\ y # 0
                           /\ s[Len(s)] \notin Ends => y = Len(s) /\ x # Len(s) + 1
<1>0. PICK N \in Nat : N = Len(s) /\ N # 0
  BY EmptySeq
<1>1a. PICK x \in 1 .. Len(s) + 1 : \E y \in x - 1 .. Len(s) : IsPart(x, y)
  BY TrimmedPart
<1>1. PICK y \in x - 1 .. Len(s) : IsPart(x, y)
  BY <1>1a
<1>2. /\ Len(t) = y - x + 1 /\ \A i \in 1 .. y - x + 1 : t[i] = s[x + i - 1]
  BY <1>1, PartOf
<1> HIDE DEF Ends, t
<1>3. ASSUME s[1] \notin Ends PROVE t[1] = s[1]
  <2>1. x = 1 /\ 1 \in 1 .. y - x + 1 /\ x + 1 - 1 = 1
    BY <1>0, <1>1, <1>3
  <2> QED
    BY <2>1, <1>2
<1>4. ASSUME s[Len(s)] \notin Ends PROVE t[Len(t)] = s[Len(s)]
  <2>1. y = N /\ x \in 1 .. N
    BY <1>0, <1>1, <1>4
  <2>2. PICK l \in Nat : l = y - x + 1 /\ l \in 1 .. l /\ x + l - 1 = N
    BY <2>1
  <2> QED
    BY <2>2, <1>0, <1>2
<1> QED
  BY <1>3, <1>4 DEF Ends, t

Good(s) == Bare(s) /\ Tidied(s)

LEMMA GoodNothing == Good(<<>>)
BY DEF Good, Bare, Tidied

LEMMA GoodPart ==
  ASSUME NEW T, NEW s \in Seq(T), Good(s),
         NEW x \in 1 .. Len(s) + 1, NEW y \in x - 1 .. Len(s)
  PROVE  /\ Trimmed(SubSeq(s, x, y)) \in Seq(T) /\ Good(Trimmed(SubSeq(s, x, y)))
<1> DEFINE p == SubSeq(s, x, y)
           Mark == "BOM"
<1>1. p \in Seq(T)
  BY PartOf
<1>2. \A i \in DOMAIN p : p[i] # Mark
  BY PartUnmarked DEF Good, Tidied
<1>3. Bare(p)
  BY BarePart DEF Good
<1> HIDE DEF p
<1>4. Unmarked(p)
  BY <1>2 DEF Unmarked, Signs
<1> QED
  BY <1>1, <1>3, <1>4, TrimmedIs, TrimmedBare DEF Good, p

LEMMA TextGood ==
  ASSUME NEW T, NEW raw \in Seq(T), Regular(raw)
  PROVE  Text(raw) \in Seq(T) /\ Good(Text(raw))
<1> DEFINE Hash == "#"
           Slash == "//"
           all == Signs(raw, Semicolon) \union Signs(raw, Hash) \union Slashes(raw)
           c == Before(raw, all)
<1>0. Len(raw) \in Nat /\ DOMAIN raw = 1 .. Len(raw)
  OBVIOUS
<1>1. all \in SUBSET DOMAIN raw
  BY DEF Signs, Slashes
<1>2. Text(raw) = Trimmed(c)
  BY DEF Text
<1>3. /\ \A i \in DOMAIN raw : raw[i] = Semicolon \/ raw[i] = Hash => i \in all
      /\ \A i \in DOMAIN raw : raw[i] = Space /\ i < Len(raw) /\ raw[i + 1] = Slash => i \in all
  BY DEF Signs, Slashes
<1> HIDE DEF all, Hash, Slash
<1>4. PICK m \in 0 .. Len(raw) : Cut(raw, all, m)
  BY <1>1, SomeCut
<1>5. c = SubSeq(raw, 1, m)
  BY <1>1, <1>4, CutBefore
<1>6. \A i \in all : m < i
  BY <1>4 DEF Cut
<1>7. c \in Seq(T) /\ DOMAIN c = 1 .. m /\ \A i \in 1 .. m : c[i] = raw[i]
  BY <1>5, PrefixParts
<1> HIDE DEF c
<1>8. \A i \in 1 .. m : i \in DOMAIN raw /\ i \notin all
  BY <1>0, <1>6
<1>9. ASSUME NEW i \in DOMAIN c PROVE c[i] # Semicolon /\ c[i] # Hash
  BY <1>3, <1>7, <1>8
<1>10. ASSUME NEW i \in DOMAIN c, c[i] = Space, i + 1 \in DOMAIN c PROVE c[i + 1] # Slash
  <2>1. i \in 1 .. m /\ i + 1 \in 1 .. m /\ i < Len(raw)
    BY <1>0, <1>7, <1>10
  <2> QED
    BY <2>1, <1>3, <1>7, <1>8, <1>10
<1>11. Bare(c)
  BY <1>9, <1>10 DEF Bare, Hash, Slash
<1>12. Bare(Trimmed(c))
  BY <1>7, <1>11, TrimmedBare
<1> QED
  BY <1>2, <1>12, TextRead DEF Good

\* What a section holds: a key and a value the parser can make out of a line that
\* is no section.
IsEntry(T, k, v) ==
  /\ k \in Seq(T) /\ Good(k) /\ Signs(k, "=") = {}
  /\ v \in Seq(T) /\ Good(v)
  /\ k # <<>> /\ v # <<>> => ~(k[1] = "[" /\ v[Len(v)] = "]")

LEMMA LineGood ==
  ASSUME NEW T, NEW text \in Seq(T), Good(text)
  PROVE  /\ IsSection(text) => Name(text) \in Seq(T) /\ Good(Name(text))
         /\ text # <<>> /\ ~IsSection(text) => IsEntry(T, Key(text), Value(text))
<1> DEFINE Open == "["
           Close == "]"
           Equal == "="
           Mark == "BOM"
           equals == Signs(text, Equal)
<1>0. PICK N \in Nat : N = Len(text) /\ DOMAIN text = 1 .. N
  OBVIOUS
<1>1. Open # Close
  BY Zenon
<1>2. IsSection(text) <=> text # <<>> /\ text[1] = Open /\ text[Len(text)] = Close
  BY DEF IsSection
<1>3. ASSUME IsSection(text) PROVE Name(text) \in Seq(T) /\ Good(Name(text))
  <2>1. N # 0 /\ N # 1
    BY <1>0, <1>1, <1>2, <1>3, EmptySeq
  <2>2. 2 \in 1 .. Len(text) + 1 /\ Len(text) - 1 \in 2 - 1 .. Len(text)
    BY <2>1, <1>0
  <2> QED
    BY <2>2, GoodPart DEF Name
<1>4. /\ \A i \in DOMAIN text : text[i] # Mark
      /\ text # <<>> => text[1] \notin White /\ text[Len(text)] \notin White
  BY DEF Good, Tidied
<1>5. text # <<>> => N # 0 /\ 1 \in 1 .. N /\ N \in 1 .. N
  <2>1. text # <<>> => N # 0
    BY <1>0, EmptySeq
  <2> QED
    BY <2>1
<1>6. equals \in SUBSET DOMAIN text /\ \A i \in DOMAIN text : text[i] = Equal <=> i \in equals
  BY DEF Signs
<1>7. Key(text) = Trimmed(Before(text, equals))
  BY DEF Key
<1>8. Value(text) = IF equals = {} THEN <<>> ELSE Trimmed(SubSeq(text, Min(equals) + 1, Len(text)))
  BY DEF Value
<1> HIDE DEF equals
<1>9. PICK m \in 0 .. Len(text) : Cut(text, equals, m)
  BY <1>6, SomeCut
<1>10. Before(text, equals) = SubSeq(text, 1, m)
  BY <1>6, <1>9, CutBefore
<1> DEFINE k == Trimmed(SubSeq(text, 1, m))
           v == Value(text)
           b == SubSeq(text, 1, m)
<1>11. k \in Seq(T) /\ Good(k)
  <2>1. 1 \in 1 .. Len(text) + 1 /\ m \in 1 - 1 .. Len(text)
    BY <1>0
  <2> QED
    BY <2>1, GoodPart
<1>12. b \in Seq(T) /\ Len(b) = m /\ DOMAIN b = 1 .. m /\ \A i \in 1 .. m : b[i] = text[i]
  BY PrefixParts
<1>13. \A i \in equals : m < i
  BY <1>9 DEF Cut
<1>14. Signs(k, Equal) = {}
  <2> HIDE DEF b
  <2>1. \A j \in DOMAIN b : b[j] # Equal
    BY <1>0, <1>6, <1>12, <1>13
  <2>2. \A i \in DOMAIN k : \E j \in DOMAIN b : k[i] = b[j]
    BY <1>12, TrimmedBare DEF b
  <2> HIDE DEF k, Equal
  <2>3. \A i \in DOMAIN k : k[i] # Equal
    BY <2>1, <2>2
  <2> QED
    BY <2>3 DEF Signs
<1>15. equals # {} => Min(equals) = m + 1 /\ m + 1 \in 1 .. N
  <2> SUFFICES ASSUME equals # {} PROVE Min(equals) = m + 1 /\ m + 1 \in 1 .. N
    OBVIOUS
  <2>1. equals \in SUBSET (1 .. N) /\ equals \in SUBSET Nat
    BY <1>0, <1>6
  <2>2. m + 1 \in equals
    <3>0. PICK i \in equals : m < i /\ i \in 1 .. N
      BY <2>1, <1>13
    <3>1. m # Len(text)
      BY <3>0, <1>0
    <3> QED
      BY <3>1, <1>9 DEF Cut
  <2>3. \A i \in equals : m + 1 <= i
    BY <2>1, <1>13, <1>0
  <2> QED
    BY <2>1, <2>2, <2>3, MinIs
<1> DEFINE c == SubSeq(text, m + 2, Len(text))
<1>16. equals # {} => v = Trimmed(c) /\ m + 2 \in 1 .. Len(text) + 1 /\ Len(text) \in m + 2 - 1 .. Len(text)
  <2>1. equals # {} => m + 1 + 1 = m + 2 /\ m + 2 \in 1 .. Len(text) + 1
                        /\ Len(text) \in m + 2 - 1 .. Len(text)
    BY <1>0, <1>15
  <2> QED
    BY <2>1, <1>8, <1>15
<1>17. v \in Seq(T) /\ Good(v)
  <2>1. CASE equals = {}
    BY <2>1, <1>8, GoodNothing
  <2>2. CASE equals # {}
    <3> DEFINE x == m + 2
    <3>1. x \in 1 .. Len(text) + 1 /\ Len(text) \in x - 1 .. Len(text)
          /\ v = Trimmed(SubSeq(text, x, Len(text)))
      BY <2>2, <1>16
    <3> HIDE DEF x, v
    <3> QED
      BY <3>1, GoodPart
  <2> QED
    BY <2>1, <2>2
<1>18. ASSUME text # <<>>, k # <<>>, v # <<>>, k[1] = Open, v[Len(v)] = Close
       PROVE  IsSection(text)
  <2>1. equals # {}
    BY <1>8, <1>18
  <2>2. b # <<>> /\ c # <<>>
    BY <1>16, <1>18, <2>1, NothingTrimmed
  <2>3. text[1] \notin White \union {Mark} /\ text[Len(text)] \notin White \union {Mark}
    BY <1>0, <1>4, <1>5, <1>18
  <2>4. k[1] = text[1]
    <3>1. m # 0
      BY <2>2, <1>12, EmptySeq
    <3>2. 1 \in 1 .. m
      BY <3>1, <1>0
    <3>3. b[1] = text[1]
      BY <3>2, <1>12
    <3> HIDE DEF b
    <3>4. Trimmed(b)[1] = b[1]
      BY <2>2, <2>3, <3>3, <1>12, TrimmedEnds
    <3> QED
      BY <3>3, <3>4 DEF b
  <2>5. v[Len(v)] = text[Len(text)]
    <3> DEFINE x == m + 2
    <3>1. x \in 1 .. Len(text) + 1 /\ Len(text) \in x - 1 .. Len(text) /\ v = Trimmed(c)
          /\ c = SubSeq(text, x, Len(text))
      BY <2>1, <1>16
    <3> HIDE DEF x, c, v
    <3>2. /\ c \in Seq(T) /\ Len(c) = Len(text) - x + 1
          /\ \A i \in 1 .. Len(text) - x + 1 : c[i] = text[x + i - 1]
      BY <3>1, PartOf
    <3>3. PICK l \in Nat : l = Len(text) - x + 1
      BY <3>1, <1>0
    <3>4. l # 0
      BY <3>2, <3>3, <2>2, EmptySeq
    <3>5. l \in 1 .. l /\ x + l - 1 = Len(text)
      BY <3>1, <3>3, <3>4, <1>0
    <3>6. c[Len(c)] = text[Len(text)]
      BY <3>2, <3>3, <3>5
    <3>7. Trimmed(c)[Len(Trimmed(c))] = c[Len(c)]
      BY <2>2, <2>3, <3>2, <3>6, TrimmedEnds
    <3> QED
      BY <3>1, <3>6, <3>7
  <2> QED
    BY <2>4, <2>5, <1>2, <1>18
<1>19. Key(text) = k
  BY <1>7, <1>10
<1> HIDE DEF k, v, Open, Close, Equal
<1>20. text # <<>> /\ ~IsSection(text) => IsEntry(T, k, v)
  BY <1>11, <1>14, <1>17, <1>18 DEF IsEntry, Open, Close, Equal
<1> QED
  BY <1>3, <1>19, <1>20 DEF v

-------------------------------------------------------------------------------
(***************************************************************************)
(* Lines as write_file writes them.                                        *)
(***************************************************************************)
\* No comment begins in it, and no mark is in it.
Pure(s) == Bare(s) /\ \A i \in DOMAIN s : s[i] # "BOM"

LEMMA PureText ==
  ASSUME NEW T, NEW line \in Seq(T), Pure(line)
  PROVE  Regular(line) /\ Text(line) = Trimmed(line) /\ (Tidied(line) => Text(line) = line)
<1> DEFINE Hash == "#"
           Slash == "//"
           Mark == "BOM"
           all == Signs(line, Semicolon) \union Signs(line, Hash) \union Slashes(line)
<1>0. Len(line) \in Nat /\ DOMAIN line = 1 .. Len(line)
  OBVIOUS
<1>1. /\ \A i \in DOMAIN line : line[i] # Semicolon /\ line[i] # Hash /\ line[i] # Mark
      /\ \A i \in DOMAIN line : line[i] = Space /\ i + 1 \in DOMAIN line => line[i + 1] # Slash
  BY DEF Pure, Bare
<1>2. Slashes(line) = {i \in DOMAIN line : line[i] = Space /\ i < Len(line) /\ line[i + 1] = Slash}
  BY DEF Slashes
<1> HIDE DEF Hash, Slash, Mark
<1>3. Slashes(line) = {}
  <2>1. \A i \in DOMAIN line : i < Len(line) => i + 1 \in DOMAIN line
    BY <1>0
  <2> QED
    BY <2>1, <1>1, <1>2
<1>4. Signs(line, Semicolon) = {} /\ Signs(line, Hash) = {} /\ Signs(line, Mark) = {}
  BY <1>1 DEF Signs
<1>5. Text(line) = Trimmed(Before(line, all))
  BY DEF Text, Hash
<1>6. Before(line, all) = line
  BY <1>3, <1>4 DEF Before
<1>7. Regular(line)
  BY <1>3, <1>4 DEF Regular, Mark
<1>8. Tidied(line) => Trimmed(line) = line
  BY <1>1, TrimSides DEF Mark
<1> QED
  BY <1>5, <1>6, <1>7, <1>8

LEMMA PureJoin ==
  ASSUME NEW T, NEW s \in Seq(T), NEW t \in Seq(T), Pure(s), Pure(t),
         s # <<>> /\ t # <<>> => ~(s[Len(s)] = Space /\ t[1] = "//")
  PROVE  Pure(s \o t)
<1> DEFINE Hash == "#"
           Slash == "//"
           Mark == "BOM"
           u == s \o t
<1>0. PICK m \in Nat, n1 \in Nat : m = Len(s) /\ n1 = Len(t) /\ DOMAIN s = 1 .. m /\ DOMAIN t = 1 .. n1
  OBVIOUS
<1>1. /\ u \in Seq(T) /\ DOMAIN u = 1 .. m + n1
      /\ \A i \in 1 .. m + n1 : u[i] = IF i <= m THEN s[i] ELSE t[i - m]
  BY <1>0, ConcatProperties
<1>2. /\ \A i \in DOMAIN s : s[i] # Semicolon /\ s[i] # Hash /\ s[i] # Mark
      /\ \A i \in DOMAIN s : s[i] = Space /\ i + 1 \in DOMAIN s => s[i + 1] # Slash
  BY DEF Pure, Bare
<1>3. /\ \A i \in DOMAIN t : t[i] # Semicolon /\ t[i] # Hash /\ t[i] # Mark
      /\ \A i \in DOMAIN t : t[i] = Space /\ i + 1 \in DOMAIN t => t[i + 1] # Slash
  BY DEF Pure, Bare
<1>4. m # 0 /\ n1 # 0 => ~(s[m] = Space /\ t[1] = Slash)
  BY <1>0, EmptySeq
<1> HIDE DEF u, Hash, Slash, Mark
<1>5. \A i \in 1 .. m + n1 : i \in 1 .. m \/ (i - m \in 1 .. n1 /\ ~(i <= m))
  BY <1>0
<1>6. \A i \in DOMAIN u : u[i] # Semicolon /\ u[i] # Hash /\ u[i] # Mark
  <2>1. \A i \in 1 .. m : i <= m
    BY <1>0
  <2> QED
    BY <2>1, <1>0, <1>1, <1>2, <1>3, <1>5
<1>7. ASSUME NEW i \in DOMAIN u, u[i] = Space, i + 1 \in DOMAIN u PROVE u[i + 1] # Slash
  <2>1. i \in 1 .. m + n1 /\ i + 1 \in 1 .. m + n1
    BY <1>1, <1>7
  <2>2. CASE i + 1 <= m
    <3>1. i \in DOMAIN s /\ i + 1 \in DOMAIN s /\ i <= m
      BY <2>1, <2>2, <1>0
    <3>2. u[i] = s[i] /\ u[i + 1] = s[i + 1]
      BY <2>1, <2>2, <3>1, <1>1
    <3> QED
      BY <3>1, <3>2, <1>2, <1>7
  <2>3. CASE i = m
    <3>1. i <= m /\ ~(i + 1 <= m) /\ i + 1 - m = 1 /\ m # 0 /\ n1 # 0
      BY <2>1, <2>3, <1>0
    <3>2. u[i] = s[m] /\ u[i + 1] = t[1]
      BY <2>1, <2>3, <3>1, <1>1
    <3> QED
      BY <3>1, <3>2, <1>4, <1>7
  <2>4. CASE i > m
    <3> DEFINE j == i - m
    <3>1. j \in DOMAIN t /\ j + 1 \in DOMAIN t /\ i + 1 - m = j + 1 /\ ~(i <= m) /\ ~(i + 1 <= m)
      BY <2>1, <2>4, <1>0
    <3>2. u[i] = t[j] /\ u[i + 1] = t[j + 1]
      BY <2>1, <3>1, <1>1
    <3> HIDE DEF j
    <3> QED
      BY <3>1, <3>2, <1>3, <1>7
  <2> QED
    BY <2>1, <2>2, <2>3, <2>4, <1>0
<1> QED
  BY <1>6, <1>7 DEF Pure, Bare, Hash, Slash, Mark, u

\* A section is read back as the one it was written for.
LEMMA ReadHeading ==
  ASSUME NEW T, "[" \in T, "]" \in T, NEW s \in Seq(T), Good(s), NEW st
  PROVE  /\ <<"[">> \o s \o <<"]">> \in Seq(T)
         /\ ReadLine(st, <<"[">> \o s \o <<"]">>) = Section(st, s)
<1> DEFINE Open == "["
           Close == "]"
           Slash == "//"
           Mark == "BOM"
           Hash == "#"
           a == <<Open>>
           c == <<Close>>
           u == a \o s
           line == u \o c
<1>0. /\ Open \in T /\ Close \in T
      /\ \A x \in {Open, Close} : x \notin White \union {Semicolon, Hash, Mark, Slash}
      /\ Space \in White /\ Space # Slash
  <2>1. Open \in T /\ Close \in T
    OBVIOUS
  <2>2. "BOM" # "]" /\ "//" # "[" /\ "//" # "]" /\ "//" # " "
    BY Zenon
  <2> QED
    BY <2>1, <2>2, SignsDiffer DEF Space
<1>1. PICK n1 \in Nat : n1 = Len(s) /\ DOMAIN s = 1 .. n1
  OBVIOUS
<1> HIDE DEF Open, Close, Slash, Mark, Hash
<1>2. /\ a \in Seq(T) /\ Len(a) = 1 /\ DOMAIN a = 1 .. 1 /\ a[1] = Open
      /\ c \in Seq(T) /\ Len(c) = 1 /\ DOMAIN c = 1 .. 1 /\ c[1] = Close
  BY <1>0
<1>3. Pure(a) /\ Pure(c) /\ Pure(s)
  <2>1. Pure(s)
    BY DEF Good, Tidied, Pure
  <2> HIDE DEF a, c
  <2>2. \A i \in 1 .. 1 : i = 1 /\ i + 1 \notin 1 .. 1
    OBVIOUS
  <2> QED
    BY <2>1, <2>2, <1>0, <1>2 DEF Pure, Bare, Slash, Mark, Hash
<1> HIDE DEF a, c
<1>4. Pure(u)
  <2>1. ~(a[Len(a)] = Space /\ s[1] = Slash)
    BY <1>0, <1>2
  <2> QED
    BY <2>1, <1>2, <1>3, PureJoin DEF Slash
<1>5. u \in Seq(T) /\ Len(u) = n1 + 1 /\ \A i \in 1 .. n1 + 1 : u[i] = IF i <= 1 THEN Open ELSE s[i - 1]
  <2>1. u \in Seq(T) /\ Len(u) = 1 + n1
        /\ \A i \in 1 .. 1 + n1 : u[i] = IF i <= 1 THEN a[i] ELSE s[i - 1]
    <3>1. /\ u \in Seq(T) /\ Len(u) = Len(a) + Len(s)
          /\ \A i \in 1 .. Len(a) + Len(s) : u[i] = IF i <= Len(a) THEN a[i] ELSE s[i - Len(a)]
      BY <1>2, ConcatProperties
    <3> QED
      BY <3>1, <1>1, <1>2
  <2> HIDE DEF u
  <2>2. \A i \in 1 .. n1 + 1 : i \in 1 .. 1 + n1 /\ (i <= 1 => i = 1)
    OBVIOUS
  <2> QED
    BY <2>1, <2>2, <1>1, <1>2
<1> HIDE DEF u
<1>6. Pure(line)
  <2>1. ~(u[Len(u)] = Space /\ c[1] = Slash)
    BY <1>0, <1>2
  <2> QED
    BY <2>1, <1>2, <1>3, <1>4, <1>5, PureJoin DEF Slash
<1>7. /\ line \in Seq(T) /\ Len(line) = n1 + 2
      /\ \A i \in 1 .. n1 + 2 : line[i] = IF i <= n1 + 1 THEN u[i] ELSE c[i - (n1 + 1)]
  <2>1. line \in Seq(T) /\ Len(line) = (n1 + 1) + 1
        /\ \A i \in 1 .. (n1 + 1) + 1 : line[i] = IF i <= n1 + 1 THEN u[i] ELSE c[i - (n1 + 1)]
    <3>1. /\ line \in Seq(T) /\ Len(line) = Len(u) + Len(c)
          /\ \A i \in 1 .. Len(u) + Len(c) : line[i] = IF i <= Len(u) THEN u[i] ELSE c[i - Len(u)]
      BY <1>2, <1>5, ConcatProperties
    <3> HIDE DEF line
    <3> QED
      BY <3>1, <1>2, <1>5
  <2> QED
    BY <2>1, <1>1
<1> HIDE DEF line
<1>8. line[1] = Open /\ line[n1 + 2] = Close /\ \A i \in 1 .. n1 : line[i + 1] = s[i]
  <2>1. line[1] = Open
    <3>1. 1 \in 1 .. n1 + 2 /\ 1 \in 1 .. n1 + 1 /\ 1 <= n1 + 1 /\ 1 <= 1
      BY <1>1
    <3> QED
      BY <3>1, <1>5, <1>7
  <2>2. line[n1 + 2] = Close
    <3>1. n1 + 2 \in 1 .. n1 + 2 /\ ~(n1 + 2 <= n1 + 1) /\ n1 + 2 - (n1 + 1) = 1
      BY <1>1
    <3> QED
      BY <3>1, <1>2, <1>7
  <2>3. ASSUME NEW i \in 1 .. n1 PROVE line[i + 1] = s[i]
    <3>1. i + 1 \in 1 .. n1 + 2 /\ i + 1 \in 1 .. n1 + 1 /\ i + 1 <= n1 + 1 /\ ~(i + 1 <= 1) /\ i + 1 - 1 = i
      BY <1>1
    <3> QED
      BY <3>1, <1>5, <1>7
  <2> QED
    BY <2>1, <2>2, <2>3
<1>9. line # <<>>
  BY <1>1, <1>7, EmptySeq
<1>10. Tidied(line)
  <2>1. \A i \in DOMAIN line : line[i] # Mark
    BY <1>6 DEF Pure, Mark
  <2>2. line[1] \notin White /\ line[Len(line)] \notin White
    BY <1>0, <1>7, <1>8
  <2> QED
    BY <2>1, <2>2 DEF Tidied, Mark
<1>11. Regular(line) /\ Text(line) = line
  BY <1>6, <1>7, <1>10, PureText
<1>12. IsSection(line)
  BY <1>7, <1>8, <1>9 DEF IsSection, Open, Close
<1>13. SubSeq(line, 2, Len(line) - 1) = s
  <2> DEFINE p == SubSeq(line, 2, n1 + 1)
  <2>1. 2 \in 1 .. Len(line) + 1 /\ n1 + 1 \in 2 - 1 .. Len(line) /\ n1 + 1 - 2 + 1 = n1
        /\ Len(line) - 1 = n1 + 1
    BY <1>1, <1>7
  <2>2. p \in Seq(T) /\ Len(p) = n1 /\ \A i \in 1 .. n1 : p[i] = line[2 + i - 1]
    BY <2>1, <1>7, PartOf
  <2>3. \A i \in 1 .. n1 : 2 + i - 1 = i + 1
    OBVIOUS
  <2> HIDE DEF p
  <2>4. \A i \in 1 .. n1 : p[i] = s[i]
    BY <2>2, <2>3, <1>8
  <2>5. p = s
    BY <2>2, <2>4, <1>1, SeqEqual
  <2> QED
    BY <2>1, <2>5 DEF p
<1>14. Name(line) = s
  <2>1. Trimmed(s) = s
    <3>1. \A i \in DOMAIN s : s[i] # "BOM"
      BY DEF Good, Tidied
    <3> QED
      BY <3>1, TrimSides DEF Good
  <2> QED
    BY <2>1, <1>13 DEF Name
<1>15. ReadLine(st, line) = Section(st, s)
  BY <1>7, <1>11, <1>12, <1>14, LineRead
<1> QED
  BY <1>7, <1>15 DEF line, u, a, c, Open, Close

\* A line that puts k and v on either side of the equals sign at p + 1 says just that.
IsSplit(text, k, p, v) ==
  /\ p \in Len(k) .. Len(k) + 1 /\ Len(text) = p + 2 + Len(v)
  /\ \A i \in 1 .. Len(k) : text[i] = k[i]
  /\ \A i \in Len(k) + 1 .. p : text[i] = Space
  /\ text[p + 1] = "=" /\ text[p + 2] = Space
  /\ \A i \in 1 .. Len(v) : text[p + 2 + i] = v[i]

LEMMA SplitText ==
  ASSUME NEW T, NEW text \in Seq(T), NEW k \in Seq(T), NEW v \in Seq(T),
         Tidied(k), Tidied(v), v # <<>>, Signs(k, "=") = {},
         NEW p, IsSplit(text, k, p, v)
  PROVE  Key(text) = k /\ Value(text) = v
<1> DEFINE Equal == "="
           Mark == "BOM"
           equals == Signs(text, Equal)
           b == SubSeq(text, 1, p)
           x == p + 2
           c == SubSeq(text, x, Len(text))
<1>a. /\ p \in Len(k) .. Len(k) + 1 /\ Len(text) = p + 2 + Len(v)
      /\ \A i \in 1 .. Len(k) : text[i] = k[i]
      /\ \A i \in Len(k) + 1 .. p : text[i] = Space
      /\ text[p + 1] = Equal /\ text[p + 2] = Space
      /\ \A i \in 1 .. Len(v) : text[p + 2 + i] = v[i]
  BY DEF IsSplit
<1> USE <1>a
<1>0. PICK a \in Nat, n1 \in Nat : a = Len(k) /\ n1 = Len(v) /\ DOMAIN k = 1 .. a /\ DOMAIN v = 1 .. n1
  OBVIOUS
<1>1. Len(text) \in Nat /\ DOMAIN text = 1 .. Len(text) /\ p \in Nat /\ n1 # 0
      /\ p \in 0 .. Len(text) /\ p + 1 \in 1 .. Len(text) /\ a <= p
  <2>1. n1 # 0
    BY <1>0, EmptySeq
  <2> QED
    BY <2>1, <1>0
<1>2. Space \in White /\ Space # Equal /\ text[p + 1] = Equal /\ text[x] = Space
  BY SignsDiffer
<1>3. \A i \in 1 .. a : k[i] # Equal /\ k[i] # Mark
  BY <1>0 DEF Signs, Tidied
<1>4. \A i \in 1 .. n1 : v[i] # Mark
  BY <1>0 DEF Tidied
<1>5. \A i \in equals : p < i
  <2> SUFFICES ASSUME NEW i \in equals, i <= p PROVE FALSE
    BY <1>1 DEF Signs
  <2>1. i \in 1 .. a \/ i \in a + 1 .. p
    BY <1>0, <1>1 DEF Signs
  <2>2. text[i] = Equal
    BY DEF Signs
  <2> HIDE DEF Equal
  <2> QED
    BY <2>1, <2>2, <1>0, <1>2, <1>3
<1>6. p + 1 \in equals /\ equals \in SUBSET DOMAIN text
  BY <1>1, <1>2 DEF Signs
<1> HIDE DEF equals
<1>7. Before(text, equals) = b
  <2>1. Cut(text, equals, p)
    BY <1>1, <1>5, <1>6 DEF Cut
  <2> QED
    BY <2>1, <1>6, CutBefore
<1>8. Min(equals) = p + 1
  <2>1. equals \in SUBSET Nat
    BY <1>1, <1>6
  <2>2. \A i \in equals : p + 1 <= i
    BY <2>1, <1>1, <1>5
  <2> QED
    BY <2>1, <2>2, <1>6, MinIs
<1>9. b \in Seq(T) /\ Len(b) = p /\ \A i \in 1 .. p : b[i] = text[i]
  BY <1>1, PrefixParts
<1>10. c \in Seq(T) /\ Len(c) = n1 + 1 /\ \A i \in 1 .. n1 + 1 : c[i] = text[x + i - 1]
  <2>1. x \in 1 .. Len(text) + 1 /\ Len(text) \in x - 1 .. Len(text) /\ Len(text) - x + 1 = n1 + 1
    BY <1>0, <1>1
  <2> HIDE DEF x
  <2>2. /\ c \in Seq(T) /\ Len(c) = Len(text) - x + 1
        /\ \A i \in 1 .. Len(text) - x + 1 : c[i] = text[x + i - 1]
    BY <2>1, PartOf
  <2> HIDE DEF c
  <2> QED
    BY <2>1, <2>2
<1> HIDE DEF b, c, Mark
<1>11. Trimmed(b) = k
  <2>1. CASE a = 0
    <3>1. \A i \in 1 .. p : i \in Len(k) + 1 .. p
      BY <2>1, <1>0, <1>1
    <3>2. \A i \in 1 .. Len(b) : b[i] \in White
      BY <3>1, <1>2, <1>9
    <3>3. Trimmed(b) = <<>>
      BY <3>2, <1>9, TrimmedBlank
    <3>4. k = <<>>
      BY <2>1, <1>0, EmptySeq
    <3> QED
      BY <3>3, <3>4
  <2>2. CASE a # 0
    <3>0. k # <<>>
      BY <2>2, <1>0
    <3>1. 1 \in 1 .. Len(b) /\ a \in 1 .. Len(b) /\ 1 \in 1 .. a /\ a \in 1 .. a /\ 1 \in 1 .. p /\ a \in 1 .. p
      BY <2>2, <1>0, <1>1, <1>9
    <3>2. b[1] = k[1] /\ b[a] = k[a]
      BY <3>1, <1>0, <1>9
    <3>3. b[1] \notin White \union {"BOM"} /\ b[a] \notin White \union {"BOM"}
      BY <3>0, <3>1, <3>2, <1>0, <1>3 DEF Tidied, Mark
    <3>4. ASSUME NEW i \in 1 .. Len(b), i < 1 \/ i > a PROVE b[i] \in White
      <4>1. i \in Len(k) + 1 .. p /\ i \in 1 .. p
        BY <3>4, <1>0, <1>1, <1>9
      <4> QED
        BY <4>1, <1>2, <1>9
    <3>5. Trimmed(b) = SubSeq(b, 1, a)
      <4> DEFINE w == 1
      <4>1. w \in 1 .. Len(b) /\ a \in w .. Len(b) /\ b[w] \notin White \union {"BOM"}
            /\ b[a] \notin White \union {"BOM"} /\ b \in Seq(T)
            /\ \A i \in 1 .. Len(b) : i < w \/ i > a => b[i] \in White
        BY <3>1, <3>3, <3>4, <1>9
      <4> HIDE DEF w
      <4>2. Trimmed(b) = SubSeq(b, w, a)
        BY <4>1, TrimmedTo
      <4> QED
        BY <4>2 DEF w
    <3> DEFINE q == SubSeq(b, 1, a)
    <3>6. q \in Seq(T) /\ Len(q) = a /\ \A i \in 1 .. a : q[i] = b[i]
      <4>1. a \in 0 .. Len(b)
        BY <1>0, <1>1, <1>9
      <4> QED
        BY <4>1, <1>9, PrefixParts
    <3> HIDE DEF q
    <3>7. \A i \in 1 .. a : q[i] = k[i]
      <4>1. \A i \in 1 .. a : i \in 1 .. p
        BY <1>0, <1>1
      <4> QED
        BY <4>1, <3>6, <1>0, <1>9
    <3>8. q = k
      BY <3>6, <3>7, <1>0, SeqEqual
    <3> QED
      BY <3>5, <3>8 DEF q
  <2> QED
    BY <2>1, <2>2
<1>12. Trimmed(c) = v
  <2>1. c[1] = Space /\ \A i \in 1 .. n1 : c[i + 1] = v[i]
    <3>1. 1 \in 1 .. n1 + 1 /\ x + 1 - 1 = x
      BY <1>1
    <3>2. \A i \in 1 .. n1 : i + 1 \in 1 .. n1 + 1 /\ x + (i + 1) - 1 = p + 2 + i
      BY <1>0, <1>1
    <3> QED
      BY <3>1, <3>2, <1>0, <1>2, <1>10
  <2>2. 1 \in 1 .. n1 /\ n1 \in 1 .. n1 /\ 2 \in 1 .. Len(c) /\ n1 + 1 \in 2 .. Len(c) /\ 1 + 1 = 2
    BY <1>0, <1>1, <1>10
  <2>3. c[2] = v[1] /\ c[n1 + 1] = v[n1]
    BY <2>1, <2>2
  <2>4. c[2] \notin White \union {"BOM"} /\ c[n1 + 1] \notin White \union {"BOM"}
    BY <2>2, <2>3, <1>0, <1>4 DEF Tidied, Mark
  <2>5. ASSUME NEW i \in 1 .. Len(c), i < 2 \/ i > n1 + 1 PROVE c[i] \in White
    <3>1. i = 1
      BY <2>5, <1>0, <1>10
    <3> QED
      BY <3>1, <2>1, <1>2
  <2>6. Trimmed(c) = SubSeq(c, 2, n1 + 1)
    <3> DEFINE y == n1 + 1
    <3>1. y \in 2 .. Len(c) /\ 2 \in 1 .. Len(c) /\ c[y] \notin White \union {"BOM"}
          /\ \A i \in 1 .. Len(c) : i < 2 \/ i > y => c[i] \in White
      BY <2>2, <2>4, <2>5
    <3> HIDE DEF y
    <3>2. Trimmed(c) = SubSeq(c, 2, y)
      BY <3>1, <2>4, <1>10, TrimmedTo
    <3> QED
      BY <3>2 DEF y
  <2> DEFINE q == SubSeq(c, 2, n1 + 1)
  <2>7. q \in Seq(T) /\ Len(q) = n1 /\ \A i \in 1 .. n1 : q[i] = c[2 + i - 1]
    <3>1. 2 \in 1 .. Len(c) + 1 /\ n1 + 1 \in 2 - 1 .. Len(c) /\ n1 + 1 - 2 + 1 = n1
      BY <1>0, <1>1, <1>10
    <3> QED
      BY <3>1, <1>10, PartOf
  <2> HIDE DEF q
  <2>8. \A i \in 1 .. n1 : q[i] = v[i]
    <3>1. \A i \in 1 .. n1 : 2 + i - 1 = i + 1
      OBVIOUS
    <3> QED
      BY <3>1, <2>1, <2>7
  <2>9. q = v
    BY <2>7, <2>8, <1>0, SeqEqual
  <2> QED
    BY <2>6, <2>9 DEF q
<1>13. Key(text) = Trimmed(b)
  BY <1>7 DEF Key, equals
<1>14. Value(text) = Trimmed(c)
  <2>1. Value(text) = IF equals = {} THEN <<>> ELSE Trimmed(SubSeq(text, Min(equals) + 1, Len(text)))
    BY DEF Value, equals
  <2>2. Min(equals) + 1 = x
    BY <1>1, <1>8
  <2> QED
    BY <2>1, <2>2, <1>6 DEF c
<1> QED
  BY <1>11, <1>12, <1>13, <1>14

\* An entry is read back as the one it was written for.
LEMMA ReadKeyLine ==
  ASSUME NEW T, "=" \in T, Space \in T, NEW k, NEW v, IsEntry(T, k, v), CanHold(k, v), NEW st
  PROVE  /\ KeyLine(k, v) \in Seq(T)
         /\ ReadLine(st, KeyLine(k, v)) = Enter(st, k, v)
<1> DEFINE Equal == "="
           Open == "["
           Close == "]"
           Slash == "//"
           Mark == "BOM"
           Hash == "#"
<1>0. PICK a \in Nat, n1 \in Nat : a = Len(k) /\ n1 = Len(v) /\ DOMAIN k = 1 .. a /\ DOMAIN v = 1 .. n1
  BY DEF IsEntry
<1>1. /\ k \in Seq(T) /\ Pure(k) /\ Tidied(k) /\ Signs(k, Equal) = {}
      /\ v \in Seq(T) /\ Pure(v) /\ Tidied(v)
  BY DEF IsEntry, Good, Tidied, Pure
<1>2. /\ Equal \in T /\ Space \in T /\ Equal \notin White \union {Semicolon, Hash, Mark, Slash, Open}
      /\ Space \in White /\ Space \notin {Semicolon, Hash, Mark, Slash}
  <2>1. "=" # "//" /\ "=" # "[" /\ "//" # " "
    BY Zenon
  <2> QED
    BY <2>1, SignsDiffer DEF Space
<1>3. CASE v = <<>>
  <2>1. KeyLine(k, v) = k /\ k # <<>> /\ ~IsSection(k)
    BY <1>3 DEF KeyLine, CanHold
  <2>2. Regular(k) /\ Text(k) = k
    BY <1>1, PureText
  <2>3. ReadLine(st, k) = Enter(st, Key(k), Value(k))
    BY <1>1, <2>1, <2>2, LineRead
  <2>4. Key(k) = k
    <3>1. Trimmed(k) = k
      BY <1>1, TrimSides DEF Pure
    <3> QED
      BY <3>1, <1>1 DEF Key, Before
  <2>5. Value(k) = <<>>
    BY <1>1 DEF Value
  <2> QED
    BY <2>1, <2>3, <2>4, <2>5, <1>1, <1>3
<1>4. CASE v # <<>>
  <2> DEFINE m == <<Space, Equal, Space>>
             u == k \o m
             line == u \o v
  <2>0. KeyLine(k, v) = line /\ v[1] # Slash /\ n1 # 0
    <3>1. n1 # 0
      BY <1>0, <1>1, <1>4, EmptySeq
    <3> QED
      BY <3>1, <1>4 DEF KeyLine, CanHold
  <2> HIDE DEF Equal, Open, Close, Slash, Mark, Hash
  <2>1. /\ m \in Seq(T) /\ Len(m) = 3 /\ DOMAIN m = 1 .. 3
        /\ m[1] = Space /\ m[2] = Equal /\ m[3] = Space
    BY <1>2
  <2> HIDE DEF m
  <2>2. Pure(m)
    <3>1. \A i \in 1 .. 3 : i = 1 \/ i = 2 \/ i = 3
      OBVIOUS
    <3>2. \A i \in 1 .. 3 : m[i] \in {Space, Equal}
      BY <3>1, <2>1
    <3>3. ASSUME NEW i \in 1 .. 3, m[i] = Space, i + 1 \in 1 .. 3 PROVE m[i + 1] # Slash
      BY <3>2, <3>3, <1>2
    <3> QED
      BY <3>2, <3>3, <2>1, <1>2 DEF Pure, Bare, Slash, Mark, Hash
  <2>3. Pure(u)
    <3>1. ~(k[Len(k)] = Space /\ m[1] = Slash)
      BY <1>2, <2>1
    <3> QED
      BY <3>1, <1>1, <2>1, <2>2, PureJoin DEF Slash
  <2>4. /\ u \in Seq(T) /\ Len(u) = a + 3
        /\ \A i \in 1 .. a : u[i] = k[i]
        /\ u[a + 1] = Space /\ u[a + 2] = Equal /\ u[a + 3] = Space
    <3>1. /\ u \in Seq(T) /\ Len(u) = Len(k) + Len(m)
          /\ \A i \in 1 .. Len(k) + Len(m) : u[i] = IF i <= Len(k) THEN k[i] ELSE m[i - Len(k)]
      BY <1>1, <2>1, ConcatProperties
    <3> HIDE DEF u
    <3>2. \A i \in 1 .. a + 3 : u[i] = IF i <= a THEN k[i] ELSE m[i - a]
      BY <3>1, <1>0, <2>1
    <3>3. Len(u) = a + 3
      BY <3>1, <1>0, <2>1
    <3>4. \A i \in 1 .. a : i \in 1 .. a + 3 /\ i <= a
      BY <1>0
    <3>5. /\ a + 1 \in 1 .. a + 3 /\ a + 2 \in 1 .. a + 3 /\ a + 3 \in 1 .. a + 3
          /\ ~(a + 1 <= a) /\ ~(a + 2 <= a) /\ ~(a + 3 <= a)
          /\ a + 1 - a = 1 /\ a + 2 - a = 2 /\ a + 3 - a = 3
      BY <1>0
    <3>6. \A i \in 1 .. a : u[i] = k[i]
      BY <3>2, <3>4
    <3>7. u[a + 1] = m[1] /\ u[a + 2] = m[2] /\ u[a + 3] = m[3]
      BY <3>2, <3>5
    <3> QED
      BY <3>1, <3>3, <3>6, <3>7, <2>1
  <2> HIDE DEF u
  <2>5. Pure(line)
    <3>1. ~(u[Len(u)] = Space /\ v[1] = Slash)
      BY <2>0
    <3> QED
      BY <3>1, <1>1, <2>3, <2>4, PureJoin DEF Slash
  <2>6. /\ line \in Seq(T) /\ Len(line) = a + 3 + n1
        /\ \A i \in 1 .. a : line[i] = k[i]
        /\ line[a + 1] = Space /\ line[a + 2] = Equal /\ line[a + 3] = Space
        /\ \A i \in 1 .. n1 : line[a + 3 + i] = v[i]
    <3>1. /\ line \in Seq(T) /\ Len(line) = Len(u) + Len(v)
          /\ \A i \in 1 .. Len(u) + Len(v) : line[i] = IF i <= Len(u) THEN u[i] ELSE v[i - Len(u)]
      BY <1>1, <2>4, ConcatProperties
    <3> HIDE DEF line
    <3>2. \A i \in 1 .. a + 3 + n1 : line[i] = IF i <= a + 3 THEN u[i] ELSE v[i - (a + 3)]
      BY <3>1, <1>0, <2>4
    <3>3. Len(line) = a + 3 + n1
      BY <3>1, <1>0, <2>4
    <3>4. \A i \in 1 .. a + 3 : i \in 1 .. a + 3 + n1 /\ i <= a + 3
      BY <1>0
    <3>5. \A i \in 1 .. a + 3 : line[i] = u[i]
      BY <3>2, <3>4
    <3>6. /\ a + 1 \in 1 .. a + 3 /\ a + 2 \in 1 .. a + 3 /\ a + 3 \in 1 .. a + 3
          /\ \A i \in 1 .. a : i \in 1 .. a + 3
      BY <1>0
    <3>7. \A i \in 1 .. n1 : a + 3 + i \in 1 .. a + 3 + n1 /\ ~(a + 3 + i <= a + 3)
                              /\ a + 3 + i - (a + 3) = i
      BY <1>0
    <3>8. \A i \in 1 .. n1 : line[a + 3 + i] = v[i]
      BY <3>2, <3>7
    <3>9. line[a + 1] = u[a + 1] /\ line[a + 2] = u[a + 2] /\ line[a + 3] = u[a + 3]
          /\ \A i \in 1 .. a : line[i] = u[i]
      BY <3>5, <3>6
    <3> QED
      BY <3>1, <3>3, <3>8, <3>9, <2>4
  <2> HIDE DEF line
  <2>7. Regular(line) /\ Text(line) = Trimmed(line)
    BY <2>5, <2>6, PureText
  <2>8. v[n1] \notin White /\ v[n1] # Mark /\ n1 \in 1 .. n1
    BY <2>0, <1>0, <1>1, <1>4 DEF Tidied, Mark
  <2>9. CASE k # <<>>
    <3>1. a # 0 /\ 1 \in 1 .. a
      <4>1. a # 0
        BY <1>0, <1>1, <2>9, EmptySeq
      <4> QED
        BY <4>1
    <3>2. line[1] = k[1] /\ line[Len(line)] = v[Len(v)]
      BY <2>6, <2>8, <3>1, <1>0
    <3>3. line # <<>>
      BY <2>6, <1>0, <3>1, EmptySeq
    <3>4. Tidied(line)
      <4>1. \A i \in DOMAIN line : line[i] # "BOM"
        BY <2>5 DEF Pure
      <4>2. k[1] \notin White
        BY <2>9, <1>1 DEF Tidied
      <4>3. line[1] \notin White /\ line[Len(line)] \notin White
        BY <4>2, <3>2, <2>8, <1>0
      <4> QED
        BY <4>1, <4>3 DEF Tidied
    <3>5. Text(line) = line
      BY <2>5, <2>6, <3>4, PureText
    <3>6. ~IsSection(line)
      <4>1. ~(k[1] = Open /\ v[Len(v)] = Close)
        BY <2>9, <1>4 DEF IsEntry, Open, Close
      <4> QED
        BY <4>1, <3>2 DEF IsSection, Open, Close
    <3>7. ReadLine(st, line) = Enter(st, Key(line), Value(line))
      BY <2>6, <2>7, <3>3, <3>5, <3>6, LineRead
    <3>8. Key(line) = k /\ Value(line) = v
      <4> DEFINE p == a + 1
      <4>1. p \in Len(k) .. Len(k) + 1 /\ Len(line) = p + 2 + Len(v)
        BY <2>6, <1>0
      <4>2. \A i \in Len(k) + 1 .. p : line[i] = Space
        <5>1. \A i \in Len(k) + 1 .. p : i = a + 1
          BY <1>0
        <5> QED
          BY <5>1, <2>6
      <4>3. line[p + 1] = Equal /\ line[p + 2] = Space
        <5>1. p + 1 = a + 2 /\ p + 2 = a + 3
          BY <1>0
        <5> QED
          BY <5>1, <2>6
      <4>4. \A i \in 1 .. Len(v) : line[p + 2 + i] = v[i]
        <5>1. \A i \in 1 .. Len(v) : i \in 1 .. n1 /\ p + 2 + i = a + 3 + i
          BY <1>0
        <5> QED
          BY <5>1, <2>6
      <4>5. \A i \in 1 .. Len(k) : line[i] = k[i]
        BY <2>6, <1>0
      <4>6. /\ k \in Seq(T) /\ v \in Seq(T) /\ line \in Seq(T)
            /\ Tidied(k) /\ Tidied(v) /\ Signs(k, "=") = {} /\ line[p + 1] = "="
        BY <4>3, <2>6, <1>1 DEF Equal
      <4> HIDE DEF p
      <4>7. IsSplit(line, k, p, v)
        BY <4>1, <4>2, <4>3, <4>4, <4>5, <4>6 DEF IsSplit
      <4> QED
        BY <4>6, <4>7, <1>4, SplitText
    <3> QED
      BY <3>7, <3>8, <2>0, <2>6
  <2>10. CASE k = <<>>
    <3>0. a = 0 /\ 0 + 1 = 1 /\ 0 + 2 = 2 /\ 0 + 3 = 3
      BY <2>10, <1>0
    <3>1. /\ Len(line) = n1 + 3 /\ line[1] = Space /\ line[2] = Equal /\ line[3] = Space
          /\ \A i \in 1 .. n1 : line[i + 3] = v[i]
      <4>1. a + 1 = 1 /\ a + 2 = 2 /\ a + 3 = 3 /\ a + 3 + n1 = n1 + 3
            /\ \A i \in 1 .. n1 : a + 3 + i = i + 3
        BY <3>0
      <4> QED
        BY <4>1, <2>6
    <3> DEFINE y == n1 + 3
               text == SubSeq(line, 2, y)
    <3>2. 2 \in 1 .. Len(line) /\ y \in 2 .. Len(line) /\ y \in 2 - 1 .. Len(line) /\ 2 \in 1 .. Len(line) + 1
          /\ y - 2 + 1 = n1 + 2
      BY <3>1
    <3>3. line[y] = v[n1]
      BY <2>8, <3>1
    <3>4. \A i \in 1 .. Len(line) : i < 2 \/ i > y => line[i] \in White
      <4>1. \A i \in 1 .. Len(line) : i < 2 \/ i > y => i = 1
        BY <3>1
      <4> QED
        BY <4>1, <3>1, <1>2
    <3>5. line[2] \notin White \union {"BOM"} /\ line[y] \notin White \union {"BOM"}
      BY <3>1, <3>3, <2>8, <1>2 DEF Mark
    <3> HIDE DEF y
    <3>6. Trimmed(line) = text
      BY <3>2, <3>4, <3>5, <2>6, TrimmedTo
    <3>7. text \in Seq(T) /\ Len(text) = n1 + 2 /\ \A i \in 1 .. n1 + 2 : text[i] = line[2 + i - 1]
      BY <3>2, <2>6, PartOf
    <3> HIDE DEF text
    <3>8. text[1] = Equal /\ text[2] = Space /\ \A i \in 1 .. n1 : text[2 + i] = v[i]
      <4>1. 1 \in 1 .. n1 + 2 /\ 2 \in 1 .. n1 + 2 /\ 2 + 1 - 1 = 2 /\ 2 + 2 - 1 = 3
            /\ \A i \in 1 .. n1 : 2 + i \in 1 .. n1 + 2 /\ 2 + (2 + i) - 1 = i + 3
        BY <1>0
      <4>2. text[1] = line[2] /\ text[2] = line[3] /\ \A i \in 1 .. n1 : text[2 + i] = line[i + 3]
        BY <4>1, <3>7
      <4> QED
        BY <4>2, <3>1
    <3>9. text # <<>> /\ ~IsSection(text)
      <4>1. text # <<>>
        BY <3>7, <1>0, EmptySeq
      <4> QED
        BY <4>1, <3>8, <1>2 DEF IsSection, Open
    <3>10. ReadLine(st, line) = Enter(st, Key(text), Value(text))
      BY <2>6, <2>7, <3>6, <3>9, LineRead
    <3>11. Key(text) = k /\ Value(text) = v
      <4> DEFINE p == 0
      <4>1. p \in Len(k) .. Len(k) + 1 /\ Len(text) = p + 2 + Len(v)
        BY <3>0, <3>7, <1>0
      <4>2. \A i \in Len(k) + 1 .. p : text[i] = Space
        BY <3>0, <1>0
      <4>3. text[p + 1] = Equal /\ text[p + 2] = Space
        BY <3>8
      <4>4. \A i \in 1 .. Len(v) : text[p + 2 + i] = v[i]
        BY <3>8, <1>0
      <4>5. \A i \in 1 .. Len(k) : text[i] = k[i]
        BY <3>0, <1>0
      <4>6. /\ k \in Seq(T) /\ v \in Seq(T) /\ text \in Seq(T)
            /\ Tidied(k) /\ Tidied(v) /\ Signs(k, "=") = {} /\ text[p + 1] = "="
        BY <4>3, <3>7, <1>1 DEF Equal
      <4> HIDE DEF p
      <4>7. IsSplit(text, k, p, v)
        BY <4>1, <4>2, <4>3, <4>4, <4>5, <4>6 DEF IsSplit
      <4> QED
        BY <4>6, <4>7, <1>4, SplitText
    <3> QED
      BY <3>10, <3>11, <2>0, <2>6
  <2> QED
    BY <2>9, <2>10
<1> QED
  BY <1>3, <1>4

-------------------------------------------------------------------------------
(***************************************************************************)
(* What the parser has in memory.                                          *)
(***************************************************************************)
AreKeys(T, keys) ==
  /\ IsFiniteSet(DOMAIN keys) /\ keys = [k \in DOMAIN keys |-> keys[k]]
  /\ \A k \in DOMAIN keys : IsEntry(T, k, keys[k])

Orderly(T, data) ==
  /\ IsFiniteSet(DOMAIN data) /\ data = [s \in DOMAIN data |-> data[s]]
  /\ \A s \in DOMAIN data : s \in Seq(T) /\ Good(s) /\ AreKeys(T, data[s])

\* What assigning does to a function.
LEMMA AssignedIs ==
  ASSUME NEW f, NEW key, NEW value
  PROVE  LET g == Assigned(f, key, value) IN
           /\ DOMAIN g = DOMAIN f \union {key} /\ g = [k \in DOMAIN g |-> g[k]]
           /\ \A k \in DOMAIN g : g[k] = IF k = key THEN value ELSE f[k]
           /\ IsFiniteSet(DOMAIN f) => IsFiniteSet(DOMAIN g)
<1> DEFINE g == Assigned(f, key, value)
           D == DOMAIN f
<1>1. DOMAIN g = D \union {key} /\ g = [k \in DOMAIN g |-> g[k]]
      /\ \A k \in DOMAIN g : g[k] = IF k = key THEN value ELSE f[k]
  BY DEF Assigned
<1>2. IsFiniteSet(D) => IsFiniteSet(D \union {key})
  <2> HIDE DEF D
  <2> QED
    BY FS_AddElement
<1> QED
  BY <1>1, <1>2

LEMMA KeysAre ==
  ASSUME NEW T, NEW data, Orderly(T, data), NEW s
  PROVE  AreKeys(T, KeysOf(data, s))
<1>1. CASE s \in DOMAIN data
  BY <1>1 DEF Orderly, KeysOf
<1>2. CASE s \notin DOMAIN data
  <2>1. KeysOf(data, s) = NoKeys
    BY <1>2 DEF KeysOf
  <2>2. DOMAIN NoKeys = {} /\ NoKeys = [k \in DOMAIN NoKeys |-> NoKeys[k]]
    BY DEF NoKeys
  <2>3. IsFiniteSet(DOMAIN NoKeys)
    BY <2>2, FS_EmptySet
  <2> QED
    BY <2>1, <2>2, <2>3 DEF AreKeys
<1> QED
  BY <1>1, <1>2

LEMMA EntryPut ==
  ASSUME NEW T, NEW keys, AreKeys(T, keys), NEW k, NEW v, IsEntry(T, k, v)
  PROVE  AreKeys(T, Assigned(keys, k, v))
<1> DEFINE g == Assigned(keys, k, v)
<1>1. /\ DOMAIN g = DOMAIN keys \union {k} /\ g = [x \in DOMAIN g |-> g[x]]
      /\ \A x \in DOMAIN g : g[x] = IF x = k THEN v ELSE keys[x]
      /\ IsFiniteSet(DOMAIN keys) => IsFiniteSet(DOMAIN g)
  BY AssignedIs
<1> HIDE DEF g
<1>2. \A x \in DOMAIN g : IsEntry(T, x, g[x])
  BY <1>1 DEF AreKeys
<1>3. AreKeys(T, g)
  BY <1>1, <1>2 DEF AreKeys
<1> QED
  BY <1>3 DEF g

LEMMA SectionPut ==
  ASSUME NEW T, NEW data, Orderly(T, data), NEW s \in Seq(T), Good(s), NEW keys, AreKeys(T, keys)
  PROVE  Orderly(T, Assigned(data, s, keys))
<1> DEFINE g == Assigned(data, s, keys)
<1>1. /\ DOMAIN g = DOMAIN data \union {s} /\ g = [x \in DOMAIN g |-> g[x]]
      /\ \A x \in DOMAIN g : g[x] = IF x = s THEN keys ELSE data[x]
      /\ IsFiniteSet(DOMAIN data) => IsFiniteSet(DOMAIN g)
  BY AssignedIs
<1> HIDE DEF g
<1>2. \A x \in DOMAIN g : x \in Seq(T) /\ Good(x) /\ AreKeys(T, g[x])
  BY <1>1 DEF Orderly
<1>3. Orderly(T, g)
  BY <1>1, <1>2 DEF Orderly
<1> QED
  BY <1>3 DEF g

\* A state of the parser with data in order, in a section that can be written.
Sound(T, st) ==
  IsState(st) /\ st.in \in Seq(T) /\ Good(st.in) /\ Orderly(T, st.data)

LEMMA SoundLine ==
  ASSUME NEW T, NEW raw \in Seq(T), Regular(raw), NEW st, Sound(T, st)
  PROVE  Sound(T, ReadLine(st, raw))
<1> DEFINE text == Text(raw)
           new == ReadLine(st, raw)
<1>1. text \in Seq(T) /\ Good(text)
  BY TextGood
<1>2. /\ IsSection(text) => Name(text) \in Seq(T) /\ Good(Name(text))
      /\ text # <<>> /\ ~IsSection(text) => IsEntry(T, Key(text), Value(text))
  BY <1>1, LineGood
<1>3. /\ text = <<>> => new = st
      /\ IsSection(text) => new = Section(st, Name(text))
      /\ text # <<>> /\ ~IsSection(text) => new = Enter(st, Key(text), Value(text))
  BY LineRead
<1>4. Orderly(T, st.data) /\ st.in \in Seq(T) /\ Good(st.in) /\ st = [in |-> st.in, data |-> st.data]
  BY DEF Sound, IsState
<1> HIDE DEF text, new
<1>5. CASE text = <<>>
  BY <1>3, <1>5 DEF new
<1>6. CASE IsSection(text)
  <2> DEFINE name == Name(text)
             data == Assigned(st.data, name, KeysOf(st.data, name))
  <2>1. Orderly(T, data)
    <3> HIDE DEF name
    <3>1. name \in Seq(T) /\ Good(name)
      BY <1>2, <1>6 DEF name
    <3> QED
      BY <3>1, <1>4, KeysAre, SectionPut
  <2>2. new = [in |-> name, data |-> data]
    BY <1>3, <1>6 DEF Section
  <2> HIDE DEF data
  <2>3. Sound(T, new)
    BY <1>2, <1>6, <2>1, <2>2 DEF Sound, IsState
  <2> QED
    BY <2>3 DEF new
<1>7. CASE text # <<>> /\ ~IsSection(text)
  <2> DEFINE k == Key(text)
             v == Value(text)
             keys == KeysOf(st.data, st.in)
             put == IF k \in DOMAIN keys THEN keys ELSE Assigned(keys, k, v)
             data == Assigned(st.data, st.in, put)
  <2>1. AreKeys(T, keys) /\ IsEntry(T, k, v)
    BY <1>2, <1>4, <1>7, KeysAre
  <2>2. AreKeys(T, put)
    <3> HIDE DEF keys, k, v
    <3> QED
      BY <2>1, EntryPut
  <2>3. new = [st EXCEPT !.data = data]
    BY <1>3, <1>7 DEF Enter, Emplaced
  <2> HIDE DEF put
  <2>4. Orderly(T, data)
    BY <2>2, <1>4, SectionPut
  <2> HIDE DEF data
  <2>5. new.in = st.in /\ new.data = data /\ new = [in |-> new.in, data |-> new.data]
    BY <2>3, <1>4
  <2>6. Sound(T, new)
    BY <2>4, <2>5, <1>4 DEF Sound, IsState
  <2> QED
    BY <2>6 DEF new
<1> QED
  BY <1>5, <1>6, <1>7

LEMMA ParsedOrderly ==
  ASSUME NEW T, NEW f \in Seq(Seq(T)), \A i \in DOMAIN f : Regular(f[i])
  PROVE  Orderly(T, Parsed(f))
<1> DEFINE N == Len(f)
           X == Seq(T)
<1>0. N \in Nat /\ DOMAIN f = 1 .. N /\ N \in 0 .. N
  OBVIOUS
<1>1. PICK h : /\ h[0] = Empty
               /\ \A i \in 1 .. N : h[i] = ReadLine(h[i - 1], f[i])
  BY ReadAll
<1>2. Parsed(f) = h[N].data
  <2>1. ReadTo(f, h[N])
    BY <1>1 DEF ReadTo
  <2> QED
    BY <1>0, <2>1, ParsedIs
<1>3. \A i \in 1 .. N : f[i] \in Seq(T) /\ Regular(f[i])
  <2>1. f \in Seq(X)
    OBVIOUS
  <2> HIDE DEF X
  <2>2. \A i \in 1 .. N : f[i] \in X /\ Regular(f[i])
    BY <2>1, <1>0
  <2> QED
    BY <2>2 DEF X
<1> DEFINE M == {i \in 0 .. N : Sound(T, h[i])}
<1> HIDE DEF N
<1>4. Sound(T, h[0])
  <2>1. Empty.in = <<>> /\ DOMAIN Empty.data = {} /\ Empty = [in |-> Empty.in, data |-> Empty.data]
        /\ Empty.data = [s \in DOMAIN Empty.data |-> Empty.data[s]]
    BY DEF Empty
  <2>2. IsFiniteSet(DOMAIN Empty.data)
    BY <2>1, FS_EmptySet
  <2>3. <<>> \in Seq(T)
    OBVIOUS
  <2> QED
    BY <2>1, <2>2, <2>3, <1>1, GoodNothing DEF Sound, IsState, Orderly
<1>5. ASSUME NEW i \in 1 .. N, Sound(T, h[i - 1]) PROVE Sound(T, h[i])
  BY <1>1, <1>3, <1>5, SoundLine
<1>6. M \in SUBSET (0 .. N) /\ 0 \in M /\ \A i \in 1 .. N : i - 1 \in M => i \in M
  <2>1. 0 \in 0 .. N /\ \A i \in 1 .. N : i \in 0 .. N
    BY <1>0
  <2> QED
    BY <2>1, <1>4, <1>5
<1>7. N \in M
  <2> HIDE DEF M
  <2> QED
    BY <1>0, <1>6, UpTo
<1> QED
  BY <1>2, <1>7 DEF Sound

-------------------------------------------------------------------------------
(***************************************************************************)
(* What write_file makes of it.                                            *)
(***************************************************************************)
\* list has every element of S once.
Lists(list, S) ==
  /\ list \in Seq(S) /\ DOMAIN list = 1 .. Len(list) /\ \A i \in DOMAIN list : list[i] \in S
  /\ \A i, j \in DOMAIN list : list[i] = list[j] => i = j
  /\ \A x \in S : \E i \in DOMAIN list : list[i] = x

LEMMA Listed ==
  ASSUME NEW S, IsFiniteSet(S)
  PROVE  Lists(SetToSeq(S), S)
<1> DEFINE N == Cardinality(S)
           f == SetToSeq(S)
<1>1. N \in Nat /\ ExistsBijection(1 .. N, S)
  BY FS_CardinalityType
<1>2. f = CHOOSE g \in [1 .. N -> S] : IsInjective(g)
  BY DEF SetToSeq
<1>3. \E g \in [1 .. N -> S] : IsInjective(g)
  BY <1>1 DEF ExistsBijection, Bijection, Injection
<1> HIDE DEF f
<1>4. f \in [1 .. N -> S] /\ IsInjective(f)
  BY <1>2, <1>3
<1>5. f \in Injection(1 .. N, S)
  BY <1>4 DEF Injection
<1>6. IsFiniteSet(1 .. N) /\ Cardinality(1 .. N) = N
  BY <1>1, FS_Interval
<1>7. f \in Surjection(1 .. N, S)
  <2> DEFINE D == 1 .. N
  <2>1. f \in Injection(D, S) /\ Cardinality(D) = Cardinality(S)
    BY <1>5, <1>6
  <2> HIDE DEF D
  <2>2. f \in Surjection(D, S)
    BY <2>1, FS_Injection
  <2> QED
    BY <2>2 DEF D
<1> HIDE DEF N
<1>8. f \in Seq(S) /\ Len(f) = N /\ DOMAIN f = 1 .. N
  BY <1>1, <1>4
<1>9. \A x \in S : \E i \in 1 .. N : f[i] = x
  BY <1>7 DEF Surjection
<1>10. Lists(f, S)
  BY <1>4, <1>8, <1>9 DEF Lists, IsInjective
<1> QED
  BY <1>10 DEF f

\* The part of a map that a prefix of a list names.
Part(map, list, i) == [x \in {list[j] : j \in 1 .. i} |-> map[x]]

LEMMA PartNext ==
  ASSUME NEW S, NEW map, NEW list, Lists(list, S), NEW i \in 1 .. Len(list)
  PROVE  /\ list[i] \notin DOMAIN Part(map, list, i - 1)
         /\ Part(map, list, i) = Assigned(Part(map, list, i - 1), list[i], map[list[i]])
<1> DEFINE x == list[i]
           D == {list[j] : j \in 1 .. i - 1}
           E == {list[j] : j \in 1 .. i}
<1>a. list \in Seq(S) /\ DOMAIN list = 1 .. Len(list)
  BY DEF Lists
<1>b. Len(list) \in Nat
  BY <1>a
<1>0. PICK N \in Nat : N = Len(list) /\ DOMAIN list = 1 .. N
  BY <1>a, <1>b
<1>1. \A j \in 1 .. i - 1 : j \in 1 .. N /\ i # j
  BY <1>0
<1>2. x \notin D
  BY <1>0, <1>1 DEF Lists
<1>3. E = D \union {x}
  <2>1. \A j : j \in 1 .. i <=> j \in 1 .. i - 1 \/ j = i
    BY <1>0
  <2> QED
    BY <2>1
<1> HIDE DEF D, E, x
<1>4. Part(map, list, i - 1) = [y \in D |-> map[y]] /\ Part(map, list, i) = [y \in E |-> map[y]]
  BY DEF Part, D, E
<1>5. Assigned([y \in D |-> map[y]], x, map[x]) = [y \in E |-> map[y]]
  <2>1. DOMAIN [y \in D |-> map[y]] = D
    OBVIOUS
  <2>2. Assigned([y \in D |-> map[y]], x, map[x])
          = [y \in D \union {x} |-> IF y = x THEN map[x] ELSE [z \in D |-> map[z]][y]]
    BY <2>1 DEF Assigned
  <2>3. \A y \in D \union {x} :
          (IF y = x THEN map[x] ELSE [z \in D |-> map[z]][y]) = map[y]
    OBVIOUS
  <2> QED
    BY <2>2, <2>3, <1>3
<1> QED
  BY <1>2, <1>4, <1>5 DEF x

LEMMA PartAll ==
  ASSUME NEW map, map = [x \in DOMAIN map |-> map[x]], NEW list, Lists(list, DOMAIN map)
  PROVE  Part(map, list, Len(list)) = map
<1>1. {list[j] : j \in 1 .. Len(list)} = DOMAIN map
  BY DEF Lists
<1> QED
  BY <1>1 DEF Part

LEMMA AssignedTwice ==
  ASSUME NEW f, NEW key, NEW a, NEW b
  PROVE  /\ Assigned(Assigned(f, key, a), key, b) = Assigned(f, key, b)
         /\ KeysOf(Assigned(f, key, a), key) = a
<1> DEFINE g == Assigned(f, key, a)
           D == DOMAIN f \union {key}
<1>1. DOMAIN g = D /\ \A k \in D : g[k] = IF k = key THEN a ELSE f[k]
  BY DEF Assigned
<1> HIDE DEF g
<1>2. Assigned(g, key, b) = [k \in D |-> IF k = key THEN b ELSE g[k]]
  BY <1>1 DEF Assigned
<1>3. Assigned(f, key, b) = [k \in D |-> IF k = key THEN b ELSE f[k]]
  BY DEF Assigned
<1>4. \A k \in D : (IF k = key THEN b ELSE g[k]) = IF k = key THEN b ELSE f[k]
  BY <1>1
<1>5. KeysOf(g, key) = a
  BY <1>1 DEF KeysOf
<1> QED
  BY <1>2, <1>3, <1>4, <1>5 DEF g

LEMMA PrefixMore ==
  ASSUME NEW X, NEW f \in Seq(X), NEW lines \in Seq(X), NEW i \in 1 .. Len(lines)
  PROVE  f \o SubSeq(lines, 1, i) = Append(f \o SubSeq(lines, 1, i - 1), lines[i])
<1> DEFINE a == SubSeq(lines, 1, i)
           b == SubSeq(lines, 1, i - 1)
           x == f \o a
           y == Append(f \o b, lines[i])
<1>0. PICK m \in Nat : m = Len(f)
  OBVIOUS
<1>1. i \in 0 .. Len(lines) /\ i - 1 \in 0 .. Len(lines) /\ i \in Nat /\ lines[i] \in X
  OBVIOUS
<1>2. /\ a \in Seq(X) /\ Len(a) = i /\ \A j \in 1 .. i : a[j] = lines[j]
      /\ b \in Seq(X) /\ Len(b) = i - 1 /\ \A j \in 1 .. i - 1 : b[j] = lines[j]
  BY <1>1, PrefixParts
<1> HIDE DEF a, b
<1>3. /\ x \in Seq(X) /\ Len(x) = m + i
      /\ \A j \in 1 .. m + i : x[j] = IF j <= m THEN f[j] ELSE a[j - m]
  BY <1>0, <1>2, ConcatProperties
<1> DEFINE c == f \o b
<1>4. /\ c \in Seq(X) /\ Len(c) = Len(f) + Len(b)
      /\ \A j \in 1 .. Len(f) + Len(b) : c[j] = IF j <= Len(f) THEN f[j] ELSE b[j - Len(f)]
  BY <1>2, ConcatProperties
<1> HIDE DEF c
<1>5. /\ c \in Seq(X) /\ Len(c) = m + (i - 1)
      /\ \A j \in 1 .. m + (i - 1) : c[j] = IF j <= m THEN f[j] ELSE b[j - m]
  BY <1>0, <1>2, <1>4
<1>6. y = Append(c, lines[i])
  BY DEF c
<1> HIDE DEF x, y
<1>7. /\ y \in Seq(X) /\ Len(y) = m + (i - 1) + 1 /\ y[m + (i - 1) + 1] = lines[i]
      /\ \A j \in 1 .. m + (i - 1) : y[j] = c[j]
  BY <1>1, <1>5, <1>6
<1>8. m + (i - 1) + 1 = m + i
  BY <1>0, <1>1
<1>9. ASSUME NEW j \in 1 .. m + i PROVE x[j] = y[j]
  <2>1. CASE j = m + i
    <3>1. ~(j <= m) /\ j - m = i /\ i \in 1 .. i
      BY <2>1, <1>0, <1>1
    <3> QED
      BY <2>1, <3>1, <1>2, <1>3, <1>7, <1>8
  <2>2. CASE j # m + i
    <3>1. j \in 1 .. m + (i - 1)
      BY <2>2, <1>0, <1>1
    <3>2. j <= m \/ (j - m \in 1 .. i - 1 /\ j - m \in 1 .. i)
      BY <3>1, <1>0, <1>1
    <3>3. y[j] = IF j <= m THEN f[j] ELSE b[j - m]
      BY <3>1, <1>5, <1>7
    <3>4. x[j] = IF j <= m THEN f[j] ELSE a[j - m]
      BY <1>3
    <3> QED
      BY <3>2, <3>3, <3>4, <1>2
  <2> QED
    BY <2>1, <2>2
<1>10. x = y
  BY <1>3, <1>7, <1>8, <1>9, SeqEqual
<1> QED
  BY <1>10 DEF x, y, a, b

LEMMA PartEmpty ==
  ASSUME NEW map, NEW list
  PROVE  Part(map, list, 0) = NoKeys /\ Part(map, list, 0) = [s \in {} |-> NoKeys]
<1>1. {list[j] : j \in 1 .. 0} = {}
  OBVIOUS
<1>2. Part(map, list, 0) = [x \in {} |-> map[x]]
  BY <1>1 DEF Part
<1> QED
  BY <1>2 DEF NoKeys

\* The key lines of a section put its entries into it.
LEMMA KeysRead ==
  ASSUME NEW T, "=" \in T, Space \in T, NEW keys, AreKeys(T, keys),
         \A k \in DOMAIN keys : CanHold(k, keys[k]),
         NEW list, Lists(list, DOMAIN keys), keys = [k \in DOMAIN keys |-> keys[k]],
         NEW data, NEW s, NEW f \in Seq(Seq(T)),
         ReadTo(f, [in |-> s, data |-> Assigned(data, s, NoKeys)])
  PROVE  LET lines == [i \in DOMAIN list |-> KeyLine(list[i], keys[list[i]])] IN
           /\ lines \in Seq(Seq(T))
           /\ ReadTo(f \o lines, [in |-> s, data |-> Assigned(data, s, keys)])
<1> DEFINE X == Seq(T)
           lines == [i \in DOMAIN list |-> KeyLine(list[i], keys[list[i]])]
           st(i) == [in |-> s, data |-> Assigned(data, s, Part(keys, list, i))]
           g(i) == f \o SubSeq(lines, 1, i)
           Ok(i) == g(i) \in Seq(X) /\ ReadTo(g(i), st(i))
<1>a. list \in Seq(DOMAIN keys) /\ DOMAIN list = 1 .. Len(list)
      /\ \A i \in DOMAIN list : list[i] \in DOMAIN keys
  BY DEF Lists
<1>0. PICK N \in Nat : N = Len(list) /\ DOMAIN list = 1 .. N /\ N \in 0 .. N
  BY <1>a
<1>1. ASSUME NEW i \in 1 .. N
      PROVE  /\ list[i] \in DOMAIN keys /\ IsEntry(T, list[i], keys[list[i]])
             /\ CanHold(list[i], keys[list[i]])
  BY <1>0, <1>a DEF AreKeys
<1>2. ASSUME NEW i \in 1 .. N PROVE lines[i] \in X
  <2>1. lines[i] = KeyLine(list[i], keys[list[i]])
    BY <1>0
  <2> DEFINE k == list[i]
             v == keys[k]
  <2>2. IsEntry(T, k, v) /\ CanHold(k, v)
    BY <1>1
  <2> HIDE DEF k, v
  <2>3. KeyLine(k, v) \in Seq(T)
    BY <2>2, ReadKeyLine
  <2> QED
    BY <2>1, <2>3 DEF k, v
<1>3. lines \in Seq(X) /\ Len(lines) = N
  <2>1. DOMAIN lines = 1 .. N /\ lines = [i \in 1 .. N |-> lines[i]]
    BY <1>0
  <2> HIDE DEF lines, X
  <2>2. lines \in [1 .. N -> X]
    BY <2>1, <1>2
  <2> QED
    BY <2>2, <1>0
<1>4. f \in Seq(X)
  OBVIOUS
<1>5. Ok(0)
  <2> HIDE DEF lines, X
  <2>1. SubSeq(lines, 1, 0) \in Seq(X) /\ Len(SubSeq(lines, 1, 0)) = 0
    <3>1. 0 \in 0 .. Len(lines)
      BY <1>0, <1>3
    <3> QED
      BY <3>1, <1>3, PrefixParts
  <2> DEFINE e == SubSeq(lines, 1, 0)
  <2> HIDE DEF e
  <2>2. e = <<>>
    BY <2>1, EmptySeq DEF e
  <2>3. f \o <<>> = f
    BY <1>4
  <2>4. g(0) = f
    BY <2>2, <2>3 DEF e
  <2>5. st(0) = [in |-> s, data |-> Assigned(data, s, NoKeys)]
    BY PartEmpty
  <2> QED
    BY <2>4, <2>5, <1>4
<1>6. ASSUME NEW i \in 1 .. N, Ok(i - 1) PROVE Ok(i)
  <2> DEFINE k == list[i]
             v == keys[k]
             P == Part(keys, list, i - 1)
             Q == Part(keys, list, i)
             old == [in |-> s, data |-> Assigned(data, s, P)]
             before == g(i - 1)
             line == lines[i]
  <2>1. IsEntry(T, k, v) /\ CanHold(k, v)
    BY <1>1
  <2>2. line = KeyLine(k, v) /\ line \in X
    BY <1>0, <1>2
  <2>3. k \notin DOMAIN P /\ Q = Assigned(P, k, v)
    BY <1>0, PartNext
  <2>4. before \in Seq(X) /\ ReadTo(before, old)
    BY <1>6
  <2>5. g(i) = Append(before, line)
    <3> HIDE DEF lines, X
    <3> QED
      BY <1>0, <1>3, <1>4, PrefixMore
  <2> HIDE DEF k, v, P, Q, before, line, lines
  <2>6. ReadLine(old, line) = st(i)
    <3>1. ReadLine(old, line) = Enter(old, k, v)
      <4> HIDE DEF old
      <4> QED
        BY <2>1, <2>2, ReadKeyLine
    <3>2. old.in = s /\ old.data = Assigned(data, s, P)
      OBVIOUS
    <3>3. Emplaced(old.data, old.in, k, v) = Assigned(data, s, Q)
      <4>1. KeysOf(Assigned(data, s, P), s) = P
            /\ Assigned(Assigned(data, s, P), s, Q) = Assigned(data, s, Q)
        BY AssignedTwice
      <4> QED
        BY <4>1, <3>2, <2>3 DEF Emplaced
    <3> DEFINE d == Assigned(data, s, Q)
               e == Assigned(data, s, P)
    <3>4. st(i) = [in |-> s, data |-> d]
      BY DEF Q
    <3>5. Emplaced(e, s, k, v) = d
      BY <3>2, <3>3
    <3>6. Enter(old, k, v) = [old EXCEPT !.data = d]
      BY <3>2, <3>5 DEF Enter
    <3> HIDE DEF d, e
    <3>7. [old EXCEPT !.data = d] = [in |-> s, data |-> d]
      OBVIOUS
    <3> QED
      BY <3>1, <3>4, <3>6, <3>7
  <2> HIDE DEF X
  <2>7. Append(before, line) \in Seq(X)
    BY <2>2, <2>4
  <2>8. ReadTo(Append(before, line), ReadLine(old, line))
    <3> HIDE DEF old
    <3> QED
      BY <2>2, <2>4, ReadMore
  <2> HIDE DEF g, st, old
  <2> QED
    BY <2>5, <2>6, <2>7, <2>8 DEF Ok
<1> DEFINE M == {i \in 0 .. N : Ok(i)}
<1> HIDE DEF Ok
<1>7. M \in SUBSET (0 .. N) /\ 0 \in M /\ \A i \in 1 .. N : i - 1 \in M => i \in M
  <2>1. 0 \in 0 .. N /\ \A i \in 1 .. N : i \in 0 .. N
    BY <1>0
  <2> QED
    BY <2>1, <1>5, <1>6
<1>8. Ok(N)
  <2>1. N \in M
    <3> HIDE DEF M
    <3> QED
      BY <1>0, <1>7, UpTo
  <2> QED
    BY <2>1
<1>9. SubSeq(lines, 1, N) = lines
  <2> HIDE DEF lines, X
  <2> QED
    BY <1>3
<1>10. Part(keys, list, N) = keys
  BY <1>0, PartAll
<1> HIDE DEF lines
<1>11. ReadTo(f \o lines, [in |-> s, data |-> Assigned(data, s, keys)])
  BY <1>8, <1>9, <1>10 DEF Ok
<1> QED
  BY <1>3, <1>11 DEF lines, X

\* A section, with the line above it that keeps it apart from the one before.
LEMMA BlockRead ==
  ASSUME NEW T, {"[", "]", "=", Space} \subseteq T,
         NEW s \in Seq(T), Good(s), NEW keys, AreKeys(T, keys),
         \A k \in DOMAIN keys : CanHold(k, keys[k]),
         NEW list, Lists(list, DOMAIN keys),
         NEW f \in Seq(Seq(T)), NEW st, ReadTo(f, st), s \notin DOMAIN st.data,
         NEW blank \in {<<>>, <<<<>>>>}
  PROVE  LET lines == [i \in DOMAIN list |-> KeyLine(list[i], keys[list[i]])]
             block == blank \o <<<<"[">> \o s \o <<"]">>>> \o lines
         IN /\ block \in Seq(Seq(T)) /\ f \o block \in Seq(Seq(T))
            /\ ReadTo(f \o block, [in |-> s, data |-> Assigned(st.data, s, keys)])
<1> DEFINE X == Seq(T)
           lines == [i \in DOMAIN list |-> KeyLine(list[i], keys[list[i]])]
           heading == <<"[">> \o s \o <<"]">>
           top == blank \o <<heading>>
           new == [in |-> s, data |-> Assigned(st.data, s, NoKeys)]
<1>0. "[" \in T /\ "]" \in T /\ "=" \in T /\ Space \in T
  OBVIOUS
<1>1. heading \in X /\ \A at : ReadLine(at, heading) = Section(at, s)
  BY <1>0, ReadHeading
<1>2. <<>> \in X /\ \A at : ReadLine(at, <<>>) = at
  <2> DEFINE e == <<>>
  <2>1. e \in Seq(T) /\ DOMAIN e = {}
    OBVIOUS
  <2>2. Pure(e)
    BY <2>1 DEF Pure, Bare
  <2>3. Trimmed(e) = <<>>
    BY NothingTrimmed
  <2> HIDE DEF e
  <2>4. Regular(e) /\ Text(e) = <<>>
    BY <2>1, <2>2, <2>3, PureText
  <2>5. \A at : ReadLine(at, e) = at
    BY <2>1, <2>4, LineRead
  <2> QED
    BY <2>1, <2>5 DEF e
<1>3. ReadLine(st, heading) = new
  <2>1. KeysOf(st.data, s) = NoKeys
    BY DEF KeysOf
  <2> QED
    BY <2>1, <1>1 DEF Section
<1>4. f \in Seq(X)
  OBVIOUS
<1> HIDE DEF heading, new, X
<1>5. top \in Seq(X) /\ f \o top \in Seq(X) /\ ReadTo(f \o top, new)
  <2>1. <<heading>> \in Seq(X)
    BY <1>1
  <2>2. CASE blank = <<>>
    <3>1. top = <<heading>>
      <4> DEFINE one == <<heading>>
      <4>1. one \in Seq(X)
        BY <2>1
      <4> HIDE DEF one
      <4>2. <<>> \o one = one
        BY <4>1, ConcatEmptySeq
      <4> QED
        BY <4>2, <2>2 DEF one
    <3>2. f \o <<heading>> = Append(f, heading)
      BY <1>1, <1>4
    <3>3. Append(f, heading) \in Seq(X)
      BY <1>1, <1>4
    <3>4. ReadTo(Append(f, heading), new)
      BY <1>1, <1>3, <1>4, ReadMore
    <3> QED
      BY <2>1, <3>1, <3>2, <3>3, <3>4
  <2>3. CASE blank = <<<<>>>>
    <3> DEFINE e == <<>>
               g == Append(f, e)
    <3>1. e \in X /\ ReadLine(st, e) = st
      BY <1>2
    <3>2. top = <<e>> \o <<heading>>
      BY <2>3
    <3> HIDE DEF e
    <3>3. <<e>> \in Seq(X)
      BY <3>1
    <3>4. top \in Seq(X)
      BY <2>1, <3>2, <3>3, ConcatProperties
    <3>5. f \o top = Append(g, heading)
      BY <1>1, <1>4, <3>1, <3>2, TwoMore
    <3>6. g \in Seq(X) /\ ReadTo(g, st)
      <4>1. ReadTo(g, ReadLine(st, e))
        BY <1>4, <3>1, ReadMore
      <4> QED
        BY <4>1, <1>4, <3>1
    <3> HIDE DEF g
    <3>7. Append(g, heading) \in Seq(X)
      BY <1>1, <3>6
    <3>8. ReadTo(Append(g, heading), new)
      BY <1>1, <1>3, <3>6, ReadMore
    <3> QED
      BY <3>4, <3>5, <3>7, <3>8
  <2> QED
    BY <2>2, <2>3
<1>6. /\ lines \in Seq(X)
      /\ ReadTo((f \o top) \o lines, [in |-> s, data |-> Assigned(st.data, s, keys)])
  <2> DEFINE g == f \o top
             data == st.data
  <2>1. /\ g \in Seq(Seq(T)) /\ keys = [k \in DOMAIN keys |-> keys[k]]
        /\ ReadTo(g, [in |-> s, data |-> Assigned(data, s, NoKeys)])
    BY <1>5 DEF X, new, AreKeys
  <2> HIDE DEF g, data
  <2>2. /\ lines \in Seq(Seq(T))
        /\ ReadTo(g \o lines, [in |-> s, data |-> Assigned(data, s, keys)])
    BY <2>1, <1>0, KeysRead
  <2> QED
    BY <2>2 DEF g, data, X
<1> DEFINE block == top \o lines
<1> HIDE DEF top, lines
<1>7. block \in Seq(X) /\ f \o block \in Seq(X) /\ (f \o top) \o lines = f \o block
  <2>1. block \in Seq(X)
    BY <1>5, <1>6, ConcatProperties
  <2>2. (f \o top) \o lines = f \o block
    BY <1>4, <1>5, <1>6, ConcatAssociative
  <2> HIDE DEF block
  <2>3. f \o block \in Seq(X)
    BY <2>1, <1>4, ConcatProperties
  <2> QED
    BY <2>1, <2>2, <2>3
<1>8. ReadTo(f \o block, [in |-> s, data |-> Assigned(st.data, s, keys)])
  BY <1>6, <1>7
<1> HIDE DEF block
<1> QED
  BY <1>7, <1>8 DEF block, top, lines, heading, X

\* What write_file writes is read back as what was in memory.
LEMMA WrittenRead ==
  ASSUME NEW T, {"[", "]", "=", Space} \subseteq T, NEW data, Orderly(T, data), DOMAIN data # {},
         \A s \in DOMAIN data : \A k \in DOMAIN data[s] : CanHold(k, data[s][k])
  PROVE  Parsed(Written(data)) = data
<1> DEFINE X == Seq(T)
           list(s) == SetToSeq(DOMAIN data[s])
           lines(s) == [i \in DOMAIN list(s) |-> KeyLine(list(s)[i], data[s][list(s)[i]])]
           sections == SetToSeq(DOMAIN data)
           block(i) == (IF i = 1 THEN <<>> ELSE <<<<>>>>)
                         \o <<<<"[">> \o sections[i] \o <<"]">>>> \o lines(sections[i])
           parts == [i \in DOMAIN sections |-> block(i)]
<1>1. Written(data) = FlattenSeq(parts)
  BY DEF Written
<1>2. Lists(sections, DOMAIN data)
  BY Listed DEF Orderly
<1>3. sections \in Seq(DOMAIN data) /\ DOMAIN sections = 1 .. Len(sections)
      /\ \A i \in DOMAIN sections : sections[i] \in DOMAIN data
  BY <1>2 DEF Lists
<1> HIDE DEF sections
<1>4. PICK m \in Nat \ {0} : m = Len(sections) /\ DOMAIN sections = 1 .. m
  <2>1. Len(sections) \in Nat
    BY <1>3
  <2>2. Len(sections) # 0
    <3>1. PICK s : s \in DOMAIN data
      OBVIOUS
    <3>2. PICK i \in DOMAIN sections : sections[i] = s
      BY <1>2, <3>1 DEF Lists
    <3> QED
      BY <3>2, <1>3
  <2> QED
    BY <2>1, <2>2, <1>3
<1> DEFINE name(i) == sections[i]
           state(i) == [in |-> name(i), data |-> Part(data, sections, i)]
\* A block behind any lines that name the sections before it.
<1>5. ASSUME NEW i \in 1 .. m, NEW f \in Seq(X), NEW st, ReadTo(f, st),
             st.data = Part(data, sections, i - 1)
      PROVE  /\ block(i) \in Seq(X) /\ f \o block(i) \in Seq(X)
             /\ ReadTo(f \o block(i), state(i))
  <2> DEFINE s == name(i)
             keys == data[s]
             order == list(s)
             blank == IF i = 1 THEN <<>> ELSE <<<<>>>>
  <2>1. s \in DOMAIN data
    BY <1>3, <1>4
  <2>2. s \in Seq(T) /\ Good(s) /\ AreKeys(T, keys) /\ \A k \in DOMAIN keys : CanHold(k, keys[k])
    BY <2>1 DEF Orderly
  <2>3. Lists(order, DOMAIN keys)
    BY <2>2, Listed DEF AreKeys
  <2>4. s \notin DOMAIN st.data /\ Part(data, sections, i) = Assigned(st.data, s, keys)
    BY <1>2, <1>4, <1>5, PartNext
  <2>5. blank \in {<<>>, <<<<>>>>}
    OBVIOUS
  <2> DEFINE all == [j \in DOMAIN order |-> KeyLine(order[j], keys[order[j]])]
             b == blank \o <<<<"[">> \o s \o <<"]">>>> \o all
  <2>6. block(i) = b
    OBVIOUS
  <2>7. f \in Seq(Seq(T)) /\ ReadTo(f, st)
    BY <1>5
  <2> HIDE DEF s, keys, order, blank
  <2>8. /\ b \in Seq(Seq(T)) /\ f \o b \in Seq(Seq(T))
        /\ ReadTo(f \o b, [in |-> s, data |-> Assigned(st.data, s, keys)])
    BY <2>2, <2>3, <2>4, <2>5, <2>7, BlockRead
  <2>9. state(i) = [in |-> s, data |-> Assigned(st.data, s, keys)]
    BY <2>4 DEF s
  <2> HIDE DEF b, state, block
  <2> QED
    BY <2>6, <2>8, <2>9
<1>6. Empty.data = Part(data, sections, 0) /\ ReadTo(<<>>, Empty) /\ <<>> \in Seq(X)
  BY ReadNothing, PartEmpty DEF Empty
<1> HIDE DEF block, state
<1>7. ASSUME NEW i \in 1 .. m, NEW f \in Seq(X), ReadTo(f, state(i - 1))
      PROVE  /\ block(i) \in Seq(X) /\ f \o block(i) \in Seq(X)
             /\ ReadTo(f \o block(i), state(i))
  <2>1. state(i - 1).data = Part(data, sections, i - 1)
    BY DEF state
  <2> HIDE DEF X
  <2> QED
    BY <2>1, <1>5, <1>7
<1>8. /\ block(1) \in Seq(X) /\ ReadTo(block(1), state(1))
  <2>1. 1 \in 1 .. m /\ 1 - 1 = 0
    OBVIOUS
  <2> DEFINE e == <<>>
  <2>2. e \in Seq(X) /\ ReadTo(e, Empty) /\ Empty.data = Part(data, sections, 1 - 1)
    BY <1>6, <2>1
  <2> HIDE DEF X, e
  <2>3. /\ block(1) \in Seq(X) /\ ReadTo(e \o block(1), state(1))
    BY <2>1, <2>2, <1>5
  <2>4. e \o block(1) = block(1)
    BY <2>3, ConcatEmptySeq DEF e
  <2> QED
    BY <2>3, <2>4
<1>9. \A i \in 1 .. m : block(i) \in Seq(X)
  <2> SUFFICES ASSUME NEW i \in 1 .. m PROVE block(i) \in Seq(X)
    OBVIOUS
  <2> DEFINE s == name(i)
             keys == data[s]
             order == list(s)
             blank == IF i = 1 THEN <<>> ELSE <<<<>>>>
             st == [in |-> <<>>, data |-> [x \in {} |-> NoKeys]]
  <2>1. s \in DOMAIN data
    BY <1>3, <1>4
  <2>2. s \in Seq(T) /\ Good(s) /\ AreKeys(T, keys) /\ \A k \in DOMAIN keys : CanHold(k, keys[k])
    BY <2>1 DEF Orderly
  <2>3. Lists(order, DOMAIN keys)
    BY <2>2, Listed DEF AreKeys
  <2>4. blank \in {<<>>, <<<<>>>>}
    OBVIOUS
  <2> DEFINE all == [j \in DOMAIN order |-> KeyLine(order[j], keys[order[j]])]
             b == blank \o <<<<"[">> \o s \o <<"]">>>> \o all
             f == <<>>
  <2>5. block(i) = b
    BY DEF block
  <2>6. f \in Seq(Seq(T)) /\ ReadTo(f, st) /\ s \notin DOMAIN st.data
    BY <1>6 DEF Empty
  <2> HIDE DEF s, keys, order, blank, f, st
  <2>7. b \in Seq(Seq(T))
    BY <2>2, <2>3, <2>4, <2>6, BlockRead
  <2> QED
    BY <2>5, <2>7
<1>10. parts \in [1 .. m -> Seq(X)]
  BY <1>4, <1>9
<1>11. PICK w : /\ FlattenSeq(parts) = w[m] /\ w[1] = parts[1]
                /\ \A i \in 2 .. m : w[i] = w[i - 1] \o parts[i]
  <2> HIDE DEF parts, X
  <2> QED
    BY <1>10, Flattened
<1>12. \A i \in 1 .. m : parts[i] = block(i)
  BY <1>4
<1> DEFINE Ok(i) == w[i] \in Seq(X) /\ ReadTo(w[i], state(i))
           M == {i \in 0 .. m - 1 : Ok(i + 1)}
<1> HIDE DEF parts, X
<1>13. Ok(1)
  <2>1. 1 \in 1 .. m
    OBVIOUS
  <2> QED
    BY <2>1, <1>8, <1>11, <1>12
<1>14. ASSUME NEW i \in 2 .. m, Ok(i - 1) PROVE Ok(i)
  <2>1. i \in 1 .. m
    OBVIOUS
  <2>2. w[i] = w[i - 1] \o block(i)
    BY <2>1, <1>11, <1>12
  <2> DEFINE f == w[i - 1]
  <2>3. f \in Seq(X) /\ ReadTo(f, state(i - 1))
    BY <1>14
  <2> HIDE DEF f
  <2>4. f \o block(i) \in Seq(X) /\ ReadTo(f \o block(i), state(i))
    BY <2>1, <2>3, <1>7
  <2> QED
    BY <2>2, <2>4 DEF f
<1> HIDE DEF Ok
<1>15. M \in SUBSET (0 .. m - 1) /\ 0 \in M /\ \A i \in 1 .. m - 1 : i - 1 \in M => i \in M
  <2>1. 0 \in 0 .. m - 1 /\ 0 + 1 = 1
    OBVIOUS
  <2>2. ASSUME NEW i \in 1 .. m - 1, i - 1 \in M PROVE i \in M
    <3>1. i - 1 + 1 = i /\ i + 1 \in 2 .. m /\ i + 1 - 1 = i /\ i \in 0 .. m - 1
      OBVIOUS
    <3> DEFINE j == i + 1
    <3>2. j \in 2 .. m /\ Ok(j - 1)
      BY <3>1, <2>2
    <3> HIDE DEF j
    <3>3. Ok(j)
      BY <3>2, <1>14
    <3> QED
      BY <3>1, <3>3 DEF j
  <2> QED
    BY <2>1, <2>2, <1>13
<1>16. Ok(m)
  <2>1. m - 1 \in Nat /\ m - 1 \in 0 .. m - 1 /\ m - 1 + 1 = m
    OBVIOUS
  <2>2. m - 1 \in M
    <3> HIDE DEF M
    <3> QED
      BY <2>1, <1>15, UpTo
  <2> QED
    BY <2>1, <2>2
<1>17. Parsed(w[m]) = state(m).data
  <2>1. w[m] \in Seq(X) /\ ReadTo(w[m], state(m))
    BY <1>16 DEF Ok
  <2> DEFINE f == w[m]
  <2> HIDE DEF f
  <2>2. Len(f) \in Nat
    BY <2>1 DEF f
  <2>3. Parsed(f) = state(m).data
    BY <2>1, <2>2, ParsedIs DEF f
  <2> QED
    BY <2>3 DEF f
<1>18. state(m).data = data
  <2>1. Part(data, sections, Len(sections)) = data
    <3>1. data = [s \in DOMAIN data |-> data[s]]
      BY DEF Orderly
    <3> QED
      BY <3>1, <1>2, PartAll
  <2> QED
    BY <2>1, <1>4 DEF state
<1> QED
  BY <1>1, <1>11, <1>17, <1>18

\* What set does to what is in order: it stays so.
LEMMA SetOrderly ==
  ASSUME NEW T, NEW data, Orderly(T, data), NEW s \in Seq(T), Good(s), NEW k, NEW v, IsEntry(T, k, v)
  PROVE  Orderly(T, set(data, s, k, v)) /\ DOMAIN set(data, s, k, v) # {}
<1> DEFINE keys == KeysOf(data, s)
           put == Assigned(keys, k, v)
<1>1. AreKeys(T, keys)
  BY KeysAre
<1> HIDE DEF keys
<1>2. AreKeys(T, put)
  BY <1>1, EntryPut
<1>3. set(data, s, k, v) = Assigned(data, s, put)
  BY DEF set, keys
<1> HIDE DEF put
<1>4. Orderly(T, Assigned(data, s, put))
  BY <1>2, SectionPut
<1>5. s \in DOMAIN Assigned(data, s, put)
  BY DEF Assigned
<1> QED
  BY <1>3, <1>4, <1>5

\* A word is a name, a key and a value.
LEMMA WordGood ==
  ASSUME NEW t, t \notin {Semicolon, "#", "//", "[", "]", "=", Space, Tab, "BOM"}
  PROVE  /\ <<t>> \in Seq({t}) /\ Good(<<t>>)
         /\ \A T, v : t \in T /\ v \in Seq(T) /\ Good(v) => IsEntry(T, <<t>>, v)
<1> DEFINE s == <<t>>
           X == {t}
           Hash == "#"
           Mark == "BOM"
           Equal == "="
           Open == "["
<1>0. t # Semicolon /\ t # Hash /\ t # Mark /\ t # Equal /\ t # Open /\ t \notin White
  BY DEF White
<1>1. s \in Seq(X) /\ Len(s) = 1 /\ DOMAIN s = 1 .. 1 /\ s[1] = t
  OBVIOUS
<1> HIDE DEF s, X, Hash, Mark, Equal, Open
<1>2. \A i \in 1 .. 1 : i = 1 /\ i + 1 \notin 1 .. 1
  OBVIOUS
<1>3. Good(s)
  BY <1>0, <1>1, <1>2 DEF Good, Bare, Tidied, Hash, Mark
<1>4. Signs(s, Equal) = {}
  BY <1>0, <1>1, <1>2 DEF Signs
<1>5. ASSUME NEW T, t \in T PROVE s \in Seq(T)
  BY <1>5, One DEF s
<1>6. ASSUME NEW T, NEW v, t \in T, v \in Seq(T), Good(v) PROVE IsEntry(T, s, v)
  <2>1. ~(s[1] = Open)
    BY <1>0, <1>1
  <2>2. s \in Seq(T)
    BY <1>5, <1>6
  <2> QED
    BY <2>1, <2>2, <1>3, <1>4, <1>6 DEF IsEntry, Open, Equal
<1> QED
  BY <1>1, <1>3, <1>6 DEF s, X

LEMMA SeqSubset ==
  ASSUME NEW A, NEW B, A \subseteq B, NEW s \in Seq(A)
  PROVE  s \in Seq(B)
  OBVIOUS

\* A write of a value a line can hold, under any two words.
LEMMA Rewritten ==
  ASSUME NEW T, {"[", "]", "=", Space} \subseteq T,
         NEW f \in Seq(Seq(T)), \A i \in DOMAIN f : Regular(f[i]),
         NEW k, k[1] \in T \ Sign, k[2] \in T \ Sign, NEW v \in Seq(T), Good(v),
         LET after == set(Parsed(f), <<k[1]>>, <<k[2]>>, v)
         IN \A s \in DOMAIN after : \A key \in DOMAIN after[s] : CanHold(key, after[s][key])
  PROVE  Parsed(Write(f, k, v)) = set(Parsed(f), <<k[1]>>, <<k[2]>>, v)
<1> DEFINE a == k[1]
           b == k[2]
           after == set(Parsed(f), <<a>>, <<b>>, v)
<1>1. Orderly(T, Parsed(f))
  BY ParsedOrderly
<1>2. /\ a \in T /\ a \notin {Semicolon, "#", "//", "[", "]", "=", Space, Tab, "BOM"}
      /\ b \in T /\ b \notin {Semicolon, "#", "//", "[", "]", "=", Space, Tab, "BOM"}
  BY DEF Sign
<1> HIDE DEF a, b
<1>3. <<a>> \in Seq(T) /\ Good(<<a>>) /\ IsEntry(T, <<b>>, v)
  BY <1>2, One, WordGood
<1>4. Orderly(T, after) /\ DOMAIN after # {}
  BY <1>1, <1>3, SetOrderly
<1>5. \A s \in DOMAIN after : \A key \in DOMAIN after[s] : CanHold(key, after[s][key])
  BY DEF a, b
<1>6. Write(f, k, v) = Written(after)
  BY DEF Write, a, b
<1> HIDE DEF after
<1>7. Parsed(Written(after)) = after
  BY <1>4, <1>5, WrittenRead
<1> QED
  BY <1>6, <1>7 DEF after, a, b

LEMMA RewriteKept ==
  ASSUME SourceInv
  PROVE  RewriteKeepsRest
<1> DEFINE before == Contents(file)
           signs == {"[", "]", "=", Space}
           words == {"patches", "redirect", "redirect.us", "patch_server"}
           x == "x"
           K == {<<"patches", "redirect">>, <<"redirect.us", "patch_server">>}
<1> SUFFICES ASSUME \A i \in DOMAIN before : Regular(before[i]),
                    NEW k \in K, NEW v \in {<<>>, <<x>>},
                    LET after == set(Parsed(before), <<k[1]>>, <<k[2]>>, v)
                    IN \A s \in DOMAIN after : \A key \in DOMAIN after[s] : CanHold(key, after[s][key])
             PROVE  Parsed(Write(before, k, v)) = set(Parsed(before), <<k[1]>>, <<k[2]>>, v)
  BY DEF RewriteKeepsRest
<1>1. PICK T0 : before \in Seq(Seq(T0))
  <2>1. IsText(<<>>)
    BY DEF IsText
  <2> QED
    BY <2>1 DEF SourceInv, Contents, IsText
<1> DEFINE T == T0 \union signs \union words \union {x}
<1>2. before \in Seq(Seq(T))
  <2> DEFINE A == Seq(T0)
             B == Seq(T)
  <2>1. A \subseteq B
    <3>1. T0 \subseteq T
      OBVIOUS
    <3> HIDE DEF T
    <3> QED
      BY <3>1, SeqSubset
  <2>2. before \in Seq(A)
    BY <1>1
  <2> HIDE DEF A, B, before
  <2>3. before \in Seq(B)
    BY <2>1, <2>2, SeqSubset
  <2> QED
    BY <2>3 DEF B
<1>3. signs \subseteq T /\ words \subseteq T /\ x \in T
  OBVIOUS
<1>4. k[1] \in words /\ k[2] \in words
  OBVIOUS
<1>5. \A w \in words \union {x} : w \notin Sign
  BY Zenon DEF Sign, Quote, Space, Tab, Semicolon
<1>6. v \in Seq(T) /\ Good(v)
  <2>1. CASE v = <<>>
    BY <2>1, GoodNothing
  <2>2. CASE v = <<x>>
    <3>1. x \notin {Semicolon, "#", "//", "[", "]", "=", Space, Tab, "BOM"}
      BY <1>5 DEF Sign
    <3> HIDE DEF x, T
    <3> QED
      BY <2>2, <3>1, <1>3, One, WordGood
  <2> QED
    BY <2>1, <2>2
<1>7. k[1] \in T \ Sign /\ k[2] \in T \ Sign
  BY <1>3, <1>4, <1>5
<1> HIDE DEF T, x, before
<1> QED
  BY <1>2, <1>3, <1>6, <1>7, Rewritten

\* For every file the user may write: rewritten through the parser, it is read back with
\* the new entry and all it said before, sections and keys written in whatever order the
\* maps list them (CIniReader::WriteString with useparser, basic_ini::write_file).
THEOREM RewriteAlwaysKeepsRest == Spec => []RewriteKeepsRest
<1>1. SourceInv => RewriteKeepsRest
  BY RewriteKept
<1> QED
  BY <1>1, SourceInductive, PTL
====
