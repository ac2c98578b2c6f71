---------------------------------- MODULE Ini ----------------------------------
(***************************************************************************)
(* The configuration file format: what the parser makes of the lines of a  *)
(* file (parser.hh), what the readers make of a value, and what a write    *)
(* through the parser leaves of the file (reader.h).                       *)
(*                                                                         *)
(* A line, and a key or value in it, is a sequence of tokens: the signs    *)
(* the parser looks for (";", "#", "//", "[", "]", "=", the quotes, the    *)
(* blank, "TAB" for all other white space and "BOM" for the UTF-8 mark)    *)
(* and the words between them.  A comment of two slashes needs a blank     *)
(* before it; a tab makes none.                                            *)
(*                                                                         *)
(* How long a value is has no place here: ReadString copies it into 255    *)
(* bytes without looking, and what a longer one does is not described.     *)
(***************************************************************************)
EXTENDS Integers, Sequences, FiniteSets, SequencesExt

CONSTANTS
  Number,       \* what std::stoi makes of the words that begin with a number
  FalseWords    \* "false" in upper, lower and mixed case

ASSUME WordsAssumption ==
  /\ Number \in [DOMAIN Number -> Int] /\ DOMAIN Number \subseteq STRING
  /\ "1" \in DOMAIN Number /\ Number["1"] = 1
  /\ "False" \in FalseWords /\ FalseWords \subseteq STRING

Space == " "
Tab == "TAB"
White == {Space, Tab}
Semicolon == ";"
Quote == {"\"", "'"}

SectionLine(s) == <<"[", s, "]">>
Entry(k, v)    == <<k, "=">> \o v
Plain(t)       == IF t = "" THEN <<>> ELSE <<t>>
Quoted(t)      == <<"\"">> \o Plain(t) \o <<"\"">>

-------------------------------------------------------------------------------
(***************************************************************************)
(* basic_ini: data[section][key] is a value.                               *)
(***************************************************************************)
\* What stands before the first of places S, if there is one.
Before(line, S) == IF S = {} THEN line ELSE SubSeq(line, 1, Min(S) - 1)

Signs(line, sign) == {i \in DOMAIN line : line[i] = sign}
Slashes(line) == {i \in DOMAIN line : line[i] = Space /\ i < Len(line) /\ line[i + 1] = "//"}

\* Three comments are looked for one after the other, and of " //" the last.
Uncommented(line) ==
  LET a == Before(line, Signs(line, Semicolon))
      b == Before(a, {i \in Slashes(a) : \A j \in Slashes(a) : j <= i})
  IN Before(b, Signs(b, "#"))

\* Without the run of tokens of T it begins with.
Dropped(s, T) ==
  LET rest == {i \in DOMAIN s : s[i] \notin T} IN
    IF rest = {} THEN <<>> ELSE SubSeq(s, Min(rest), Len(s))

trimRightNever(s, trimLeft, trimRight) ==
  LET a == Dropped(s, {"BOM"}) IN IF trimLeft THEN Dropped(a, White) ELSE a
trim(s, trimLeft, trimRight) ==
  LET a == Dropped(s, {"BOM"})
      b == IF trimLeft THEN Dropped(a, White) ELSE a
  IN IF trimRight THEN Reverse(Dropped(Reverse(b), White)) ELSE b

NoKeys == [k \in {} |-> <<>>]

\* find(sect) and find(key), or what they create.
KeysOf(data, sect) == IF sect \in DOMAIN data THEN data[sect] ELSE NoKeys

\* f with value at key, new or not.
Assigned(f, key, value) == [k \in DOMAIN f \union {key} |-> IF k = key THEN value ELSE f[k]]

set(data, sect, key, value) ==
  Assigned(data, sect, Assigned(KeysOf(data, sect), key, value))

\* A key a section already has keeps its first value; a map's operator[], which
\* older compilers are given, would keep the last.
EmplacedLast(data, sect, key, value) == set(data, sect, key, value)
Emplaced(data, sect, key, value) ==
  LET keys == KeysOf(data, sect)
  IN Assigned(data, sect, IF key \in DOMAIN keys THEN keys ELSE Assigned(keys, key, value))

\* One line, read in section st.in; before the first that is the section "".
ReadLine(st, raw) ==
  LET line == trim(Uncommented(raw), TRUE, TRUE)
      n == Len(line)
      equals == Signs(line, "=")
  IN IF line = <<>> THEN st
     ELSE IF line[1] = "[" /\ line[n] = "]"
       THEN LET name == trim(SubSeq(line, 2, n - 1), TRUE, TRUE) IN
              [in |-> name, data |-> Assigned(st.data, name, KeysOf(st.data, name))]
     ELSE IF equals = {} THEN [st EXCEPT !.data = Emplaced(@, st.in, line, <<>>)]
     ELSE LET key == trim(Before(line, equals), FALSE, TRUE)
              value == trim(SubSeq(line, Min(equals) + 1, n), TRUE, FALSE)
          IN [st EXCEPT !.data = Emplaced(@, st.in, key, value)]

\* basic_ini::read_file; a section that comes back later is continued.
Parsed(file) ==
  LET st[k \in 0 .. Len(file)] ==
        IF k = 0 THEN [in |-> <<>>, data |-> [s \in {} |-> NoKeys]]
        ELSE ReadLine(st[k - 1], file[k])
  IN st[Len(file)].data

\* write_file: of the comments and the order of the file nothing is left.
KeyLine(key, value) == IF value = <<>> THEN key ELSE key \o <<Space, "=", Space>> \o value

Written(data) ==
  LET KeyLines(sect) ==
        LET keys == SetToSeq(DOMAIN data[sect])
        IN [i \in DOMAIN keys |-> KeyLine(keys[i], data[sect][keys[i]])]
      sections == SetToSeq(DOMAIN data)
  IN FlattenSeq([i \in DOMAIN sections |->
       (IF i = 1 THEN <<>> ELSE <<<<>>>>)
         \o <<<<"[">> \o sections[i] \o <<"]">>>> \o KeyLines(sections[i])])

-------------------------------------------------------------------------------
(***************************************************************************)
(* CIniReader.  k is <<section, key>>, each a word.                        *)
(***************************************************************************)
Has(data, k) == <<k[1]>> \in DOMAIN data /\ <<k[2]>> \in DOMAIN data[<<k[1]>>]

Get(data, k) == data[<<k[1]>>][<<k[2]>>]

\* What follows the number is ignored; a value that does not begin with one
\* is an exception, and the default.
ReadInteger(data, k, default) ==
  IF Has(data, k) /\ Get(data, k) # <<>> /\ Get(data, k)[1] \in DOMAIN Number
    THEN Number[Get(data, k)[1]] ELSE default

\* Only 0 and false, in any case and without quotes, are false.
No == {<<"0">>} \union {<<w>> : w \in FalseWords}

ReadBoolean(data, k, default) ==
  IF Has(data, k) THEN Get(data, k) \notin No ELSE default

\* A quote on either side is stripped; where nothing is left to look at, that
\* is an exception, and the default.
ReadString(data, k, default) ==
  LET v == IF Has(data, k) THEN Get(data, k) ELSE <<>>
      open == IF v # <<>> /\ v[1] \in Quote THEN Tail(v) ELSE v
      text == IF open # <<>> /\ open[Len(open)] \in Quote THEN Front(open) ELSE open
  IN IF open = <<>> THEN default ELSE text

\* WriteInteger, WriteFloat, WriteBoolean and WriteString with useparser.
Write(file, k, value) == Written(set(Parsed(file), <<k[1]>>, <<k[2]>>, value))
===============================================================================
