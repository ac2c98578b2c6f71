-------------------------------- MODULE MCCommon --------------------------------
(***************************************************************************)
(* The algorithms of the common library.  A behaviour is one of a pattern  *)
(* object or one of a lookup in a module's headers.                        *)
(*                                                                         *)
(* Patterns: every pattern of up to three bytes and wildcards over an      *)
(* alphabet of two, on every module of six such bytes with one of the      *)
(* section tables, so that six, four or two of them are searched.          *)
(***************************************************************************)
EXTENDS PatternInput, PeLookup

TwoBytes == {0, 1}
SmallPatterns == UNION {[1 .. n -> TwoBytes \union {Wild}] : n \in 1 .. 3}

Section(at, raw, virtual, x) ==
  [VirtualAddress |-> at, SizeOfRawData |-> raw, VirtualSize |-> virtual,
   PointerToRawData |-> at, execute |-> x]

SectionTables ==
  {<<Section(0, 6, 6, TRUE)>>,
   <<Section(0, 2, 2, TRUE), Section(3, 3, 3, TRUE)>>,
   <<Section(0, 2, 2, FALSE), Section(2, 0, 2, TRUE), Section(4, 2, 2, FALSE)>>,
   <<Section(0, 1, 2, TRUE), Section(2, 2, 1, TRUE), Section(4, 2, 2, FALSE)>>,
   <<Section(0, 2, 6, TRUE)>>,
   <<Section(0, 1, 3, TRUE), Section(4, 2, 2, TRUE)>>,
   <<Section(0, 1, 1, FALSE), Section(1, 5, 5, FALSE)>>}
SmallModules == [mem : [1 .. 6 -> TwoBytes], sections : SectionTables]
SmallImages == {Searched(mo) : mo \in SmallModules}

(***************************************************************************)
(* Exports: of A, up to three of the names 2, 4, 6, in either order of     *)
(* their functions, with one function that is code, missing, or forwarded, *)
(* to a module that there is not, too; of B, functions that are code, or   *)
(* forwarded back to A, on to C, which is not loaded, or in a circle.      *)
(***************************************************************************)
ByName(n) == [by |-> "name", of |-> n]
ByOrdinalNumber(n) == [by |-> "ordinal", of |-> n]

A == "A"
B == "B"
C == "C"
ThreeDlls == {A, B, C}
LoadedAtStart == {A, B}

Names == {<<>>, <<4>>, <<2, 6>>, <<2, 4, 6>>}
Index(s, flip) == [k \in DOMAIN s |-> IF flip THEN Len(s) - k ELSE k - 1]
LastOfA == {Nowhere, Code(3), Forward(B, ByName(4)), Forward(B, ByOrdinalNumber(2)),
            Forward(C, ByName(4)), Forward(Missing, ByName(4))}
FirstOfB == {Code(4), Forward(A, ByName(2)), Forward(C, ByOrdinalNumber(1)),
             Forward(C, ByOrdinalNumber(0))}

SmallExports ==
  {[d \in ThreeDlls |->
      CASE d = A -> [base |-> 5, names |-> s, ordinals |-> Index(s, flip),
                     functions |-> <<Code(1), Code(2), last>>]
        [] d = B -> [base |-> 1, names |-> <<4>>, ordinals |-> <<0>>, functions |-> <<first, Code(5)>>]
        [] d = C -> [base |-> 0, names |-> <<4>>, ordinals |-> <<1>>, functions |-> <<Code(6), Code(7)>>]] :
   s \in Names, flip \in BOOLEAN, last \in LastOfA, first \in FirstOfB}

ImportOrdinal(n) == [by |-> "ordinal", of |-> n, rva |-> 0]
ImportName(n, rva) == [by |-> "name", of |-> n, rva |-> rva]
SmallImports ==
  {<<[dll |-> B, thunks |-> <<ImportOrdinal(2), ImportOrdinal(1)>>],
     [dll |-> A, thunks |-> <<ImportOrdinal(5)>>], [dll |-> A, thunks |-> ts]>> :
   ts \in {<<ImportOrdinal(7), ImportOrdinal(6)>>, <<ImportOrdinal(7), ImportOrdinal(9)>>,
           <<ImportName(2, 4096), ImportOrdinal(6)>>, <<ImportName(2, 70000), ImportOrdinal(6)>>}}

SmallRequests == {ByName(n) : n \in {1, 2, 4, 5, 6, 7}}
                   \union {ByOrdinalNumber(n) : n \in {0, 1, 4, 5, 7, 8}}

-------------------------------------------------------------------------------
\* Which of the two runs: the other's variables keep one value.
NoPattern == image = <<0, 0>> /\ pattern = <<0>> /\ Init
NoLookup ==
  /\ imports = CHOOSE x \in ImportTables : TRUE
  /\ exports = CHOOSE x \in ExportTables : TRUE
  /\ PeInit

VARIABLE machine

MCInit == \/ machine = "pattern" /\ Init /\ NoLookup
          \/ machine = "lookup" /\ NoPattern /\ PeInit

MCNext ==
  \/ machine = "pattern" /\ Next /\ UNCHANGED <<pevars, machine>>
  \/ machine = "lookup" /\ PeNext /\ UNCHANGED <<vars, machine>>

MCSpec ==
  /\ MCInit /\ [][MCNext]_<<vars, pevars, machine>>
  /\ WF_vars(machine = "pattern" /\ Scan /\ UNCHANGED <<pevars, machine>>)
  /\ WF_pevars(machine = "lookup" /\ Lookup /\ UNCHANGED <<vars, machine>>)
===============================================================================
