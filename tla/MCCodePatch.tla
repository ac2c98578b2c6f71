----------------------------- MODULE MCCodePatch -----------------------------
(***************************************************************************)
(* Small images for CodePatch: one site per pattern, and two for one of    *)
(* them, which is what tells "every match" from "the first match".         *)
(***************************************************************************)
EXTENDS CodePatch

\* The cells a matching function has in the executable.  Wildcards get values
\* of their own, the addresses of globals among them.
SampleCode ==
  << [op |-> 139, imm |-> 13 + 256 * 43222, ret |-> 0,   arg |-> <<1, 2, 3, 4>>],
     [op |-> 161, imm |-> 11103972,         ret |-> 83,  arg |-> <<1, 2, 3, 4>>],
     [op |-> 232, imm |-> -2549501,         ret |-> 131, arg |-> <<1, 2, 3, 4>>],
     [op |-> 184, imm |-> 4400,             ret |-> 232, arg |-> <<1, 2, 3, 4>>],
     [op |-> 85,  imm |-> -9769845,         ret |-> 104, arg |-> <<1, 2, 3, 4>>] >>

\* Address order differs from scan order.
KindsTwoLanguage == <<Language, Episode4, InitNP, Language, PreInitNP, IME>>

ImageTwoLanguage == [i \in 1 .. 6 |-> SampleCode[KindsTwoLanguage[i]]]
=============================================================================
