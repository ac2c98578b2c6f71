------------------------------ MODULE MCMinHook ------------------------------
(***************************************************************************)
(* Small programs for MinHook: two targets, one of them hooked through the *)
(* hot patch area, and one slot for each.                                  *)
(***************************************************************************)
EXTENDS MinHook, TLC

AllOps == Api!Op

\* What AzureFlare calls, and what it might: it never disables or removes.
EnablingOps == {"Initialize", "Create", "Enable", "QueueEnable", "Apply"}

AllFailures == Fallible

\* A ResumeThread that fails leaves its thread suspended for good: the code
\* has no answer to that one.
AnsweredFailures == Fallible \ {"ResumeThread"}

Symmetry == Permutations(Thread) \union Permutations(Slot)
=============================================================================
