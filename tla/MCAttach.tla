------------------------------- MODULE MCAttach -------------------------------
(***************************************************************************)
(* A buffer of ten bytes, for which the path is too short, just right or   *)
(* too long; a source with bytes has_zero could take for zeros (1) or for  *)
(* negative (255); stacks whose first zero is inside the buffer, at its    *)
(* end, and behind it.                                                     *)
(***************************************************************************)
EXTENDS Attach

SmallSource == <<92, 1, 255, 1, 76, 1>>
SmallWindirs == {[i \in 1 .. n |-> 67] : n \in 0 .. 11}
SmallStacks == {[p \in 0 .. Top |-> IF p = end THEN 0 ELSE 204] : end \in {0, 3, 9, 10, 12}}
SmallBeyond == {0, 1}
===============================================================================
