-------------------------------- MODULE SlotPool --------------------------------
(***************************************************************************)
(* What the trampoline allocator (buffer.c) promises: a slot is somebody's *)
(* or free, a free one is handed out, a held one comes back, and            *)
(* uninitialising takes them all.  MinHook takes its slots from such a set. *)
(***************************************************************************)
CONSTANTS Slot, NULL

VARIABLES
  free,    \* slots nobody holds
  result   \* what the last request returned, NULL until then

Init == free = Slot /\ result = NULL

Ask == result' = NULL /\ UNCHANGED free

Take == \E s \in free : result' = s /\ free' = free \ {s}

GiveBack == \E s \in Slot \ free : free' = free \union {s} /\ result' = NULL

GiveBackAll == free' = Slot /\ result' = NULL

Next == Ask \/ Take \/ GiveBack \/ GiveBackAll

Spec == Init /\ [][Next]_<<free, result>>
================================================================================
