-------------------------------- MODULE HookApi --------------------------------
(***************************************************************************)
(* What the hooking library promises its callers, one state per target     *)
(* function: MinHook.h's error codes and hook states, without locks,       *)
(* suspended threads or code bytes.  A call that concerns one target takes *)
(* effect at once or not at all; a call that concerns all of them switches *)
(* hooks one after the other and may stop on the way.                      *)
(***************************************************************************)
EXTENDS Naturals

CONSTANTS
  Thread,     \* callers
  Target,     \* functions that may be hooked
  AllHooks    \* MH_ALL_HOOKS

Op == {"Initialize", "Uninitialize", "Create", "Remove", "Enable", "Disable",
       "QueueEnable", "QueueDisable", "Apply"}

\* The arguments an operation takes; "Apply" and the first two take none.
Args(o) ==
  IF o \in {"Create", "Remove"} THEN Target
  ELSE IF o \in {"Initialize", "Uninitialize", "Apply"} THEN {AllHooks}
  ELSE Target \union {AllHooks}

VARIABLES
  live,     \* the library is initialised
  hook,     \* "none", "off" or "on", per target
  queued,   \* the state a target is queued for
  call      \* per thread: operation, argument and status, or NoCall

apivars == <<live, hook, queued, call>>

NoCall  == [op |-> "none", arg |-> AllHooks, status |-> "none"]
Pending(t, o) == call[t].op = o /\ call[t].status = "pending"

Init ==
  /\ live = FALSE
  /\ hook = [f \in Target |-> "none"]
  /\ queued = [f \in Target |-> FALSE]
  /\ call = [t \in Thread |-> NoCall]

Begin(t, o, a) ==
  /\ call[t] = NoCall
  /\ call' = [call EXCEPT ![t] = [op |-> o, arg |-> a, status |-> "pending"]]
  /\ UNCHANGED <<live, hook, queued>>

\* The call of t is over, with this status.
Answer(t, s) == call' = [call EXCEPT ![t].status = s]

Return(t) ==
  /\ call[t].status \notin {"pending", "none"}
  /\ call' = [call EXCEPT ![t] = NoCall]
  /\ UNCHANGED <<live, hook, queued>>

\* Nothing but MH_Initialize works before MH_Initialize.
Refuse(t) ==
  /\ call[t].status = "pending" /\ call[t].op # "Initialize" /\ ~live
  /\ Answer(t, "NOT_INITIALIZED")
  /\ UNCHANGED <<live, hook, queued>>

Initialize(t) ==
  /\ Pending(t, "Initialize")
  /\ \/ ~live /\ live' = TRUE /\ Answer(t, "OK")
     \/ ~live /\ live' = live /\ Answer(t, "MEMORY_ALLOC")
     \/ live  /\ live' = live /\ Answer(t, "ALREADY_INITIALIZED")
  /\ UNCHANGED <<hook, queued>>

Create(t) ==
  /\ Pending(t, "Create") /\ live
  /\ LET f == call[t].arg IN
     \/ /\ hook[f] = "none"
        /\ hook' = [hook EXCEPT ![f] = "off"]
        /\ queued' = [queued EXCEPT ![f] = FALSE]
        /\ Answer(t, "OK")
     \/ /\ \/ hook[f] # "none" /\ Answer(t, "ALREADY_CREATED")
           \/ Answer(t, "NOT_EXECUTABLE")
           \/ hook[f] = "none" /\ \E s \in {"MEMORY_ALLOC", "UNSUPPORTED_FUNCTION"} :
                                    Answer(t, s)
        /\ UNCHANGED <<hook, queued>>
  /\ UNCHANGED live

\* The state operation o drives the hook on f to.
Goal(o, f) == IF o = "Apply" THEN queued[f] ELSE o = "Enable"

\* The targets the call of t concerns, and those of them still to switch.
Concerned(t) ==
  {f \in Target : hook[f] # "none" /\ call[t].arg \in {f, AllHooks}}
Unswitched(t) ==
  {f \in Concerned(t) : (hook[f] = "on") # Goal(call[t].op, f)}

Switching(t) ==
  \E o \in {"Enable", "Disable", "Apply", "Remove", "Uninitialize"} : Pending(t, o)

SwitchTo(f, on) ==
  /\ hook' = [hook EXCEPT ![f] = IF on THEN "on" ELSE "off"]
  /\ queued' = [queued EXCEPT ![f] = on]

\* One hook of a call that goes on: MH_ALL_HOOKS, MH_ApplyQueued, and the
\* disabling inside MH_RemoveHook and MH_Uninitialize.
SwitchOne(t) ==
  /\ Switching(t) /\ live
  /\ call[t].arg = AllHooks \/ call[t].op = "Remove"
  /\ \E f \in Unswitched(t) : SwitchTo(f, Goal(call[t].op, f))
  /\ UNCHANGED <<live, call>>

\* MH_EnableHook and MH_DisableHook of one target.
Switch(t) ==
  /\ live /\ (Pending(t, "Enable") \/ Pending(t, "Disable"))
  /\ LET f == call[t].arg IN
     /\ f \in Target
     /\ \/ /\ Unswitched(t) = {f}
           /\ SwitchTo(f, Goal(call[t].op, f)) /\ Answer(t, "OK")
        \/ /\ \/ hook[f] = "none" /\ Answer(t, "NOT_CREATED")
              \/ /\ hook[f] # "none" /\ Unswitched(t) = {}
                 /\ Answer(t, IF call[t].op = "Enable" THEN "ENABLED" ELSE "DISABLED")
           /\ UNCHANGED <<hook, queued>>
  /\ UNCHANGED live

\* A call for all hooks succeeds when every hook is as it should be.
AllSwitched(t) ==
  /\ live /\ call[t].arg = AllHooks /\ Unswitched(t) = {}
  /\ Pending(t, "Enable") \/ Pending(t, "Disable") \/ Pending(t, "Apply")
  /\ Answer(t, "OK")
  /\ UNCHANGED <<live, hook, queued>>

\* Threads could not be listed, or the code not be made writable.
SwitchFails(t) ==
  /\ Switching(t) /\ live /\ Unswitched(t) # {}
  /\ \E s \in {"MEMORY_ALLOC", "MEMORY_PROTECT"} : Answer(t, s)
  /\ UNCHANGED <<live, hook, queued>>

Remove(t) ==
  /\ Pending(t, "Remove") /\ live
  /\ LET f == call[t].arg IN
     \/ /\ hook[f] = "off" /\ hook' = [hook EXCEPT ![f] = "none"]
        /\ Answer(t, "OK")
        /\ queued' = [queued EXCEPT ![f] = FALSE]
     \/ hook[f] = "none" /\ Answer(t, "NOT_CREATED") /\ UNCHANGED <<hook, queued>>
  /\ UNCHANGED live

Uninitialize(t) ==
  /\ Pending(t, "Uninitialize") /\ live /\ Unswitched(t) = {}
  /\ live' = FALSE
  /\ hook' = [f \in Target |-> "none"]
  /\ queued' = [f \in Target |-> FALSE]
  /\ Answer(t, "OK")

Queue(t) ==
  /\ live /\ (Pending(t, "QueueEnable") \/ Pending(t, "QueueDisable"))
  /\ IF Concerned(t) = {} /\ call[t].arg # AllHooks
       THEN Answer(t, "NOT_CREATED") /\ UNCHANGED queued
       ELSE /\ queued' = [f \in Target |-> IF f \in Concerned(t)
                            THEN call[t].op = "QueueEnable" ELSE queued[f]]
            /\ Answer(t, "OK")
  /\ UNCHANGED <<live, hook>>

Next ==
  \E t \in Thread :
    \/ \E o \in Op : \E a \in Args(o) : Begin(t, o, a)
    \/ Refuse(t)
    \/ Initialize(t) \/ Uninitialize(t)
    \/ Create(t) \/ Remove(t)
    \/ Switch(t) \/ SwitchOne(t) \/ AllSwitched(t) \/ SwitchFails(t)
    \/ Queue(t)
    \/ Return(t)

Spec == Init /\ [][Next]_apivars
===============================================================================
