-------------------------------- MODULE MinHook --------------------------------
(***************************************************************************)
(* The engine of the vendored hooking library (hook.c, x86 build).         *)
(*                                                                         *)
(* Any thread may call the API; a spin lock lets one call in at a time.    *)
(* A call that changes code first freezes the process: it lists the other  *)
(* threads, suspends them one by one and, while a thread is suspended,     *)
(* moves its instruction pointer out of the bytes about to change.  Then   *)
(* it writes the jump, or the saved bytes, and resumes everybody.          *)
(*                                                                         *)
(* Threads not in a call run the target functions, so the module also      *)
(* follows where each of them executes:                                    *)
(*   <<"out">>            anywhere else                                    *)
(*   <<"target", f, i>>   at boundary i of the bytes the jump overwrites   *)
(*   <<"above", f>>       at the long jump in the hot patch area           *)
(*   <<"detour", f>>      in the detour, before it calls the original      *)
(*   <<"slot", s, i>>     at boundary i of the trampoline in slot s; the   *)
(*                        last boundary is the jump back                   *)
(***************************************************************************)
EXTENDS Naturals, Sequences, FiniteSets, SequencesExt

CONSTANTS
  Thread, Target, AllHooks,
  Slot,        \* the trampoline slots within reach of the targets
  Above,       \* targets too short for five bytes: hooked through the hot patch area
  Called,      \* targets the program's threads call
  Ops,         \* the operations the program uses
  Failures,    \* the calls that may fail (see Fallible)
  None         \* no thread, no slot

Api == INSTANCE HookApi WITH live <- FALSE, hook <- <<>>, queued <- <<>>, call <- <<>>

ASSUME TargetAssumption ==
  Above \subseteq Target /\ Called \subseteq Target /\ AllHooks \notin Target
ASSUME NoneAssumption == None \notin Thread \union Slot

\* The operating system's refusals the code has a branch for, or none.
Fallible ==
  {"HeapCreate", "IsExecutableAddress", "AllocateBuffer", "CreateTrampolineFunction",
   "AddHookEntry", "EnumerateThreads", "SuspendThread", "GetThreadContext", "VirtualProtect", "ResumeThread"}

ASSUME OpsAssumption == Ops \subseteq Api!Op /\ Failures \subseteq Fallible

VARIABLES
  g_isLocked,   \* the thread that holds the spin lock, if any
  g_hHeap,      \* is there a private heap?
  g_hooks,      \* the hook entries
  free,         \* slots not handed out (buffer.c)
  jump,         \* targets whose first bytes are the jump
  original,     \* what MH_CreateHook last stored through ppOriginal
  call,         \* per thread: operation, argument, step and status
  left, frozen, \* the holder's list of threads: still to suspend, to resume
  idx,          \* the entry the holder is at
  suspended,    \* threads the operating system does not run
  ip,           \* where each thread executes
  missed        \* threads a freeze has overlooked, until they are out of the way (history)

vars == <<g_isLocked, g_hHeap, g_hooks, free, jump, original, call,
          left, frozen, idx, suspended, ip, missed>>

Idle == [op |-> "none", arg |-> AllHooks, step |-> "idle", status |-> "none"]

-------------------------------------------------------------------------------
(***************************************************************************)
(* Hook entries.                                                           *)
(***************************************************************************)
NewEntry(f, s) == [target |-> f, slot |-> s, enabled |-> FALSE, queue |-> FALSE]

\* What EnableHookLL leaves in an entry.
SwitchedKeepsQueue(h, on) == [h EXCEPT !.enabled = on]
Switched(h, on) == [h EXCEPT !.enabled = on, !.queue = on]

\* FindHookEntry; 0 is INVALID_HOOK_POS.
Find(f) ==
  IF \E i \in DOMAIN g_hooks : g_hooks[i].target = f
    THEN CHOOSE i \in DOMAIN g_hooks : g_hooks[i].target = f ELSE 0

\* DeleteHookEntry: the last entry takes the place of the deleted one.
Deleted(i) ==
  IF i < Len(g_hooks) THEN [Front(g_hooks) EXCEPT ![i] = Last(g_hooks)]
                      ELSE Front(g_hooks)

\* The state a call wants an entry in.
Wanted(c, h) == IF c.op = "Apply" THEN h.queue ELSE c.op = "Enable"

\* The action MH_EnableHook and MH_DisableHook pass on to Freeze for a single
\* target is ACTION_ENABLE, whichever of the two was called.
FreezeWants(c, h) ==
  IF c.op \in {"Enable", "Disable"} /\ c.arg # AllHooks THEN TRUE ELSE Wanted(c, h)

\* The entries a call goes through: its target's, or all of them.
First(c) == IF c.arg = AllHooks THEN 1 ELSE Find(c.arg)
Final(c) == IF c.arg = AllHooks THEN Len(g_hooks) ELSE Find(c.arg)

\* FindNewIP and FindOldIP.
NewIPOneShort(h, p) ==
  {<<"slot", h.slot, i>> : i \in {j \in 0 .. 0 : p = <<"target", h.target, j>>}}
NewIP(h, p) ==
  {<<"slot", h.slot, i>> : i \in {j \in 0 .. 1 : p = <<"target", h.target, j>>}}
OldIP(h, p) ==
  IF h.target \in Above /\ p = <<"above", h.target>>
    THEN {<<"target", h.target, 0>>}
    ELSE {IF i = 2 THEN <<"out">> ELSE <<"target", h.target, i>> :
            i \in {j \in 0 .. 2 : p = <<"slot", h.slot, j>>}}

\* ProcessThreadIPs on a thread suspended at p.
Relocated(c, p) ==
  LET moves == UNION {
        LET h == g_hooks[i] IN
          IF h.enabled = FreezeWants(c, h) THEN {}
          ELSE IF FreezeWants(c, h) THEN NewIP(h, p) ELSE OldIP(h, p) :
        i \in First(c) .. Final(c)}
  IN IF moves = {} THEN p ELSE CHOOSE q \in moves : TRUE

-------------------------------------------------------------------------------
Init ==
  /\ g_isLocked = None
  /\ g_hHeap = FALSE
  /\ g_hooks = <<>>
  /\ free = Slot
  /\ jump = {}
  /\ original = [f \in Target |-> None]
  /\ call = [t \in Thread |-> Idle]
  /\ left = {} /\ frozen = {} /\ idx = 0
  /\ suspended = {}
  /\ ip = [t \in Thread |-> <<"out">>]
  /\ missed = {}

-------------------------------------------------------------------------------
(***************************************************************************)
(* Threads running the hooked program.                                     *)
(***************************************************************************)
Runs(t) == t \notin suspended /\ call[t].step = "idle"

MoveTo(t, p) ==
  /\ ip' = [ip EXCEPT ![t] = p]
  /\ missed' = IF p = <<"out">> /\ g_isLocked = None THEN missed \ {t} ELSE missed
  /\ UNCHANGED <<g_isLocked, g_hHeap, g_hooks, free, jump, original, call,
                 left, frozen, idx, suspended>>

CallTarget(t, f) == Runs(t) /\ ip[t] = <<"out">> /\ MoveTo(t, <<"target", f, 0>>)

\* At the first instruction of f: its own, or the jump.
StepTarget(t, f) ==
  /\ Runs(t) /\ ip[t] = <<"target", f, 0>>
  /\ MoveTo(t, IF f \notin jump THEN <<"target", f, 1>>
               ELSE IF f \in Above THEN <<"above", f>> ELSE <<"detour", f>>)

LeaveTarget(t, f) ==
  Runs(t) /\ ip[t] = <<"target", f, 1>> /\ f \notin jump /\ MoveTo(t, <<"out">>)

LongJump(t, f) ==
  Runs(t) /\ ip[t] = <<"above", f>> /\ f \in jump /\ MoveTo(t, <<"detour", f>>)

\* The detour returns, or calls the original through the pointer it was given.
LeaveDetour(t, f) ==
  /\ Runs(t) /\ ip[t] = <<"detour", f>>
  /\ \/ MoveTo(t, <<"out">>)
     \/ original[f] # None /\ MoveTo(t, <<"slot", original[f], 0>>)

StepTrampoline(t, s) ==
  /\ Runs(t) /\ s \notin free
  /\ \/ \E i \in 0 .. 1 : ip[t] = <<"slot", s, i>> /\ MoveTo(t, <<"slot", s, i + 1>>)
     \/ ip[t] = <<"slot", s, 2>> /\ MoveTo(t, <<"out">>)

Run(t) ==
  \/ \E f \in Called :
       CallTarget(t, f) \/ StepTarget(t, f) \/ LeaveTarget(t, f)
         \/ LongJump(t, f) \/ LeaveDetour(t, f)
  \/ \E s \in Slot : StepTrampoline(t, s)

-------------------------------------------------------------------------------
(***************************************************************************)
(* The API.  Everything between Acquire and LeaveSpinLock is done by the   *)
(* thread that holds the lock.                                             *)
(***************************************************************************)
At(t, step) == t \notin suspended /\ call[t].step = step
In(t, o) == At(t, "body") /\ call[t].op = o

Goto(t, step) == call' = [call EXCEPT ![t].step = step]
Answer(t, s) == call' = [call EXCEPT ![t].step = "leave", ![t].status = s]

BeginCall(t, o, a) ==
  /\ Runs(t) /\ ip[t] = <<"out">>
  /\ call' = [call EXCEPT ![t] =
                [op |-> o, arg |-> a, step |-> "spin", status |-> "pending"]]
  /\ UNCHANGED <<g_isLocked, g_hHeap, g_hooks, free, jump, original,
                 left, frozen, idx, suspended, ip, missed>>

EnterSpinLock(t) ==
  /\ At(t, "spin") /\ g_isLocked = None
  /\ g_isLocked' = t
  /\ Goto(t, "body")
  /\ UNCHANGED <<g_hHeap, g_hooks, free, jump, original,
                 left, frozen, idx, suspended, ip, missed>>

\* The last thing a call does before it returns its status.
LeaveSpinLock(t) ==
  /\ At(t, "leave")
  /\ g_isLocked' = None
  /\ call' = [call EXCEPT ![t] = Idle]
  /\ UNCHANGED <<g_hHeap, g_hooks, free, jump, original,
                 left, frozen, idx, suspended, ip, missed>>

\* A call that only looks.
Refuse(t, s) ==
  /\ Answer(t, s)
  /\ UNCHANGED <<g_isLocked, g_hHeap, g_hooks, free, jump, original,
                 left, frozen, idx, suspended, ip, missed>>

NotInitialized(t) ==
  /\ At(t, "body") /\ call[t].op # "Initialize" /\ ~g_hHeap
  /\ Refuse(t, "NOT_INITIALIZED")

MH_Initialize(t) ==
  /\ In(t, "Initialize")
  /\ \/ g_hHeap /\ Refuse(t, "ALREADY_INITIALIZED")
     \/ ~g_hHeap /\ "HeapCreate" \in Failures /\ Refuse(t, "MEMORY_ALLOC")
     \/ /\ ~g_hHeap
        /\ g_hHeap' = TRUE
        /\ Answer(t, "OK")
        /\ UNCHANGED <<g_isLocked, g_hooks, free, jump, original,
                       left, frozen, idx, suspended, ip, missed>>

FreeBuffer(slots, s) == slots \union {s}

GiveBackNothing(t, s, status) ==
  /\ free' = free \ {s}
  /\ Answer(t, status)
  /\ UNCHANGED <<g_isLocked, g_hHeap, g_hooks, jump, original,
                 left, frozen, idx, suspended, ip, missed>>

\* The slot taken for a hook goes back when a later part fails.
GiveBack(t, s, status) ==
  /\ free' = FreeBuffer(free \ {s}, s)
  /\ Answer(t, status)
  /\ UNCHANGED <<g_isLocked, g_hHeap, g_hooks, jump, original,
                 left, frozen, idx, suspended, ip, missed>>

MH_CreateHook(t) ==
  /\ In(t, "Create") /\ g_hHeap
  /\ LET f == call[t].arg IN
     \/ "IsExecutableAddress" \in Failures /\ Refuse(t, "NOT_EXECUTABLE")
     \/ Find(f) # 0 /\ Refuse(t, "ALREADY_CREATED")
     \/ /\ Find(f) = 0 /\ (free = {} \/ "AllocateBuffer" \in Failures)
        /\ Refuse(t, "MEMORY_ALLOC")
     \/ /\ Find(f) = 0 /\ "CreateTrampolineFunction" \in Failures
        /\ \E s \in free : GiveBack(t, s, "UNSUPPORTED_FUNCTION")
     \/ /\ Find(f) = 0 /\ "AddHookEntry" \in Failures
        /\ \E s \in free : GiveBack(t, s, "MEMORY_ALLOC")
     \/ /\ Find(f) = 0
        /\ \E s \in free :
             /\ free' = free \ {s}
             /\ g_hooks' = Append(g_hooks, NewEntry(f, s))
             /\ original' = [original EXCEPT ![f] = s]
        /\ Answer(t, "OK")
        /\ UNCHANGED <<g_isLocked, g_hHeap, jump,
                       left, frozen, idx, suspended, ip, missed>>

\* Freeze begins: the other threads are listed.
Freeze(t) ==
  \/ /\ left' = Thread \ {t}
     /\ idx' = First(call[t])
     /\ Goto(t, "suspend")
     /\ UNCHANGED <<g_isLocked, g_hHeap, g_hooks, free, jump, original,
                    frozen, suspended, ip, missed>>
  \/ "EnumerateThreads" \in Failures /\ Refuse(t, "MEMORY_ALLOC")

\* MH_EnableHook and MH_DisableHook of one target.
EnableHook(t) ==
  /\ In(t, "Enable") \/ In(t, "Disable")
  /\ g_hHeap /\ call[t].arg # AllHooks
  /\ LET i == Find(call[t].arg)
         enable == call[t].op = "Enable"
     IN \/ i = 0 /\ Refuse(t, "NOT_CREATED")
        \/ /\ i # 0 /\ g_hooks[i].enabled = enable
           /\ Refuse(t, IF enable THEN "ENABLED" ELSE "DISABLED")
        \/ i # 0 /\ g_hooks[i].enabled # enable /\ Freeze(t)

\* EnableAllHooksLL and MH_ApplyQueued: freeze only if something changes.
EnableAllHooksLL(t) ==
  /\ In(t, "Enable") \/ In(t, "Disable") \/ In(t, "Apply") \/ In(t, "Uninitialize")
  /\ g_hHeap /\ call[t].arg = AllHooks
  /\ IF \E i \in DOMAIN g_hooks : g_hooks[i].enabled # Wanted(call[t], g_hooks[i])
       THEN Freeze(t)
       ELSE IF call[t].op = "Uninitialize"
         THEN /\ Goto(t, "finish")
              /\ UNCHANGED <<g_isLocked, g_hHeap, g_hooks, free, jump, original,
                             left, frozen, idx, suspended, ip, missed>>
         ELSE Refuse(t, "OK")

MH_RemoveHookLive(t) ==
  /\ In(t, "Remove") /\ g_hHeap
  /\ IF Find(call[t].arg) = 0 THEN Refuse(t, "NOT_CREATED")
     ELSE /\ Goto(t, "finish")
          /\ UNCHANGED <<g_isLocked, g_hHeap, g_hooks, free, jump, original,
                         left, frozen, idx, suspended, ip, missed>>

MH_RemoveHook(t) ==
  /\ In(t, "Remove") /\ g_hHeap
  /\ LET i == Find(call[t].arg) IN
     \/ i = 0 /\ Refuse(t, "NOT_CREATED")
     \/ i # 0 /\ g_hooks[i].enabled /\ Freeze(t)
     \/ /\ i # 0 /\ ~g_hooks[i].enabled
        /\ Goto(t, "finish")
        /\ UNCHANGED <<g_isLocked, g_hHeap, g_hooks, free, jump, original,
                       left, frozen, idx, suspended, ip, missed>>

QueueHook(t) ==
  /\ In(t, "QueueEnable") \/ In(t, "QueueDisable")
  /\ g_hHeap
  /\ IF call[t].arg # AllHooks /\ Find(call[t].arg) = 0
       THEN Refuse(t, "NOT_CREATED")
       ELSE /\ g_hooks' = [i \in DOMAIN g_hooks |->
                 IF call[t].arg \in {AllHooks, g_hooks[i].target}
                   THEN [g_hooks[i] EXCEPT !.queue = (call[t].op = "QueueEnable")]
                   ELSE g_hooks[i]]
            /\ Answer(t, "OK")
            /\ UNCHANGED <<g_isLocked, g_hHeap, free, jump, original,
                           left, frozen, idx, suspended, ip, missed>>

\* One thread of the list: suspended and its IP moved; or suspended where it
\* is; or the system refuses, or the thread is newer than the list, and it runs on.
SuspendThread(t, u) ==
  /\ At(t, "suspend") /\ u \in left
  /\ left' = left \ {u}
  /\ \/ /\ suspended' = suspended \union {u}
        /\ frozen' = frozen \union {u}
        /\ ip' = [ip EXCEPT ![u] = Relocated(call[t], @)]
        /\ UNCHANGED missed
     \/ /\ "GetThreadContext" \in Failures
        /\ suspended' = suspended \union {u}
        /\ frozen' = frozen \union {u}
        /\ missed' = missed \union {u}
        /\ UNCHANGED ip
     \/ /\ "SuspendThread" \in Failures
        /\ missed' = missed \union {u}
        /\ UNCHANGED <<suspended, frozen, ip>>
  /\ UNCHANGED <<g_isLocked, g_hHeap, g_hooks, free, jump, original, call, idx>>

AllSuspendedEarly(t) ==
  /\ At(t, "suspend")
  /\ Goto(t, "write")
  /\ UNCHANGED <<g_isLocked, g_hHeap, g_hooks, free, jump, original,
                 left, frozen, idx, suspended, ip, missed>>

AllSuspended(t) ==
  /\ At(t, "suspend") /\ left = {}
  /\ Goto(t, "write")
  /\ UNCHANGED <<g_isLocked, g_hHeap, g_hooks, free, jump, original,
                 left, frozen, idx, suspended, ip, missed>>

\* The loop over the entries passes over one that is as wanted.
SkipEntry(t) ==
  /\ At(t, "write") /\ idx <= Final(call[t])
  /\ g_hooks[idx].enabled = Wanted(call[t], g_hooks[idx])
  /\ idx' = idx + 1
  /\ UNCHANGED <<g_isLocked, g_hHeap, g_hooks, free, jump, original, call,
                 left, frozen, suspended, ip, missed>>

\* EnableHookLL on the entry the loop is at.
EnableHookLL(t) ==
  /\ At(t, "write") /\ idx <= Final(call[t])
  /\ LET h  == g_hooks[idx]
         on == Wanted(call[t], h)
     IN /\ h.enabled # on
        /\ \/ /\ g_hooks' = [g_hooks EXCEPT ![idx] = Switched(h, on)]
              /\ jump' = IF on THEN jump \union {h.target} ELSE jump \ {h.target}
              /\ idx' = idx + 1
              /\ call' = IF call[t].arg = AllHooks \/ call[t].op = "Remove" THEN call
                         ELSE [call EXCEPT ![t].status = "OK"]
           \/ /\ "VirtualProtect" \in Failures
              /\ call' = [call EXCEPT ![t].step = "resume", ![t].status = "MEMORY_PROTECT"]
              /\ UNCHANGED <<g_hooks, jump, idx>>
  /\ UNCHANGED <<g_isLocked, g_hHeap, free, original, left, frozen, suspended, ip, missed>>

AllWritten(t) ==
  /\ At(t, "write") /\ idx > Final(call[t])
  /\ call' = [call EXCEPT ![t].step = "resume",
                ![t].status = IF call[t].op \in {"Remove", "Uninitialize"} THEN @ ELSE "OK"]
  /\ UNCHANGED <<g_isLocked, g_hHeap, g_hooks, free, jump, original,
                 left, frozen, idx, suspended, ip, missed>>

ResumeThread(t, u) ==
  /\ At(t, "resume") /\ u \in frozen
  /\ frozen' = frozen \ {u}
  /\ \/ suspended' = suspended \ {u}
     \/ "ResumeThread" \in Failures /\ UNCHANGED suspended
  /\ UNCHANGED <<g_isLocked, g_hHeap, g_hooks, free, jump, original, call,
                 left, idx, ip, missed>>

AllResumedOrFailed(t) ==
  /\ At(t, "resume")
  /\ frozen = {} \/ call[t].status = "MEMORY_PROTECT"
  /\ Goto(t, IF call[t].status = "pending" THEN "finish" ELSE "leave")
  /\ UNCHANGED <<g_isLocked, g_hHeap, g_hooks, free, jump, original,
                 left, frozen, idx, suspended, ip, missed>>

AllResumed(t) ==
  /\ At(t, "resume") /\ frozen = {}
  /\ Goto(t, IF call[t].status = "pending" THEN "finish" ELSE "leave")
  /\ idx' = 0
  /\ missed' = {u \in missed : ip[u] # <<"out">>}
  /\ UNCHANGED <<g_isLocked, g_hHeap, g_hooks, free, jump, original,
                 left, frozen, suspended, ip>>

\* The end of MH_RemoveHook and of MH_Uninitialize.
FreeEntry(t) ==
  /\ At(t, "finish") /\ call[t].op = "Remove"
  /\ LET i == Find(call[t].arg) IN
       /\ free' = FreeBuffer(free, g_hooks[i].slot)
       /\ g_hooks' = Deleted(i)
  /\ Answer(t, "OK")
  /\ UNCHANGED <<g_isLocked, g_hHeap, jump, original,
                 left, frozen, idx, suspended, ip, missed>>

FreeAll(t) ==
  /\ At(t, "finish") /\ call[t].op = "Uninitialize"
  /\ g_hHeap' = FALSE
  /\ g_hooks' = <<>>
  /\ free' = Slot
  /\ Answer(t, "OK")
  /\ UNCHANGED <<g_isLocked, jump, original, left, frozen, idx, suspended, ip, missed>>

Critical(t) ==
  \/ NotInitialized(t)
  \/ MH_Initialize(t)
  \/ MH_CreateHook(t)
  \/ EnableHook(t)
  \/ EnableAllHooksLL(t)
  \/ MH_RemoveHook(t)
  \/ QueueHook(t)
  \/ \E u \in Thread : SuspendThread(t, u) \/ ResumeThread(t, u)
  \/ AllSuspended(t)
  \/ SkipEntry(t)
  \/ EnableHookLL(t)
  \/ AllWritten(t)
  \/ AllResumed(t)
  \/ FreeEntry(t)
  \/ FreeAll(t)
  \/ LeaveSpinLock(t)

Next ==
  \E t \in Thread :
    \/ Run(t)
    \/ \E o \in Ops : \E a \in Api!Args(o) : BeginCall(t, o, a)
    \/ EnterSpinLock(t)
    \/ Critical(t)

\* The holder is an ordinary thread nobody suspends, and so gets on.
Fairness == \A t \in Thread : WF_vars(Critical(t))

Spec == Init /\ [][Next]_vars /\ Fairness

-------------------------------------------------------------------------------
(***************************************************************************)
(* Properties.                                                             *)
(***************************************************************************)
Place ==
  {<<"out">>}
    \union {<<"target", f, i>> : f \in Target, i \in 0 .. 1}
    \union {<<"above", f>> : f \in Above}
    \union {<<"detour", f>> : f \in Target}
    \union {<<"slot", s, i>> : s \in Slot, i \in 0 .. 2}

TypeOK ==
  /\ g_isLocked \in Thread \union {None}
  /\ g_hHeap \in BOOLEAN
  /\ \A i \in DOMAIN g_hooks :
       g_hooks[i] \in [target : Target, slot : Slot, enabled : BOOLEAN, queue : BOOLEAN]
  /\ free \subseteq Slot /\ jump \subseteq Target
  /\ original \in [Target -> Slot \union {None}]
  /\ left \subseteq Thread /\ frozen \subseteq Thread /\ suspended \subseteq Thread
  /\ missed \subseteq Thread
  /\ idx \in Nat
  /\ ip \in [Thread -> Place]

Entries == {g_hooks[i] : i \in DOMAIN g_hooks}

(***************************************************************************)
(* Slots are neither lost nor shared: every slot is free or belongs to     *)
(* exactly one entry.  The slot MH_CreateHook took comes back when it      *)
(* fails half way, a removed hook's comes back however often hooks are     *)
(* created and removed, and entries that move in the array keep theirs.    *)
(***************************************************************************)
SlotsAccountedFor ==
  /\ TypeOK
  /\ free \intersect {h.slot : h \in Entries} = {}
  /\ free \union {h.slot : h \in Entries} = Slot
  /\ \A i, j \in DOMAIN g_hooks : i # j =>
       g_hooks[i].slot # g_hooks[j].slot /\ g_hooks[i].target # g_hooks[j].target

(***************************************************************************)
(* The code always agrees with the entries: a target begins with the jump  *)
(* exactly when it has an enabled entry, so no patched code outlives its   *)
(* entry and no call for all hooks loses track where it failed.            *)
(***************************************************************************)
CodeMatchesEntries ==
  jump = {h.target : h \in {e \in Entries : e.enabled}}

(***************************************************************************)
(* No thread is left executing bytes that changed under it: not in the     *)
(* middle of a jump, not in a hot patch area without one, not in a free    *)
(* slot, and not in a detour without an original.  Threads a freeze has    *)
(* overlooked are the exception.                                           *)
(***************************************************************************)
NoStrayThread ==
  \A t \in Thread \ (missed \union suspended) :
    /\ \A f \in Target :
         /\ ip[t] = <<"target", f, 1>> => f \notin jump
         /\ ip[t] = <<"above", f>> => f \in jump
         /\ ip[t] = <<"detour", f>> => original[f] \in Slot \ free
    /\ \A s \in Slot, i \in 0 .. 2 : ip[t] = <<"slot", s, i>> => s \notin free

\* Code is only written while no other thread runs, but for those a freeze
\* has overlooked: hooks change "in one go".
WrittenInOneGo ==
  [][jump' # jump => Thread \ {g_isLocked} \subseteq suspended \union missed]_vars

\* A call comes to an end, whatever fails in it: the lock is given back, and
\* nobody is left suspended.
EverybodyRunsAgain ==
  g_isLocked # None \/ suspended # {} ~> g_isLocked = None /\ suspended = {}

-------------------------------------------------------------------------------
(***************************************************************************)
(* The engine implements the contract: seen through the entries and the    *)
(* statuses, the locked, frozen and failing calls are calls of HookApi.    *)
(***************************************************************************)
EntryOf(f) == g_hooks[Find(f)]

Hook ==
  [f \in Target |-> IF Find(f) = 0 THEN "none"
                    ELSE IF EntryOf(f).enabled THEN "on" ELSE "off"]
Queued == [f \in Target |-> Find(f) # 0 /\ EntryOf(f).queue]
Calls ==
  [t \in Thread |-> [op |-> call[t].op, arg |-> call[t].arg, status |-> call[t].status]]

Contract ==
  INSTANCE HookApi WITH live <- g_hHeap, hook <- Hook, queued <- Queued, call <- Calls

ContractSpec == Contract!Spec
===============================================================================
