--------------------------- MODULE MinHookRefinement ---------------------------
(***************************************************************************)
(* The engine implements the contract, for any threads, targets, slots,    *)
(* operations and failures: every step of a call is a step of HookApi or   *)
(* none a caller can see.                                                  *)
(***************************************************************************)
EXTENDS MinHookProofs

SwitchingOps == {"Enable", "Disable", "Apply", "Remove", "Uninitialize"}

\* A call of MH_EnableHook or MH_DisableHook for one target.
One(c) == c.op \in {"Enable", "Disable"} /\ c.arg # AllHooks

\* How far a call has got, told from its step: whether it has its status, and
\* which entries are as it wants them.
Progress(c) ==
  /\ c.step = "idle" => c = Idle
  /\ c.step \in {"spin", "body", "suspend", "finish"} => c.status = "pending"
  /\ c.step = "resume" => c.status # "none"
  /\ c.step = "leave" => c.status \notin {"none", "pending"}
  /\ c.step \in {"suspend", "write", "resume", "finish"} => g_hHeap /\ c.op \in SwitchingOps
  /\ c.step = "write" =>
       /\ \A i \in First(c) .. idx - 1 : g_hooks[i].enabled = Wanted(c, g_hooks[i])
       /\ c.status = IF One(c) /\ idx > Final(c) THEN "OK" ELSE "pending"
  /\ c.step \in {"suspend", "write"} /\ One(c) /\ idx <= Final(c) =>
       g_hooks[idx].enabled # Wanted(c, g_hooks[idx])

ProgressInv == \A t \in Thread : Progress(call[t])

RInv == IInv /\ ProgressInv

-------------------------------------------------------------------------------
(***************************************************************************)
(* The entries, as callers see them.                                       *)
(***************************************************************************)
View ==
  /\ Hook \in [Target -> {"none", "off", "on"}] /\ Queued \in [Target -> BOOLEAN]
  /\ DOMAIN g_hooks = 1 .. Len(g_hooks) /\ Len(g_hooks) \in Nat
  /\ \A i \in DOMAIN g_hooks :
       /\ g_hooks[i] \in Entry /\ Find(g_hooks[i].target) = i
       /\ Hook[g_hooks[i].target] = IF g_hooks[i].enabled THEN "on" ELSE "off"
       /\ Queued[g_hooks[i].target] = g_hooks[i].queue
  /\ \A f \in Target :
       \/ Find(f) = 0 /\ Hook[f] = "none" /\ Queued[f] = FALSE
       \/ Find(f) \in DOMAIN g_hooks /\ g_hooks[Find(f)].target = f

LEMMA ViewHolds == IInv => View
<1> SUFFICES ASSUME IInv
             PROVE  View
  OBVIOUS
<1>1. DataInv /\ SlotsAccountedFor
  BY DEF IInv
<1>2. /\ DOMAIN g_hooks = 1 .. Len(g_hooks) /\ Len(g_hooks) \in Nat
      /\ \A i \in DOMAIN g_hooks : g_hooks[i] \in Entry
  BY <1>1 DEF DataInv
<1>3. ASSUME NEW f \in Target
      PROVE  Find(f) = 0 \/ (Find(f) \in DOMAIN g_hooks /\ g_hooks[Find(f)].target = f)
  BY <1>1, FindFacts
<1>4. ASSUME NEW i \in DOMAIN g_hooks
      PROVE  Find(g_hooks[i].target) = i /\ i # 0 /\ g_hooks[i].target \in Target
  <2>1. g_hooks[i].target \in Target
    BY <1>2 DEF Entry
  <2>2. PICK f \in Target : f = g_hooks[i].target
    BY <2>1
  <2>3. Find(f) \in DOMAIN g_hooks /\ g_hooks[Find(f)].target = f
    BY <1>1, <2>2, FindFacts
  <2>4. Find(f) = i
    BY <1>1, <2>2, <2>3 DEF SlotsAccountedFor
  <2> QED
    BY <1>2, <2>1, <2>2, <2>4
<1>5. ASSUME NEW f \in Target
      PROVE  /\ Hook[f] = IF Find(f) = 0 THEN "none"
                          ELSE IF g_hooks[Find(f)].enabled THEN "on" ELSE "off"
             /\ Queued[f] = (Find(f) # 0 /\ g_hooks[Find(f)].queue)
  BY DEF Hook, Queued, EntryOf
<1>6. Hook \in [Target -> {"none", "off", "on"}]
  BY DEF Hook
<1>7. Queued \in [Target -> BOOLEAN]
  <2>1. \A f \in Target : (Find(f) # 0 /\ EntryOf(f).queue) \in BOOLEAN
    BY <1>2, <1>3 DEF EntryOf, Entry
  <2> QED
    BY <2>1 DEF Queued
<1>8. ASSUME NEW i \in DOMAIN g_hooks
      PROVE  /\ Hook[g_hooks[i].target] = IF g_hooks[i].enabled THEN "on" ELSE "off"
             /\ Queued[g_hooks[i].target] = g_hooks[i].queue
  <2>1. g_hooks[i].queue \in BOOLEAN
    BY <1>2 DEF Entry
  <2> QED
    BY <1>4, <1>5, <2>1
<1>9. \A f \in Target : Find(f) = 0 => Hook[f] = "none" /\ Queued[f] = FALSE
  BY <1>5
<1> QED
  BY <1>2, <1>3, <1>4, <1>6, <1>7, <1>8, <1>9 DEF View

LEMMA ViewStays == IInv' => View'
BY ViewHolds, PTL

LEMMA SameHooks ==
  ASSUME g_hooks' = g_hooks
  PROVE  Hook' = Hook /\ Queued' = Queued
BY DEF Hook, Queued, EntryOf, Find

\* What a call concerns, and what it has still to switch.
LEMMA UnswitchedFacts ==
  ASSUME IInv, NEW t \in Thread
  PROVE  /\ \A f : f \in Contract!Concerned(t) <=>
              \E i \in DOMAIN g_hooks :
                i \in First(call[t]) .. Final(call[t]) /\ g_hooks[i].target = f
         /\ \A f : f \in Contract!Unswitched(t) <=>
              \E i \in DOMAIN g_hooks :
                /\ i \in First(call[t]) .. Final(call[t]) /\ g_hooks[i].target = f
                /\ g_hooks[i].enabled # Wanted(call[t], g_hooks[i])
         /\ \A i \in DOMAIN g_hooks :
              Contract!Goal(call[t].op, g_hooks[i].target) = Wanted(call[t], g_hooks[i])
<1>1. View /\ call[t] \in Call
  BY ViewHolds, HolderFacts
<1>2. Calls[t].op = call[t].op /\ Calls[t].arg = call[t].arg
  BY DEF Calls
<1>3. ASSUME NEW i \in DOMAIN g_hooks
      PROVE  i \in First(call[t]) .. Final(call[t]) <=> call[t].arg \in {AllHooks, g_hooks[i].target}
  <2>1. CASE call[t].arg = AllHooks
    BY <1>1, <2>1 DEF View, First, Final
  <2>2. CASE call[t].arg # AllHooks
    <3>1. call[t].arg \in Target
      BY <1>1, <2>2 DEF Call
    <3>2. First(call[t]) = Find(call[t].arg) /\ Final(call[t]) = Find(call[t].arg)
      BY <2>2 DEF First, Final
    <3>3. i \in Nat /\ Find(call[t].arg) \in Nat /\ i # 0
      BY <1>1, <3>1 DEF View
    <3>4. i = Find(call[t].arg) <=> g_hooks[i].target = call[t].arg
      BY <1>1, <3>1, <3>3 DEF View
    <3> QED
      BY <2>2, <3>2, <3>3, <3>4
  <2> QED
    BY <2>1, <2>2
<1>4. ASSUME NEW f \in Target
      PROVE  Hook[f] # "none" <=> \E i \in DOMAIN g_hooks : g_hooks[i].target = f
  BY <1>1 DEF View
<1>5. \A i \in DOMAIN g_hooks : g_hooks[i].target \in Target
  BY <1>1 DEF View, Entry
<1>6. \A f : f \in Contract!Concerned(t) <=>
        \E i \in DOMAIN g_hooks :
          i \in First(call[t]) .. Final(call[t]) /\ g_hooks[i].target = f
  BY <1>2, <1>3, <1>4, <1>5 DEF Contract!Concerned
<1>7. ASSUME NEW i \in DOMAIN g_hooks
      PROVE  Contract!Goal(call[t].op, g_hooks[i].target) = Wanted(call[t], g_hooks[i])
  BY <1>1 DEF Contract!Goal, Wanted, View
<1>8. ASSUME NEW i \in DOMAIN g_hooks
      PROVE  (Hook[g_hooks[i].target] = "on") = g_hooks[i].enabled
  BY <1>1 DEF View, Entry
<1>9. \A f : f \in Contract!Unswitched(t) <=>
        \E i \in DOMAIN g_hooks :
          /\ i \in First(call[t]) .. Final(call[t]) /\ g_hooks[i].target = f
          /\ g_hooks[i].enabled # Wanted(call[t], g_hooks[i])
  <2>1. \A f : f \in Contract!Unswitched(t) <=>
          f \in Contract!Concerned(t) /\ (Hook[f] = "on") # Contract!Goal(call[t].op, f)
    BY <1>2 DEF Contract!Unswitched
  <2> QED
    BY <2>1, <1>6, <1>7, <1>8
<1> QED
  BY <1>6, <1>7, <1>9

-------------------------------------------------------------------------------
(***************************************************************************)
(* Calls, as callers see them.                                             *)
(***************************************************************************)
LEMMA CallsFacts ==
  ASSUME NEW t \in Thread
  PROVE  /\ Calls[t].op = call[t].op /\ Calls[t].arg = call[t].arg
         /\ Calls[t].status = call[t].status
         /\ \A o : Contract!Pending(t, o) <=> call[t].op = o /\ call[t].status = "pending"
BY DEF Calls, Contract!Pending

LEMMA CallChanged ==
  ASSUME IInv, NEW t \in Thread, NEW c \in Call, call' = [call EXCEPT ![t] = c]
  PROVE  Calls' = [Calls EXCEPT ![t] = [op |-> c.op, arg |-> c.arg, status |-> c.status]]
<1>1. call \in [Thread -> Call] /\ call' \in [Thread -> Call]
  BY DEF IInv, DataInv
<1>2. \A u \in Thread : call'[u] = IF u = t THEN c ELSE call[u]
  BY <1>1
<1> QED
  BY <1>2 DEF Calls

\* A step that changes no status is not seen.
LEMMA CallUnseen ==
  ASSUME IInv, NEW t \in Thread, NEW c \in Call, call' = [call EXCEPT ![t] = c],
         c.op = call[t].op, c.arg = call[t].arg, c.status = call[t].status
  PROVE  Calls' = Calls
<1>1. Calls' = [Calls EXCEPT ![t] = [op |-> c.op, arg |-> c.arg, status |-> c.status]]
  BY CallChanged
<1> QED
  BY <1>1 DEF Calls

LEMMA StatusGiven ==
  ASSUME IInv, NEW t \in Thread, NEW c \in Call, call' = [call EXCEPT ![t] = c],
         c.op = call[t].op, c.arg = call[t].arg
  PROVE  Contract!Answer(t, c.status)
<1>1. Calls' = [Calls EXCEPT ![t] = [op |-> c.op, arg |-> c.arg, status |-> c.status]]
  BY CallChanged
<1>2. [Calls[t] EXCEPT !.status = c.status] = [op |-> c.op, arg |-> c.arg, status |-> c.status]
  BY DEF Calls
<1> QED
  BY <1>1, <1>2 DEF Contract!Answer, Calls

\* Steps that change the entries or the loop, of the thread that holds the lock.
LEMMA OthersDoNotMove ==
  ASSUME RInv, NEW t \in Thread, Beyond(t), NEW c \in Call, call' = [call EXCEPT ![t] = c],
         Progress(call[t])'
  PROVE  ProgressInv'
<1>1. ASSUME NEW u \in Thread \ {t}
      PROVE  Progress(call[u])'
  <2>1. call[u].step \in {"idle", "spin"} /\ Progress(call[u])
    BY Alone DEF Beyond, RInv, ProgressInv
  <2>2. call'[u] = call[u]
    BY DEF RInv, IInv, DataInv
  <2> QED
    BY <2>1, <2>2 DEF Progress
<1> QED
  BY <1>1 DEF ProgressInv

LEMMA ProgressKept ==
  ASSUME RInv, NEW u \in Thread, g_hooks' = g_hooks, idx' = idx, g_hHeap' = g_hHeap,
         call'[u] = call[u]
  PROVE  Progress(call[u])'
<1>1. First(call[u])' = First(call[u]) /\ Final(call[u])' = Final(call[u])
  BY SameEntries
<1>2. Progress(call[u])
  BY DEF RInv, ProgressInv
<1> QED
  BY <1>1, <1>2 DEF Progress, One

\* What every step has to show.
Simulated == ProgressInv' /\ [Contract!Next]_(Contract!apivars)

LEMMA AnswerSeen ==
  ASSUME RInv, NEW t \in Thread, Beyond(t), NEW s \in Status \ {"none", "pending"}, Answer(t, s)
  PROVE  ProgressInv' /\ Contract!Answer(t, s)
<1> DEFINE c == [call[t] EXCEPT !.step = "leave", !.status = s]
<1>1. call[t] \in Call /\ call \in [Thread -> Call]
  BY HolderFacts DEF RInv, DataInv
<1>2. c \in Call /\ c.step = "leave" /\ c.op = call[t].op /\ c.arg = call[t].arg
      /\ c.status = s
  BY <1>1 DEF Call, Step
<1>3. call' = [call EXCEPT ![t] = c] /\ call'[t] = c
  BY <1>1 DEF Answer
<1> HIDE DEF c
<1>4. Progress(call[t])'
  BY <1>2, <1>3 DEF Progress
<1>5. ProgressInv'
  BY <1>2, <1>3, <1>4, OthersDoNotMove
<1>6. Contract!Answer(t, s)
  <2>1. Contract!Answer(t, c.status)
    BY <1>2, <1>3, StatusGiven DEF RInv
  <2> QED
    BY <1>2, <2>1
<1> QED
  BY <1>5, <1>6

LEMMA RefuseSeen ==
  ASSUME RInv, NEW t \in Thread, Beyond(t), NEW s \in Status \ {"none", "pending"}, Refuse(t, s)
  PROVE  /\ ProgressInv' /\ Contract!Answer(t, s)
         /\ g_hHeap' = g_hHeap /\ Hook' = Hook /\ Queued' = Queued
BY AnswerSeen, SameHooks DEF Refuse

\* A step of the holder no caller sees.
LEMMA GotoUnseen ==
  ASSUME RInv, NEW t \in Thread, Beyond(t), NEW step \in Step, Goto(t, step),
         g_hooks' = g_hooks, g_hHeap' = g_hHeap,
         Progress(call[t])'
  PROVE  Simulated
<1> DEFINE c == [call[t] EXCEPT !.step = step]
<1>1. call[t] \in Call /\ call \in [Thread -> Call]
  BY HolderFacts DEF RInv, DataInv
<1>2. c \in Call /\ c.op = call[t].op /\ c.arg = call[t].arg /\ c.status = call[t].status
  BY <1>1 DEF Call
<1>3. call' = [call EXCEPT ![t] = c]
  BY <1>1 DEF Goto
<1> HIDE DEF c
<1>4. ProgressInv'
  BY <1>2, <1>3, OthersDoNotMove
<1>5. Calls' = Calls
  BY <1>2, <1>3, CallUnseen DEF RInv
<1> QED
  BY <1>4, <1>5, SameHooks DEF Simulated, Contract!apivars

\* Steps without a call.
LEMMA UnseenStep ==
  ASSUME RInv, UNCHANGED <<g_hHeap, g_hooks, call, idx>>
  PROVE  Simulated
<1>1. ProgressInv'
  BY ProgressKept DEF ProgressInv
<1>2. Calls' = Calls
  BY DEF Calls
<1> QED
  BY <1>1, <1>2, SameHooks DEF Simulated, Contract!apivars

-------------------------------------------------------------------------------
(***************************************************************************)
(* Every step is a step of the contract, or none.                          *)
(***************************************************************************)
LEMMA BeginCallSeen ==
  ASSUME RInv, NEW t \in Thread, NEW o \in Ops, NEW a \in Api!Args(o), BeginCall(t, o, a)
  PROVE  Simulated
<1> DEFINE c == [op |-> o, arg |-> a, step |-> "spin", status |-> "pending"]
<1>1. /\ call[t].step = "idle" /\ call' = [call EXCEPT ![t] = c]
      /\ UNCHANGED <<g_hHeap, g_hooks, idx>>
  BY DEF BeginCall, Runs
<1>2. c \in Call
  BY OpsAssumption DEF Call, Step, Status, Api!Args
<1>3. call'[t] = c /\ \A u \in Thread \ {t} : call'[u] = call[u]
  BY <1>1 DEF RInv, IInv, DataInv
<1>4. ProgressInv'
  <2>1. Progress(call[t])'
    BY <1>3 DEF Progress
  <2>2. \A u \in Thread \ {t} : Progress(call[u])'
    BY <1>1, <1>3, ProgressKept
  <2> QED
    BY <2>1, <2>2 DEF ProgressInv
<1>5. Calls[t] = Contract!NoCall
  <2>1. call[t] = Idle
    BY <1>1 DEF RInv, ProgressInv, Progress
  <2> QED
    BY <2>1 DEF Calls, Contract!NoCall, Idle
<1>6. Calls' = [Calls EXCEPT ![t] = [op |-> o, arg |-> a, status |-> "pending"]]
  BY <1>1, <1>2, CallChanged DEF RInv
<1>7. o \in Contract!Op /\ a \in Contract!Args(o)
  BY OpsAssumption DEF Api!Op, Api!Args, Contract!Op, Contract!Args
<1>8. Contract!Begin(t, o, a)
  BY <1>1, <1>5, <1>6, SameHooks DEF Contract!Begin
<1> QED
  BY <1>4, <1>7, <1>8 DEF Simulated, Contract!Next

LEMMA EnterSpinLockSeen ==
  ASSUME RInv, NEW t \in Thread, EnterSpinLock(t)
  PROVE  Simulated
<1> DEFINE c == [call[t] EXCEPT !.step = "body"]
<1>1. call[t].step = "spin" /\ Goto(t, "body") /\ UNCHANGED <<g_hHeap, g_hooks, idx>>
  BY DEF EnterSpinLock, At
<1>2. call[t] \in Call /\ call \in [Thread -> Call] /\ call[t].status = "pending"
  BY <1>1, HolderFacts DEF RInv, DataInv, ProgressInv, Progress
<1>3. c \in Call /\ c.op = call[t].op /\ c.arg = call[t].arg /\ c.status = "pending"
      /\ c.step = "body"
  BY <1>2 DEF Call, Step
<1>4. call' = [call EXCEPT ![t] = c] /\ call'[t] = c /\ \A u \in Thread \ {t} : call'[u] = call[u]
  BY <1>1, <1>2 DEF Goto
<1> HIDE DEF c
<1>5. ProgressInv'
  <2>1. Progress(call[t])'
    BY <1>3, <1>4 DEF Progress
  <2>2. \A u \in Thread \ {t} : Progress(call[u])'
    BY <1>1, <1>4, ProgressKept
  <2> QED
    BY <2>1, <2>2 DEF ProgressInv
<1>6. Calls' = Calls
  BY <1>2, <1>3, <1>4, CallUnseen DEF RInv
<1> QED
  BY <1>1, <1>5, <1>6, SameHooks DEF Simulated, Contract!apivars

LEMMA LeaveSpinLockSeen ==
  ASSUME RInv, NEW t \in Thread, LeaveSpinLock(t)
  PROVE  Simulated
<1>1. call[t].step = "leave" /\ call' = [call EXCEPT ![t] = Idle]
      /\ UNCHANGED <<g_hHeap, g_hooks, idx>>
  BY DEF LeaveSpinLock, At
<1>2. call'[t] = Idle /\ \A u \in Thread \ {t} : call'[u] = call[u]
  BY <1>1 DEF RInv, IInv, DataInv
<1>3. ProgressInv'
  <2>1. Progress(call[t])'
    BY <1>2 DEF Progress, Idle
  <2>2. \A u \in Thread \ {t} : Progress(call[u])'
    BY <1>1, <1>2, ProgressKept
  <2> QED
    BY <2>1, <2>2 DEF ProgressInv
<1>4. Calls[t].status \notin {"pending", "none"}
  BY <1>1, CallsFacts DEF RInv, ProgressInv, Progress
<1>5. Calls' = [Calls EXCEPT ![t] = Contract!NoCall]
  <2>1. Idle \in Call
    BY DEF Idle, Call, Step, Status
  <2>2. Calls' = [Calls EXCEPT ![t] = [op |-> Idle.op, arg |-> Idle.arg, status |-> Idle.status]]
    BY <1>1, <2>1, CallChanged DEF RInv
  <2> QED
    BY <2>2 DEF Idle, Contract!NoCall
<1>6. Contract!Return(t)
  BY <1>1, <1>4, <1>5, SameHooks DEF Contract!Return
<1> QED
  BY <1>3, <1>6 DEF Simulated, Contract!Next

LEMMA NotInitializedSeen ==
  ASSUME RInv, NEW t \in Thread, NotInitialized(t)
  PROVE  Simulated
<1>1. /\ Beyond(t) /\ call[t].step = "body" /\ call[t].op # "Initialize" /\ ~g_hHeap
      /\ Refuse(t, "NOT_INITIALIZED") /\ "NOT_INITIALIZED" \in Status \ {"none", "pending"}
  BY DEF NotInitialized, At, Beyond, Status
<1>2. call[t].status = "pending"
  BY <1>1 DEF RInv, ProgressInv, Progress
<1>3. /\ ProgressInv' /\ Contract!Answer(t, "NOT_INITIALIZED")
      /\ g_hHeap' = g_hHeap /\ Hook' = Hook /\ Queued' = Queued
  BY <1>1, RefuseSeen
<1>4. Contract!Refuse(t)
  BY <1>1, <1>2, <1>3, CallsFacts DEF Contract!Refuse
<1> QED
  BY <1>3, <1>4 DEF Simulated, Contract!Next

\* A call that has entered the lock.
LEMMA InFacts ==
  ASSUME RInv, NEW t \in Thread, NEW o, In(t, o)
  PROVE  Beyond(t) /\ call[t].op = o /\ Contract!Pending(t, o) /\ call[t].status = "pending"
<1>1. Beyond(t) /\ call[t].op = o /\ call[t].step = "body"
  BY DEF In, At, Beyond
<1>2. call[t].status = "pending"
  BY <1>1 DEF RInv, ProgressInv, Progress
<1> QED
  BY <1>1, <1>2, CallsFacts

LEMMA InitializeSeen ==
  ASSUME RInv, NEW t \in Thread, MH_Initialize(t)
  PROVE  Simulated
<1>1. Beyond(t) /\ Contract!Pending(t, "Initialize")
  BY InFacts DEF MH_Initialize
<1>2. {"ALREADY_INITIALIZED", "MEMORY_ALLOC", "OK"} \subseteq Status \ {"none", "pending"}
  BY DEF Status
<1>3. ASSUME NEW s \in {"ALREADY_INITIALIZED", "MEMORY_ALLOC"}, Refuse(t, s),
             g_hHeap <=> s = "ALREADY_INITIALIZED"
      PROVE  Simulated
  <2>1. ProgressInv' /\ Contract!Answer(t, s)
        /\ g_hHeap' = g_hHeap /\ Hook' = Hook /\ Queued' = Queued
    BY <1>1, <1>2, <1>3, RefuseSeen
  <2>2. Contract!Initialize(t)
    BY <1>1, <1>3, <2>1 DEF Contract!Initialize
  <2> QED
    BY <2>1, <2>2 DEF Simulated, Contract!Next
<1>4. ASSUME ~g_hHeap, g_hHeap' = TRUE, Answer(t, "OK"), g_hooks' = g_hooks
      PROVE  Simulated
  <2>1. ProgressInv' /\ Contract!Answer(t, "OK")
    BY <1>1, <1>2, <1>4, AnswerSeen
  <2>2. Contract!Initialize(t)
    BY <1>1, <1>4, <2>1, SameHooks DEF Contract!Initialize
  <2> QED
    BY <2>1, <2>2 DEF Simulated, Contract!Next
<1> QED
  BY <1>3, <1>4 DEF MH_Initialize

LEMMA CreateHookSeen ==
  ASSUME RInv, IInv', NEW t \in Thread, MH_CreateHook(t)
  PROVE  Simulated
<1>1. /\ Beyond(t) /\ Contract!Pending(t, "Create") /\ call[t].op = "Create" /\ g_hHeap
      /\ Calls[t].arg = call[t].arg
  BY InFacts, CallsFacts DEF MH_CreateHook
<1>2. {"NOT_EXECUTABLE", "ALREADY_CREATED", "MEMORY_ALLOC", "UNSUPPORTED_FUNCTION", "OK"}
        \subseteq Status \ {"none", "pending"}
  BY DEF Status
<1>3. PICK f \in Target : f = call[t].arg
  <2>1. call[t].arg \in Api!Args(call[t].op)
    BY <1>1 DEF RInv, IInv, PhaseInv, Phase, Beyond
  <2> QED
    BY <2>1, <1>1 DEF Api!Args
<1>4. Hook[f] = "none" <=> Find(f) = 0
  BY <1>3, ViewHolds DEF RInv, View, Entry
<1>5. ASSUME NEW s \in {"NOT_EXECUTABLE", "ALREADY_CREATED", "MEMORY_ALLOC", "UNSUPPORTED_FUNCTION"},
             Refuse(t, s),
             \/ s = "NOT_EXECUTABLE"
             \/ s = "ALREADY_CREATED" /\ Find(f) # 0
             \/ s \in {"MEMORY_ALLOC", "UNSUPPORTED_FUNCTION"} /\ Find(f) = 0
      PROVE  Simulated
  <2>1. ProgressInv' /\ Contract!Answer(t, s)
        /\ g_hHeap' = g_hHeap /\ Hook' = Hook /\ Queued' = Queued
    BY <1>1, <1>2, <1>5, RefuseSeen
  <2>2. Contract!Create(t)
    BY <1>1, <1>3, <1>4, <1>5, <2>1 DEF Contract!Create
  <2> QED
    BY <2>1, <2>2 DEF Simulated, Contract!Next
<1>6. ASSUME NEW s \in free, Find(f) = 0, g_hooks' = Append(g_hooks, NewEntry(f, s)),
             Answer(t, "OK"), g_hHeap' = g_hHeap
      PROVE  Simulated
  <2>1. ProgressInv' /\ Contract!Answer(t, "OK")
    BY <1>1, <1>2, <1>6, AnswerSeen
  <2> DEFINE h == NewEntry(f, s)
  <2>2. h \in Entry /\ h.target = f /\ h.enabled = FALSE /\ h.queue = FALSE
    BY DEF NewEntry, Entry, RInv, IInv, DataInv, TypeOK
  <2> HIDE DEF h
  <2>3. /\ DOMAIN g_hooks = 1 .. Len(g_hooks) /\ DOMAIN g_hooks' = 1 .. Len(g_hooks) + 1
        /\ Len(g_hooks) \in Nat /\ \A i \in DOMAIN g_hooks : g_hooks'[i] = g_hooks[i]
        /\ g_hooks'[Len(g_hooks) + 1] = h
    BY <1>6, <2>2, EntryAppended DEF RInv, IInv, h
  <2>4. View /\ View'
    BY ViewHolds, ViewStays DEF RInv
  <2>5. ASSUME NEW e \in Target
        PROVE  /\ Hook'[e] = IF e = f THEN "off" ELSE Hook[e]
               /\ Queued'[e] = IF e = f THEN FALSE ELSE Queued[e]
    <3>1. CASE e = f
      <4>1. Len(g_hooks) + 1 \in DOMAIN g_hooks'
        BY <2>3
      <4> QED
        BY <3>1, <4>1, <2>2, <2>3, <2>4 DEF View
    <3>2. CASE e # f /\ \E i \in DOMAIN g_hooks : g_hooks[i].target = e
      <4>1. PICK i \in DOMAIN g_hooks : g_hooks[i].target = e
        BY <3>2
      <4>2. i \in DOMAIN g_hooks' /\ g_hooks'[i] = g_hooks[i]
        BY <2>3
      <4> QED
        BY <3>2, <4>1, <4>2, <2>4 DEF View
    <3>3. CASE e # f /\ ~ \E i \in DOMAIN g_hooks : g_hooks[i].target = e
      <4>1. \A i \in DOMAIN g_hooks' : i \in DOMAIN g_hooks \/ i = Len(g_hooks) + 1
        BY <2>3
      <4>2. \A i \in DOMAIN g_hooks' : g_hooks'[i].target # e
        BY <3>3, <4>1, <2>2, <2>3
      <4>3. Hook[e] = "none" /\ Queued[e] = FALSE
        BY <3>3, <2>4 DEF View
      <4>4. Hook'[e] = "none" /\ Queued'[e] = FALSE
        BY <4>2, <2>4 DEF View
      <4> QED
        BY <3>3, <4>3, <4>4
    <3> QED
      BY <3>1, <3>2, <3>3
  <2>6. Hook' = [Hook EXCEPT ![f] = "off"] /\ Queued' = [Queued EXCEPT ![f] = FALSE]
    <3>1. /\ {Hook, Hook'} \subseteq [Target -> {"none", "off", "on"}]
          /\ {Queued, Queued'} \subseteq [Target -> BOOLEAN]
      BY <2>4 DEF View
    <3>2. Hook' = [Hook EXCEPT ![f] = "off"]
      BY <2>5, <3>1
    <3>3. Queued' = [Queued EXCEPT ![f] = FALSE]
      BY <2>5, <3>1
    <3> QED
      BY <3>2, <3>3
  <2>7. Contract!Create(t)
    BY <1>1, <1>3, <1>4, <1>6, <2>1, <2>6 DEF Contract!Create
  <2> QED
    BY <2>1, <2>7 DEF Simulated, Contract!Next
<1>7. CASE Find(f) = 0 /\ \E s \in free : \/ GiveBack(t, s, "UNSUPPORTED_FUNCTION")
                                         \/ GiveBack(t, s, "MEMORY_ALLOC")
  BY <1>5, <1>7, GivenBack
<1> QED
  BY <1>3, <1>5, <1>6, <1>7 DEF MH_CreateHook

\* A call that has something to switch, and stops the others or fails to.
LEMMA FreezeSeen ==
  ASSUME RInv, NEW t \in Thread, Beyond(t), Freeze(t), g_hHeap,
         call[t].op \in SwitchingOps, call[t].status = "pending",
         Contract!Unswitched(t) # {},
         One(call[t]) => g_hooks[Find(call[t].arg)].enabled # (call[t].op = "Enable")
  PROVE  Simulated
<1>1. CASE Refuse(t, "MEMORY_ALLOC")
  <2>1. "MEMORY_ALLOC" \in Status \ {"none", "pending"}
    BY DEF Status
  <2>2. ProgressInv' /\ Contract!Answer(t, "MEMORY_ALLOC")
        /\ g_hHeap' = g_hHeap /\ Hook' = Hook /\ Queued' = Queued
    BY <1>1, <2>1, RefuseSeen
  <2>3. Contract!Switching(t)
    BY CallsFacts DEF Contract!Switching, SwitchingOps
  <2>4. Contract!SwitchFails(t)
    BY <2>2, <2>3 DEF Contract!SwitchFails
  <2> QED
    BY <2>2, <2>4 DEF Simulated, Contract!Next
<1>2. ASSUME idx' = First(call[t]), Goto(t, "suspend"), g_hHeap' = g_hHeap, g_hooks' = g_hooks
      PROVE  Simulated
  <2>1. call[t] \in Call /\ call \in [Thread -> Call]
    BY HolderFacts DEF RInv, DataInv
  <2>2. call'[t] = [call[t] EXCEPT !.step = "suspend"]
    BY <1>2, <2>1 DEF Goto
  <2>3. /\ call'[t].step = "suspend" /\ call'[t].op = call[t].op /\ call'[t].arg = call[t].arg
        /\ call'[t].status = "pending"
    BY <2>1, <2>2 DEF Call
  <2>4. One(call[t]) => g_hooks'[idx'].enabled # (call'[t].op = "Enable")
    <3>1. One(call[t]) => idx' = Find(call[t].arg)
      BY <1>2 DEF One, First
    <3> QED
      BY <1>2, <2>3, <3>1
  <2>5. Progress(call[t])'
    BY <1>2, <2>3, <2>4 DEF Progress, One, Wanted
  <2>6. "suspend" \in Step
    BY DEF Step
  <2> QED
    BY <1>2, <2>5, <2>6, GotoUnseen
<1> QED
  BY <1>1, <1>2 DEF Freeze

LEMMA EnableHookSeen ==
  ASSUME RInv, NEW t \in Thread, EnableHook(t)
  PROVE  Simulated
<1>1. /\ Beyond(t) /\ call[t].op \in {"Enable", "Disable"} /\ g_hHeap /\ call[t].arg # AllHooks
      /\ call[t].status = "pending" /\ Contract!Pending(t, call[t].op)
  BY InFacts DEF EnableHook
<1>2. PICK f \in Target : f = call[t].arg /\ f # AllHooks
  BY <1>1, HolderFacts DEF RInv, Call
<1>3. View /\ Calls[t].op = call[t].op /\ Calls[t].arg = f
  BY <1>2, ViewHolds, CallsFacts DEF RInv
<1>4. First(call[t]) = Find(f) /\ Final(call[t]) = Find(f)
  BY <1>1, <1>2 DEF First, Final
<1>5. Contract!Pending(t, "Enable") \/ Contract!Pending(t, "Disable")
  BY <1>1
<1>6. CASE Find(f) = 0 /\ Refuse(t, "NOT_CREATED")
  <2>1. "NOT_CREATED" \in Status \ {"none", "pending"}
    BY DEF Status
  <2>2. ProgressInv' /\ Contract!Answer(t, "NOT_CREATED")
        /\ g_hHeap' = g_hHeap /\ Hook' = Hook /\ Queued' = Queued
    BY <1>1, <1>6, <2>1, RefuseSeen
  <2>3. Hook[f] = "none"
    BY <1>3, <1>6 DEF View
  <2>4. Contract!Switch(t)
    BY <1>1, <1>3, <1>5, <2>2, <2>3 DEF Contract!Switch
  <2> QED
    BY <2>2, <2>4 DEF Simulated, Contract!Next
<1>7. ASSUME Find(f) # 0
      PROVE  /\ Find(f) \in DOMAIN g_hooks /\ Find(f) \in Nat /\ g_hooks[Find(f)].target = f
             /\ g_hooks[Find(f)].enabled \in BOOLEAN
             /\ Wanted(call[t], g_hooks[Find(f)]) = (call[t].op = "Enable")
             /\ Hook[f] # "none"
  <2>1. Find(f) \in DOMAIN g_hooks /\ g_hooks[Find(f)].target = f
    BY <1>3, <1>7 DEF View
  <2>2. Find(f) \in Nat /\ g_hooks[Find(f)].enabled \in BOOLEAN
    BY <1>3, <2>1 DEF View, Entry
  <2>3. Hook[f] # "none"
    BY <1>3, <2>1 DEF View
  <2> QED
    BY <1>1, <2>1, <2>2, <2>3 DEF Wanted
<1>8. ASSUME Find(f) # 0, NEW s \in {"ENABLED", "DISABLED"}, Refuse(t, s),
             g_hooks[Find(f)].enabled = (call[t].op = "Enable"),
             s = IF call[t].op = "Enable" THEN "ENABLED" ELSE "DISABLED"
      PROVE  Simulated
  <2>1. s \in Status \ {"none", "pending"}
    BY <1>8 DEF Status
  <2>2. ProgressInv' /\ Contract!Answer(t, s)
        /\ g_hHeap' = g_hHeap /\ Hook' = Hook /\ Queued' = Queued
    BY <1>1, <1>8, <2>1, RefuseSeen
  <2>3. Contract!Unswitched(t) = {}
    <3>1. \A i \in Find(f) .. Find(f) : i = Find(f)
      BY <1>7, <1>8
    <3>2. \A i \in First(call[t]) .. Final(call[t]) : g_hooks[i].enabled = Wanted(call[t], g_hooks[i])
      BY <1>4, <1>7, <1>8, <3>1
    <3> QED
      BY <3>2, UnswitchedFacts DEF RInv
  <2>4. Contract!Switch(t)
    BY <1>1, <1>3, <1>5, <1>7, <1>8, <2>2, <2>3 DEF Contract!Switch
  <2> QED
    BY <2>2, <2>4 DEF Simulated, Contract!Next
<1>9. ASSUME Find(f) # 0, Freeze(t), g_hooks[Find(f)].enabled # (call[t].op = "Enable")
      PROVE  Simulated
  <2>1. Contract!Unswitched(t) # {}
    <3>1. Find(f) \in First(call[t]) .. Final(call[t])
      BY <1>4, <1>7, <1>9
    <3> QED
      BY <3>1, <1>7, <1>9, UnswitchedFacts DEF RInv
  <2>2. call[t].op \in SwitchingOps
    BY <1>1 DEF SwitchingOps
  <2> QED
    BY <1>1, <1>2, <1>9, <2>1, <2>2, FreezeSeen
<1> QED
  BY <1>2, <1>6, <1>8, <1>9 DEF EnableHook

LEMMA EnableAllHooksSeen ==
  ASSUME RInv, NEW t \in Thread, EnableAllHooksLL(t)
  PROVE  Simulated
<1>1. /\ Beyond(t) /\ call[t].op \in {"Enable", "Disable", "Apply", "Uninitialize"} /\ g_hHeap
      /\ call[t].arg = AllHooks /\ call[t].status = "pending" /\ Contract!Pending(t, call[t].op)
  BY InFacts DEF EnableAllHooksLL
<1>2. /\ First(call[t]) = 1 /\ Final(call[t]) = Len(g_hooks)
      /\ First(call[t]) .. Final(call[t]) = DOMAIN g_hooks
  BY <1>1, ViewHolds DEF First, Final, RInv, View
<1>3. call[t].op \in SwitchingOps /\ ~One(call[t])
  BY <1>1 DEF SwitchingOps, One
<1>4. CASE /\ \E i \in DOMAIN g_hooks : g_hooks[i].enabled # Wanted(call[t], g_hooks[i])
           /\ Freeze(t)
  <2>1. Contract!Unswitched(t) # {}
    BY <1>2, <1>4, UnswitchedFacts DEF RInv
  <2> QED
    BY <1>1, <1>3, <1>4, <2>1, FreezeSeen
<1>5. ASSUME call[t].op = "Uninitialize", Goto(t, "finish"), g_hHeap' = g_hHeap, g_hooks' = g_hooks
      PROVE  Simulated
  <2>1. call'[t] = [call[t] EXCEPT !.step = "finish"] /\ call[t] \in Call
    BY <1>5, HolderFacts DEF Goto, RInv, DataInv
  <2>2. call'[t].step = "finish" /\ call'[t].op = call[t].op /\ call'[t].status = "pending"
    BY <1>1, <2>1 DEF Call
  <2>3. Progress(call[t])'
    BY <1>1, <1>3, <1>5, <2>2 DEF Progress
  <2>4. "finish" \in Step
    BY DEF Step
  <2> QED
    BY <1>1, <1>5, <2>3, <2>4, GotoUnseen
<1>6. ASSUME \A i \in DOMAIN g_hooks : g_hooks[i].enabled = Wanted(call[t], g_hooks[i]),
             call[t].op # "Uninitialize", Refuse(t, "OK")
      PROVE  Simulated
  <2>1. "OK" \in Status \ {"none", "pending"}
    BY DEF Status
  <2>2. ProgressInv' /\ Contract!Answer(t, "OK")
        /\ g_hHeap' = g_hHeap /\ Hook' = Hook /\ Queued' = Queued
    BY <1>1, <1>6, <2>1, RefuseSeen
  <2>3. Contract!Unswitched(t) = {}
    BY <1>6, UnswitchedFacts DEF RInv
  <2>4. Contract!AllSwitched(t)
    BY <1>1, <1>6, <2>2, <2>3, CallsFacts DEF Contract!AllSwitched
  <2> QED
    BY <2>2, <2>4 DEF Simulated, Contract!Next
<1> QED
  BY <1>4, <1>5, <1>6 DEF EnableAllHooksLL

LEMMA RemoveHookSeen ==
  ASSUME RInv, NEW t \in Thread, MH_RemoveHook(t)
  PROVE  Simulated
<1>1. /\ Beyond(t) /\ call[t].op = "Remove" /\ g_hHeap
      /\ call[t].status = "pending" /\ Contract!Pending(t, "Remove")
  BY InFacts DEF MH_RemoveHook
<1>2. PICK f \in Target : f = call[t].arg /\ f # AllHooks
  <2>1. call[t].arg \in Api!Args(call[t].op)
    BY <1>1 DEF RInv, IInv, PhaseInv, Phase, Beyond
  <2> QED
    BY <1>1, <2>1, TargetAssumption DEF Api!Args
<1>3. View /\ Calls[t].arg = f
  BY <1>2, ViewHolds, CallsFacts DEF RInv
<1>4. First(call[t]) = Find(f) /\ Final(call[t]) = Find(f)
  BY <1>1, <1>2 DEF First, Final
<1>5. call[t].op \in SwitchingOps /\ ~One(call[t])
  BY <1>1 DEF SwitchingOps, One
<1>6. CASE Find(f) = 0 /\ Refuse(t, "NOT_CREATED")
  <2>1. "NOT_CREATED" \in Status \ {"none", "pending"}
    BY DEF Status
  <2>2. ProgressInv' /\ Contract!Answer(t, "NOT_CREATED")
        /\ g_hHeap' = g_hHeap /\ Hook' = Hook /\ Queued' = Queued
    BY <1>1, <1>6, <2>1, RefuseSeen
  <2>3. Hook[f] = "none"
    BY <1>3, <1>6 DEF View
  <2>4. Contract!Remove(t)
    BY <1>1, <1>3, <2>2, <2>3 DEF Contract!Remove
  <2> QED
    BY <2>2, <2>4 DEF Simulated, Contract!Next
<1>7. ASSUME Find(f) # 0, g_hooks[Find(f)].enabled, Freeze(t)
      PROVE  Simulated
  <2>1. Find(f) \in DOMAIN g_hooks /\ g_hooks[Find(f)].target = f
    BY <1>3, <1>7 DEF View
  <2>2. Find(f) \in First(call[t]) .. Final(call[t])
    BY <1>3, <1>4, <2>1 DEF View
  <2>3. g_hooks[Find(f)].enabled # Wanted(call[t], g_hooks[Find(f)])
    BY <1>1, <1>7 DEF Wanted
  <2>4. Contract!Unswitched(t) # {}
    BY <2>1, <2>2, <2>3, UnswitchedFacts DEF RInv
  <2> QED
    BY <1>1, <1>5, <1>7, <2>4, FreezeSeen
<1>8. ASSUME Goto(t, "finish"), g_hHeap' = g_hHeap, g_hooks' = g_hooks
      PROVE  Simulated
  <2>1. call'[t] = [call[t] EXCEPT !.step = "finish"] /\ call[t] \in Call
    BY <1>8, HolderFacts DEF Goto, RInv, DataInv
  <2>2. call'[t].step = "finish" /\ call'[t].op = call[t].op /\ call'[t].status = "pending"
    BY <1>1, <2>1 DEF Call
  <2>3. Progress(call[t])'
    BY <1>1, <1>5, <1>8, <2>2 DEF Progress
  <2>4. "finish" \in Step
    BY DEF Step
  <2> QED
    BY <1>1, <1>8, <2>3, <2>4, GotoUnseen
<1> QED
  BY <1>2, <1>6, <1>7, <1>8 DEF MH_RemoveHook

\* Entries that are switched or queued are seen where they were.
LEMMA SeenTogether ==
  ASSUME View, View', DOMAIN g_hooks' = DOMAIN g_hooks,
         \A i \in DOMAIN g_hooks : g_hooks'[i].target = g_hooks[i].target,
         NEW e \in Target
  PROVE  \/ /\ Hook[e] = "none" /\ Hook'[e] = "none" /\ Queued[e] = FALSE /\ Queued'[e] = FALSE
            /\ \A i \in DOMAIN g_hooks : g_hooks[i].target # e
         \/ \E i \in DOMAIN g_hooks : g_hooks[i].target = e /\ g_hooks'[i].target = e
<1>1. CASE \E i \in DOMAIN g_hooks : g_hooks[i].target = e
  BY <1>1
<1>2. CASE \A i \in DOMAIN g_hooks : g_hooks[i].target # e
  <2>1. Hook[e] = "none" /\ Queued[e] = FALSE
    BY <1>2 DEF View
  <2>2. Hook'[e] = "none" /\ Queued'[e] = FALSE
    BY <1>2 DEF View
  <2> QED
    BY <1>2, <2>1, <2>2
<1> QED
  BY <1>1, <1>2

LEMMA QueueHookSeen ==
  ASSUME RInv, IInv', NEW t \in Thread, QueueHook(t)
  PROVE  Simulated
<1>1. /\ Beyond(t) /\ call[t].op \in {"QueueEnable", "QueueDisable"} /\ g_hHeap
      /\ Contract!Pending(t, "QueueEnable") \/ Contract!Pending(t, "QueueDisable")
  BY InFacts DEF QueueHook
<1>2. View /\ View' /\ Calls[t].arg = call[t].arg /\ Calls[t].op = call[t].op
      /\ call[t].arg \in Target \union {AllHooks}
  BY ViewHolds, ViewStays, CallsFacts, HolderFacts DEF RInv, Call
<1>3. \A f : f \in Contract!Concerned(t) <=>
        f \in Target /\ Hook[f] # "none" /\ call[t].arg \in {f, AllHooks}
  BY <1>2 DEF Contract!Concerned
<1>4. {"NOT_CREATED", "OK"} \subseteq Status \ {"none", "pending"}
  BY DEF Status
<1>5. CASE call[t].arg # AllHooks /\ Find(call[t].arg) = 0 /\ Refuse(t, "NOT_CREATED")
  <2>1. ProgressInv' /\ Contract!Answer(t, "NOT_CREATED")
        /\ g_hHeap' = g_hHeap /\ Hook' = Hook /\ Queued' = Queued
    BY <1>1, <1>4, <1>5, RefuseSeen
  <2>2. Hook[call[t].arg] = "none"
    BY <1>2, <1>5 DEF View, Entry
  <2>3. Contract!Concerned(t) = {}
    BY <1>3, <1>5, <2>2
  <2>4. Contract!Queue(t)
    BY <1>1, <1>2, <1>5, <2>1, <2>3 DEF Contract!Queue
  <2> QED
    BY <2>1, <2>4 DEF Simulated, Contract!Next
<1>6. ASSUME call[t].arg = AllHooks \/ Find(call[t].arg) # 0,
             g_hooks' = [i \in DOMAIN g_hooks |->
               IF call[t].arg \in {AllHooks, g_hooks[i].target}
                 THEN [g_hooks[i] EXCEPT !.queue = (call[t].op = "QueueEnable")]
                 ELSE g_hooks[i]],
             Answer(t, "OK"), g_hHeap' = g_hHeap
      PROVE  Simulated
  <2>1. ProgressInv' /\ Contract!Answer(t, "OK")
    BY <1>1, <1>4, <1>6, AnswerSeen
  <2> DEFINE on == call[t].op = "QueueEnable"
  <2>2. /\ DOMAIN g_hooks' = DOMAIN g_hooks
        /\ \A i \in DOMAIN g_hooks :
             /\ g_hooks'[i].target = g_hooks[i].target /\ g_hooks'[i].enabled = g_hooks[i].enabled
             /\ g_hooks'[i].queue = IF call[t].arg \in {AllHooks, g_hooks[i].target}
                                      THEN on ELSE g_hooks[i].queue
    BY <1>2, <1>6 DEF View, Entry
  <2>3. on \in BOOLEAN
    OBVIOUS
  <2> HIDE DEF on
  <2>4. ASSUME NEW e \in Target
        PROVE  /\ Hook'[e] = Hook[e]
               /\ Queued'[e] = IF e \in Contract!Concerned(t) THEN on ELSE Queued[e]
    <3>1. CASE /\ Hook[e] = "none" /\ Hook'[e] = "none" /\ Queued[e] = FALSE
               /\ Queued'[e] = FALSE
      BY <3>1, <1>3
    <3>2. ASSUME NEW i \in DOMAIN g_hooks, g_hooks[i].target = e, g_hooks'[i].target = e
          PROVE  /\ Hook'[e] = Hook[e]
                 /\ Queued'[e] = IF e \in Contract!Concerned(t) THEN on ELSE Queued[e]
      <4>1. /\ Hook[e] = IF g_hooks[i].enabled THEN "on" ELSE "off"
            /\ Queued[e] = g_hooks[i].queue
        BY <1>2, <3>2 DEF View
      <4>2. /\ Hook'[e] = IF g_hooks'[i].enabled THEN "on" ELSE "off"
            /\ Queued'[e] = g_hooks'[i].queue
        BY <1>2, <2>2, <3>2 DEF View
      <4>3. e \in Contract!Concerned(t) <=> call[t].arg \in {AllHooks, g_hooks[i].target}
        BY <1>3, <3>2, <4>1
      <4> QED
        BY <2>2, <4>1, <4>2, <4>3
    <3> QED
      BY <1>2, <2>2, <3>1, <3>2, SeenTogether
  <2>5. /\ {Hook, Hook'} \subseteq [Target -> {"none", "off", "on"}]
        /\ {Queued, Queued'} \subseteq [Target -> BOOLEAN]
    BY <1>2 DEF View
  <2>6. Hook' = Hook
    BY <2>4, <2>5
  <2>7. Queued' = [f \in Target |-> IF f \in Contract!Concerned(t) THEN on ELSE Queued[f]]
    BY <2>3, <2>4, <2>5
  <2>8. Contract!Concerned(t) # {} \/ call[t].arg = AllHooks
    <3>1. CASE call[t].arg # AllHooks
      <4>1. Hook[call[t].arg] # "none"
        BY <1>2, <1>6, <3>1 DEF View
      <4> QED
        BY <1>2, <1>3, <3>1, <4>1
    <3> QED
      BY <3>1
  <2>9. Contract!Queue(t)
    BY <1>1, <1>2, <1>6, <2>1, <2>6, <2>7, <2>8 DEF Contract!Queue, on
  <2> QED
    BY <2>1, <2>9 DEF Simulated, Contract!Next
<1> QED
  BY <1>5, <1>6 DEF QueueHook

LEMMA AllSuspendedSeen ==
  ASSUME RInv, NEW t \in Thread, AllSuspended(t)
  PROVE  Simulated
<1>1. /\ call[t].step = "suspend" /\ Goto(t, "write") /\ Beyond(t)
      /\ UNCHANGED <<g_hHeap, g_hooks, idx>>
  BY DEF AllSuspended, At, Beyond
<1>2. call[t] \in Call /\ Phase(call[t]) /\ Progress(call[t]) /\ DataInv
  BY HolderFacts DEF RInv, ProgressInv
<1>3. call'[t] = [call[t] EXCEPT !.step = "write"]
  BY <1>1, <1>2 DEF Goto, DataInv
<1>4. /\ call'[t].step = "write" /\ call'[t].op = call[t].op /\ call'[t].arg = call[t].arg
      /\ call'[t].status = "pending" /\ g_hHeap /\ call[t].op \in SwitchingOps
  BY <1>1, <1>2, <1>3 DEF Call, Progress
<1>5. First(call[t])' = First(call[t]) /\ Final(call[t])' = Final(call[t])
  BY <1>1, <1>4, SameEntries
<1>6. idx = First(call[t]) /\ First(call[t]) \in Nat /\ First(call[t]) .. idx - 1 = {}
  BY <1>1, <1>2, RangeFacts DEF Phase
<1>7. One(call[t]) => idx <= Final(call[t]) /\ g_hooks[idx].enabled # Wanted(call[t], g_hooks[idx])
  <2>1. One(call[t]) => Final(call[t]) = First(call[t])
    BY DEF One, First, Final
  <2> QED
    BY <1>1, <1>2, <1>6, <2>1 DEF Progress
<1>8. Final(call[t]) \in Nat /\ One(call[t])' = One(call[t])
      /\ (One(call[t]) => ~(idx > Final(call[t])))
  BY <1>2, <1>4, <1>6, <1>7, RangeFacts DEF One
<1>9. Progress(call[t])'
  BY <1>1, <1>4, <1>5, <1>6, <1>7, <1>8 DEF Progress, Wanted
<1>10. "write" \in Step
  BY DEF Step
<1> QED
  BY <1>1, <1>9, <1>10, GotoUnseen

LEMMA SkipEntrySeen ==
  ASSUME RInv, NEW t \in Thread, SkipEntry(t)
  PROVE  Simulated
<1>1. /\ call[t].step = "write" /\ idx <= Final(call[t]) /\ Beyond(t)
      /\ g_hooks[idx].enabled = Wanted(call[t], g_hooks[idx]) /\ idx' = idx + 1
      /\ UNCHANGED <<g_hHeap, g_hooks, call>>
  BY DEF SkipEntry, At, Beyond
<1>2. call[t] \in Call /\ Phase(call[t]) /\ Progress(call[t]) /\ DataInv /\ idx \in Nat
  BY HolderFacts DEF RInv, ProgressInv
<1>3. /\ First(call[t])' = First(call[t]) /\ Final(call[t])' = Final(call[t])
      /\ First(call[t]) \in Nat
  BY <1>1, <1>2, SameEntries, RangeFacts
<1>4. ~One(call[t])
  BY <1>1, <1>2 DEF Progress
<1>5. \A i \in First(call[t]) .. idx' - 1 : g_hooks[i].enabled = Wanted(call[t], g_hooks[i])
  <2>1. \A i \in First(call[t]) .. idx' - 1 : i = idx \/ i \in First(call[t]) .. idx - 1
    BY <1>1, <1>2, <1>3
  <2> QED
    BY <2>1, <1>1, <1>2 DEF Progress
<1>6. call[t].status = "pending" /\ g_hHeap /\ call[t].op \in SwitchingOps
  BY <1>1, <1>2, <1>4 DEF Progress
<1>7. Progress(call[t])'
  BY <1>1, <1>3, <1>4, <1>5, <1>6 DEF Progress, One
<1>8. call' = [call EXCEPT ![t] = call[t]]
  BY <1>1, <1>2 DEF DataInv
<1>9. ProgressInv'
  BY <1>1, <1>2, <1>7, <1>8, OthersDoNotMove
<1>10. Calls' = Calls
  BY <1>1 DEF Calls
<1> QED
  BY <1>1, <1>9, <1>10, SameHooks DEF Simulated, Contract!apivars

\* EnableHookLL switches one hook; the call goes on, or is answered if it is for one.
LEMMA HookSwitched ==
  ASSUME View, View', NEW i \in DOMAIN g_hooks, NEW on \in BOOLEAN,
         g_hooks' = [g_hooks EXCEPT ![i] = Switched(g_hooks[i], on)]
  PROVE  Contract!SwitchTo(g_hooks[i].target, on)
<1> DEFINE h == Switched(g_hooks[i], on)
<1>1. g_hooks[i] \in Entry
  BY DEF View
<1>2. h.target = g_hooks[i].target /\ h.enabled = on /\ h.queue = on
  BY <1>1 DEF Switched, Entry
<1> HIDE DEF h
<1>3. DOMAIN g_hooks' = DOMAIN g_hooks
      /\ \A j \in DOMAIN g_hooks : g_hooks'[j] = IF j = i THEN h ELSE g_hooks[j]
  BY DEF h
<1>4. \A j \in DOMAIN g_hooks : g_hooks'[j].target = g_hooks[j].target
  BY <1>2, <1>3
<1>5. PICK f \in Target : f = g_hooks[i].target
  BY <1>1 DEF Entry
<1>6. ASSUME NEW e \in Target
      PROVE  /\ Hook'[e] = IF e = f THEN (IF on THEN "on" ELSE "off") ELSE Hook[e]
             /\ Queued'[e] = IF e = f THEN on ELSE Queued[e]
  <2>1. CASE /\ Hook[e] = "none" /\ Hook'[e] = "none" /\ Queued[e] = FALSE
             /\ Queued'[e] = FALSE /\ \A j \in DOMAIN g_hooks : g_hooks[j].target # e
    BY <2>1, <1>5
  <2>2. ASSUME NEW j \in DOMAIN g_hooks, g_hooks[j].target = e, g_hooks'[j].target = e
        PROVE  /\ Hook'[e] = IF e = f THEN (IF on THEN "on" ELSE "off") ELSE Hook[e]
               /\ Queued'[e] = IF e = f THEN on ELSE Queued[e]
    <3>1. Hook[e] = (IF g_hooks[j].enabled THEN "on" ELSE "off") /\ Queued[e] = g_hooks[j].queue
      BY <2>2 DEF View
    <3>2. Hook'[e] = (IF g_hooks'[j].enabled THEN "on" ELSE "off") /\ Queued'[e] = g_hooks'[j].queue
      BY <1>3, <2>2 DEF View
    <3>3. j = i <=> e = f
      BY <1>5, <2>2 DEF View
    <3> QED
      BY <1>2, <1>3, <3>1, <3>2, <3>3
  <2> QED
    BY <1>3, <1>4, <2>1, <2>2, SeenTogether
<1>7. /\ {Hook, Hook'} \subseteq [Target -> {"none", "off", "on"}]
      /\ {Queued, Queued'} \subseteq [Target -> BOOLEAN]
  BY DEF View
<1>8. Hook' = [Hook EXCEPT ![f] = IF on THEN "on" ELSE "off"]
  BY <1>6, <1>7
<1>9. Queued' = [Queued EXCEPT ![f] = on]
  BY <1>6, <1>7
<1> QED
  BY <1>5, <1>8, <1>9 DEF Contract!SwitchTo

LEMMA EnableHookLLSeen ==
  ASSUME RInv, IInv', NEW t \in Thread, EnableHookLL(t)
  PROVE  Simulated
<1> DEFINE on == Wanted(call[t], g_hooks[idx])
<1>1. /\ call[t].step = "write" /\ idx <= Final(call[t]) /\ Beyond(t)
      /\ g_hooks[idx].enabled # on /\ g_hHeap' = g_hHeap
  BY DEF EnableHookLL, At, Beyond
<1>2. /\ call[t] \in Call /\ Phase(call[t]) /\ Progress(call[t]) /\ DataInv /\ idx \in Nat
      /\ View /\ View'
  BY HolderFacts, ViewHolds, ViewStays DEF RInv, ProgressInv
<1>3. /\ First(call[t]) \in Nat /\ Final(call[t]) \in Nat
      /\ idx \in First(call[t]) .. Final(call[t]) /\ idx \in DOMAIN g_hooks
  <2>1. First(call[t]) # 0 /\ idx \in First(call[t]) .. Final(call[t]) + 1
    BY <1>1, <1>2 DEF Phase
  <2>2. First(call[t]) \in Nat /\ Final(call[t]) \in Nat
        /\ First(call[t]) .. Final(call[t]) \subseteq DOMAIN g_hooks
    BY <1>2, <2>1, RangeFacts
  <2> QED
    BY <1>1, <2>1, <2>2
<1>4. g_hooks[idx] \in Entry /\ on \in BOOLEAN
  <2>1. g_hooks[idx] \in Entry
    BY <1>2, <1>3 DEF View
  <2> QED
    BY <2>1 DEF Wanted, Entry
<1>5. /\ call[t].status = "pending" /\ g_hHeap /\ call[t].op \in SwitchingOps
      /\ Contract!Pending(t, call[t].op)
  <2>1. ~(idx > Final(call[t]))
    BY <1>1, <1>2, <1>3
  <2> QED
    BY <1>1, <1>2, <2>1, CallsFacts DEF Progress
<1>6. Contract!Switching(t)
  BY <1>5 DEF Contract!Switching, SwitchingOps
<1>7. Calls[t].op = call[t].op /\ Calls[t].arg = call[t].arg
  BY CallsFacts
<1>8. PICK f \in Target : f = g_hooks[idx].target
  BY <1>4 DEF Entry
<1>9. f \in Contract!Unswitched(t) /\ Contract!Goal(call[t].op, f) = on
  BY <1>1, <1>2, <1>3, <1>8, UnswitchedFacts DEF RInv
<1>10. One(call[t]) \/ call[t].arg = AllHooks \/ call[t].op = "Remove"
  <2>1. call[t].arg \in Api!Args(call[t].op)
    BY <1>1, <1>2 DEF Phase
  <2> QED
    BY <2>1, <1>5 DEF One, SwitchingOps, Api!Args
<1>11. call[t].arg = AllHooks \/ call[t].op = "Remove" => ~One(call[t])
  BY DEF One
<1> HIDE DEF on
<1>12. ASSUME g_hooks' = [g_hooks EXCEPT ![idx] = Switched(g_hooks[idx], on)], idx' = idx + 1
       PROVE  /\ Contract!SwitchTo(f, on)
              /\ \A c \in Call : call'[t] = c /\ c.op = call[t].op /\ c.arg = call[t].arg =>
                   /\ First(call[t])' = First(call[t]) /\ Final(call[t])' = Final(call[t])
                   /\ \A i \in First(call[t]) .. idx' - 1 :
                        g_hooks'[i].enabled = Wanted(c, g_hooks'[i])
  <2> DEFINE h == Switched(g_hooks[idx], on)
  <2>1. h.target = g_hooks[idx].target /\ h.enabled = on /\ h.queue = on
    BY <1>4 DEF Switched, Entry
  <2> HIDE DEF h
  <2>2. /\ DOMAIN g_hooks' = DOMAIN g_hooks /\ Len(g_hooks') = Len(g_hooks)
        /\ \A j \in DOMAIN g_hooks : g_hooks'[j] = IF j = idx THEN h ELSE g_hooks[j]
    BY <1>2, <1>12 DEF h, DataInv
  <2>3. \A j \in DOMAIN g_hooks : g_hooks'[j].target = g_hooks[j].target
    BY <2>1, <2>2
  <2>4. Contract!SwitchTo(f, on)
    BY <1>2, <1>3, <1>4, <1>8, <1>12, HookSwitched
  <2>5. ASSUME NEW c \in Call, call'[t] = c, c.op = call[t].op, c.arg = call[t].arg
        PROVE  /\ First(call[t])' = First(call[t]) /\ Final(call[t])' = Final(call[t])
               /\ \A i \in First(call[t]) .. idx' - 1 :
                    g_hooks'[i].enabled = Wanted(c, g_hooks'[i])
    <3>1. call'[t].arg = call[t].arg /\ SlotsAccountedFor
      BY <2>5 DEF RInv, IInv
    <3>2. First(call[t])' = First(call[t]) /\ Final(call[t])' = Final(call[t])
      BY <1>2, <2>2, <2>3, <3>1, SameTargets
    <3>3. ASSUME NEW i \in First(call[t]) .. idx' - 1
          PROVE  g_hooks'[i].enabled = Wanted(c, g_hooks'[i])
      <4>1. i \in First(call[t]) .. idx /\ i \in DOMAIN g_hooks
        <5>1. i \in First(call[t]) .. idx
          BY <1>2, <1>3, <1>12, <3>3
        <5>2. First(call[t]) # 0 /\ i \in First(call[t]) .. Final(call[t])
          BY <1>1, <1>2, <1>3, <5>1 DEF Phase
        <5> QED
          BY <1>2, <5>1, <5>2, RangeFacts
      <4>2. CASE i = idx
        <5>1. g_hooks'[i] = h
          BY <2>2, <4>1, <4>2
        <5>2. Wanted(c, h) = on
          BY <2>1, <2>5 DEF Wanted, on
        <5> QED
          BY <2>1, <5>1, <5>2
      <4>3. CASE i # idx
        <5>1. i \in First(call[t]) .. idx - 1
          BY <1>2, <1>3, <4>1, <4>3
        <5>2. g_hooks[i].enabled = Wanted(call[t], g_hooks[i])
          BY <1>1, <1>2, <5>1 DEF Progress
        <5> QED
          BY <2>2, <2>5, <4>1, <4>3, <5>2 DEF Wanted
      <4> QED
        BY <4>2, <4>3
    <3> QED
      BY <3>2, <3>3
  <2> QED
    BY <2>4, <2>5
<1>13. ASSUME ~One(call[t]), call' = call,
              g_hooks' = [g_hooks EXCEPT ![idx] = Switched(g_hooks[idx], on)], idx' = idx + 1
       PROVE  Simulated
  <2>1. /\ Contract!SwitchTo(f, on)
        /\ First(call[t])' = First(call[t]) /\ Final(call[t])' = Final(call[t])
        /\ \A i \in First(call[t]) .. idx' - 1 :
             g_hooks'[i].enabled = Wanted(call[t], g_hooks'[i])
    BY <1>2, <1>12, <1>13
  <2>2. Progress(call[t])'
    BY <1>1, <1>5, <1>13, <2>1 DEF Progress, One
  <2>3. call' = [call EXCEPT ![t] = call[t]]
    BY <1>2, <1>13 DEF DataInv
  <2>4. ProgressInv'
    BY <1>1, <1>2, <2>2, <2>3, OthersDoNotMove
  <2>5. Calls' = Calls
    BY <1>13 DEF Calls
  <2>6. Contract!SwitchOne(t)
    BY <1>1, <1>5, <1>6, <1>7, <1>9, <1>10, <1>13, <2>1, <2>5 DEF Contract!SwitchOne
  <2> QED
    BY <2>4, <2>6 DEF Simulated, Contract!Next
<1>14. ASSUME One(call[t]), call' = [call EXCEPT ![t].status = "OK"],
              g_hooks' = [g_hooks EXCEPT ![idx] = Switched(g_hooks[idx], on)], idx' = idx + 1
       PROVE  Simulated
  <2> DEFINE c == [call[t] EXCEPT !.status = "OK"]
  <2>1. c \in Call /\ c.step = "write" /\ c.op = call[t].op /\ c.arg = call[t].arg
        /\ c.status = "OK"
    BY <1>1, <1>2 DEF Call, Status
  <2>2. call' = [call EXCEPT ![t] = c] /\ call'[t] = c
    BY <1>2, <1>14 DEF DataInv
  <2> HIDE DEF c
  <2>3. /\ Contract!SwitchTo(f, on)
        /\ First(call[t])' = First(call[t]) /\ Final(call[t])' = Final(call[t])
        /\ \A i \in First(call[t]) .. idx' - 1 : g_hooks'[i].enabled = Wanted(c, g_hooks'[i])
    BY <1>12, <1>14, <2>1, <2>2
  <2>4. First(call[t]) = Final(call[t]) /\ First(call[t]) = idx
    <3>1. First(call[t]) = Final(call[t])
      BY <1>14 DEF One, First, Final
    <3> QED
      BY <1>2, <1>3, <3>1
  <2>5. idx' > Final(call[t]) /\ ~(idx' <= Final(call[t]))
    BY <1>2, <1>3, <1>14, <2>4
  <2>6. Progress(call[t])'
    BY <1>1, <1>5, <1>14, <2>1, <2>2, <2>3, <2>5 DEF Progress, One
  <2>7. ProgressInv'
    BY <1>1, <2>1, <2>2, <2>6, OthersDoNotMove
  <2>8. Contract!Answer(t, "OK")
    <3>1. Contract!Answer(t, c.status)
      BY <2>1, <2>2, StatusGiven DEF RInv
    <3> QED
      BY <2>1, <3>1
  <2>9. Contract!Unswitched(t) = {f}
    <3>1. \A i \in First(call[t]) .. Final(call[t]) : i = idx
      BY <1>2, <1>3, <2>4
    <3> QED
      BY <3>1, <1>8, <1>9, UnswitchedFacts DEF RInv
  <2>10. Calls[t].arg = f
    <3>1. call[t].arg \in Target /\ Find(call[t].arg) = idx
      BY <1>2, <1>14, <2>4 DEF One, First, Call
    <3>2. g_hooks[idx].target = call[t].arg
      BY <1>2, <1>3, <3>1 DEF View
    <3> QED
      BY <1>7, <1>8, <3>2
  <2>11. Contract!Pending(t, "Enable") \/ Contract!Pending(t, "Disable")
    BY <1>5, <1>14 DEF One
  <2>12. Contract!Switch(t)
    BY <1>1, <1>5, <1>7, <1>8, <1>9, <2>3, <2>8, <2>9, <2>10, <2>11 DEF Contract!Switch
  <2> QED
    BY <2>7, <2>12 DEF Simulated, Contract!Next
<1>15. ASSUME call' = [call EXCEPT ![t].step = "resume", ![t].status = "MEMORY_PROTECT"],
              UNCHANGED <<g_hooks, jump, idx>>
       PROVE  Simulated
  <2> DEFINE c == [call[t] EXCEPT !.step = "resume", !.status = "MEMORY_PROTECT"]
  <2>1. c \in Call /\ c.step = "resume" /\ c.op = call[t].op /\ c.arg = call[t].arg
        /\ c.status = "MEMORY_PROTECT"
    BY <1>2 DEF Call, Status, Step
  <2>2. call' = [call EXCEPT ![t] = c] /\ call'[t] = c
    BY <1>2, <1>15 DEF DataInv
  <2> HIDE DEF c
  <2>3. Progress(call[t])'
    BY <1>1, <1>5, <2>1, <2>2 DEF Progress
  <2>4. ProgressInv'
    BY <1>1, <2>1, <2>2, <2>3, OthersDoNotMove
  <2>5. Contract!Answer(t, "MEMORY_PROTECT")
    <3>1. Contract!Answer(t, c.status)
      BY <2>1, <2>2, StatusGiven DEF RInv
    <3> QED
      BY <2>1, <3>1
  <2>6. Contract!SwitchFails(t)
    BY <1>1, <1>5, <1>6, <1>9, <1>15, <2>5, SameHooks DEF Contract!SwitchFails
  <2> QED
    BY <2>4, <2>6 DEF Simulated, Contract!Next
<1> QED
  <2>1. \/ /\ g_hooks' = [g_hooks EXCEPT ![idx] = Switched(g_hooks[idx], on)] /\ idx' = idx + 1
           /\ call' = IF call[t].arg = AllHooks \/ call[t].op = "Remove" THEN call
                      ELSE [call EXCEPT ![t].status = "OK"]
        \/ /\ call' = [call EXCEPT ![t].step = "resume", ![t].status = "MEMORY_PROTECT"]
           /\ UNCHANGED <<g_hooks, jump, idx>>
    BY DEF EnableHookLL, on
  <2> QED
    BY <2>1, <1>10, <1>11, <1>13, <1>14, <1>15

LEMMA AllWrittenSeen ==
  ASSUME RInv, NEW t \in Thread, AllWritten(t)
  PROVE  Simulated
<1> DEFINE status == IF Removes(call[t]) THEN call[t].status ELSE "OK"
           c == [call[t] EXCEPT !.step = "resume", !.status = status]
<1>1. /\ call[t].step = "write" /\ idx > Final(call[t]) /\ Beyond(t)
      /\ call' = [call EXCEPT ![t].step = "resume", ![t].status = status]
      /\ UNCHANGED <<g_hHeap, g_hooks, idx>>
  BY DEF AllWritten, At, Beyond, Removes
<1>2. /\ call[t] \in Call /\ Phase(call[t]) /\ Progress(call[t]) /\ DataInv /\ idx \in Nat
      /\ call[t].status \in Status
  BY HolderFacts DEF RInv, ProgressInv
<1>3. /\ g_hHeap /\ call[t].op \in SwitchingOps
      /\ call[t].status = IF One(call[t]) THEN "OK" ELSE "pending"
  BY <1>1, <1>2 DEF Progress
<1>4. status \in Status /\ status # "none"
  BY <1>2, <1>3 DEF Status
<1>5. call' = [call EXCEPT ![t] = c] /\ call'[t] = c
  BY <1>1, <1>2 DEF DataInv
<1>6. c \in Call /\ c.step = "resume" /\ c.op = call[t].op /\ c.arg = call[t].arg
      /\ c.status = status
  BY <1>2, <1>4 DEF Call, Step
<1> HIDE DEF c
<1>7. Progress(call[t])'
  BY <1>1, <1>3, <1>4, <1>5, <1>6 DEF Progress
<1>8. ProgressInv'
  BY <1>1, <1>5, <1>6, <1>7, OthersDoNotMove
<1>9. CASE Removes(call[t]) \/ One(call[t])
  <2>1. status = call[t].status
    BY <1>3, <1>9
  <2>2. Calls' = Calls
    BY <1>5, <1>6, <2>1, CallUnseen DEF RInv
  <2> QED
    BY <1>1, <1>8, <2>2, SameHooks DEF Simulated, Contract!apivars
<1>10. CASE ~Removes(call[t]) /\ ~One(call[t])
  <2>1. call[t].op \in {"Enable", "Disable", "Apply"} /\ call[t].arg = AllHooks
    <3>1. call[t].arg \in Api!Args(call[t].op)
      BY <1>1, <1>2 DEF Phase
    <3> QED
      BY <3>1, <1>3, <1>10 DEF One, Removes, SwitchingOps, Api!Args
  <2>2. Contract!Answer(t, "OK")
    <3>1. Contract!Answer(t, c.status)
      BY <1>5, <1>6, StatusGiven DEF RInv
    <3>2. c.status = "OK"
      BY <1>6, <1>10
    <3> QED
      BY <3>1, <3>2
  <2>3. Contract!Unswitched(t) = {}
    <3>1. First(call[t]) \in Nat /\ Final(call[t]) \in Nat
      BY <1>2, RangeFacts
    <3>2. \A i \in First(call[t]) .. Final(call[t]) : i \in First(call[t]) .. idx - 1
      BY <1>1, <1>2, <3>1
    <3>3. \A i \in First(call[t]) .. Final(call[t]) :
            g_hooks[i].enabled = Wanted(call[t], g_hooks[i])
      BY <1>1, <1>2, <3>2 DEF Progress
    <3> QED
      BY <3>3, UnswitchedFacts DEF RInv
  <2>4. Contract!AllSwitched(t)
    BY <1>1, <1>3, <1>10, <2>1, <2>2, <2>3, CallsFacts, SameHooks DEF Contract!AllSwitched
  <2> QED
    BY <1>8, <2>4 DEF Simulated, Contract!Next
<1> QED
  BY <1>9, <1>10

LEMMA AllResumedSeen ==
  ASSUME RInv, NEW t \in Thread, AllResumed(t)
  PROVE  Simulated
<1> DEFINE step == IF call[t].status = "pending" THEN "finish" ELSE "leave"
<1>1. /\ call[t].step = "resume" /\ Beyond(t) /\ Goto(t, step)
      /\ UNCHANGED <<g_hHeap, g_hooks>>
  BY DEF AllResumed, At, Beyond
<1>2. call[t] \in Call /\ Progress(call[t]) /\ DataInv
  BY HolderFacts DEF RInv, ProgressInv
<1>3. call[t].status # "none" /\ g_hHeap /\ call[t].op \in SwitchingOps
  BY <1>1, <1>2 DEF Progress
<1>4. call'[t] = [call[t] EXCEPT !.step = step]
  BY <1>1, <1>2 DEF Goto, DataInv
<1>5. call'[t].step = step /\ call'[t].op = call[t].op /\ call'[t].status = call[t].status
  BY <1>2, <1>4 DEF Call
<1>6. Progress(call[t])'
  BY <1>1, <1>3, <1>5 DEF Progress
<1>7. step \in Step
  BY DEF Step
<1> QED
  BY <1>1, <1>6, <1>7, GotoUnseen

LEMMA FreeEntrySeen ==
  ASSUME RInv, IInv', NEW t \in Thread, FreeEntry(t)
  PROVE  Simulated
<1>1. /\ Beyond(t) /\ call[t].step = "finish" /\ call[t].op = "Remove" /\ Answer(t, "OK")
      /\ g_hooks' = Deleted(Find(call[t].arg)) /\ g_hHeap' = g_hHeap
      /\ "OK" \in Status \ {"none", "pending"}
  BY DEF FreeEntry, FreeBuffer, At, Beyond, Status
<1>2. Phase(call[t]) /\ Progress(call[t]) /\ DataInv /\ View /\ View'
  BY HolderFacts, ViewHolds, ViewStays DEF RInv, ProgressInv
<1>3. PICK f \in Target : f = call[t].arg /\ f # AllHooks
  <2>1. call[t].arg \in Api!Args("Remove")
    BY <1>1, <1>2 DEF Phase
  <2> QED
    BY <2>1, TargetAssumption DEF Api!Args
<1>4. /\ First(call[t]) = Find(f) /\ Final(call[t]) = Find(f) /\ Find(f) # 0
      /\ Find(f) \in DOMAIN g_hooks /\ g_hooks[Find(f)].target = f /\ ~g_hooks[Find(f)].enabled
  <2>1. First(call[t]) = Find(f) /\ Final(call[t]) = Find(f)
    BY <1>3 DEF First, Final
  <2>2. Find(f) # 0 /\ \A i \in Find(f) .. Find(f) : ~g_hooks[i].enabled
    BY <1>1, <1>2, <2>1 DEF Phase, Removes
  <2>3. Find(f) \in DOMAIN g_hooks /\ g_hooks[Find(f)].target = f /\ Find(f) \in Nat
    BY <1>2, <2>2 DEF View
  <2> QED
    BY <2>1, <2>2, <2>3
<1>5. PICK i \in DOMAIN g_hooks : i = Find(f)
  BY <1>4
<1>6. Hook[f] = "off"
  BY <1>2, <1>4 DEF View
<1>7. /\ Len(g_hooks) \in Nat \ {0}
      /\ DOMAIN g_hooks = 1 .. Len(g_hooks) /\ DOMAIN g_hooks' = 1 .. Len(g_hooks) - 1
      /\ \A j \in DOMAIN g_hooks' : g_hooks'[j] = g_hooks[IF j = i THEN Len(g_hooks) ELSE j]
  BY <1>1, <1>2, <1>3, <1>5, EntryDeleted
<1>8. ASSUME NEW e \in Target
      PROVE  /\ Hook'[e] = IF e = f THEN "none" ELSE Hook[e]
             /\ Queued'[e] = IF e = f THEN FALSE ELSE Queued[e]
  <2>1. CASE \E j \in DOMAIN g_hooks' : g_hooks'[j].target = e
    <3>1. PICK j \in DOMAIN g_hooks' : g_hooks'[j].target = e
      BY <2>1
    <3>2. PICK k \in DOMAIN g_hooks : k # i /\ g_hooks'[j] = g_hooks[k]
      <4>1. (IF j = i THEN Len(g_hooks) ELSE j) \in DOMAIN g_hooks \ {i}
        BY <1>7
      <4> QED
        BY <1>7, <4>1
    <3>3. e # f
      BY <1>2, <1>5, <3>1, <3>2 DEF View
    <3>4. Hook[e] = (IF g_hooks[k].enabled THEN "on" ELSE "off") /\ Queued[e] = g_hooks[k].queue
      BY <1>2, <3>1, <3>2 DEF View
    <3>5. Hook'[e] = (IF g_hooks'[j].enabled THEN "on" ELSE "off") /\ Queued'[e] = g_hooks'[j].queue
      BY <1>2, <3>1 DEF View
    <3> QED
      BY <3>2, <3>3, <3>4, <3>5
  <2>2. CASE \A j \in DOMAIN g_hooks' : g_hooks'[j].target # e
    <3>1. Hook'[e] = "none" /\ Queued'[e] = FALSE
      BY <1>2, <2>2 DEF View
    <3>2. CASE e # f
      <4>1. \A k \in DOMAIN g_hooks : g_hooks[k].target # e
        <5>1. ASSUME NEW k \in DOMAIN g_hooks, g_hooks[k].target = e
              PROVE  FALSE
          <6>1. k # i
            BY <1>4, <1>5, <3>2, <5>1
          <6>2. \E j \in DOMAIN g_hooks' : g_hooks'[j] = g_hooks[k]
            <7>1. CASE k = Len(g_hooks)
              <8>1. i \in DOMAIN g_hooks'
                BY <1>7, <6>1, <7>1
              <8> QED
                BY <1>7, <7>1, <8>1
            <7>2. CASE k # Len(g_hooks)
              <8>1. k \in DOMAIN g_hooks'
                BY <1>7, <7>2
              <8> QED
                BY <1>7, <6>1, <8>1
            <7> QED
              BY <7>1, <7>2
          <6> QED
            BY <2>2, <5>1, <6>2
        <5> QED
          BY <5>1
      <4> QED
        BY <1>2, <3>1, <3>2, <4>1 DEF View
    <3> QED
      BY <3>1, <3>2
  <2> QED
    BY <2>1, <2>2
<1>9. /\ {Hook, Hook'} \subseteq [Target -> {"none", "off", "on"}]
      /\ {Queued, Queued'} \subseteq [Target -> BOOLEAN]
  BY <1>2 DEF View
<1>10. Hook' = [Hook EXCEPT ![f] = "none"]
  BY <1>8, <1>9
<1>11. Queued' = [Queued EXCEPT ![f] = FALSE]
  BY <1>8, <1>9
<1>12. ProgressInv' /\ Contract!Answer(t, "OK")
  BY <1>1, AnswerSeen
<1>13. Contract!Pending(t, "Remove") /\ g_hHeap /\ Calls[t].arg = f
  BY <1>1, <1>2, <1>3, CallsFacts DEF Progress
<1>14. Contract!Remove(t)
  BY <1>1, <1>6, <1>10, <1>11, <1>12, <1>13 DEF Contract!Remove
<1> QED
  BY <1>12, <1>14 DEF Simulated, Contract!Next

LEMMA FreeAllSeen ==
  ASSUME RInv, IInv', NEW t \in Thread, FreeAll(t)
  PROVE  Simulated
<1>1. /\ Beyond(t) /\ call[t].step = "finish" /\ call[t].op = "Uninitialize"
      /\ Answer(t, "OK") /\ g_hHeap' = FALSE /\ g_hooks' = <<>>
      /\ "OK" \in Status \ {"none", "pending"}
  BY DEF FreeAll, At, Beyond, Status
<1>2. Phase(call[t]) /\ Progress(call[t]) /\ View'
  BY HolderFacts, ViewStays DEF RInv, ProgressInv
<1>3. Contract!Unswitched(t) = {}
  <2>1. \A i \in First(call[t]) .. Final(call[t]) : ~g_hooks[i].enabled
    BY <1>1, <1>2 DEF Phase
  <2>2. \A i \in DOMAIN g_hooks : Wanted(call[t], g_hooks[i]) = FALSE /\ g_hooks[i] \in Entry
    BY <1>1, ViewHolds DEF Wanted, RInv, View
  <2>3. \A i \in DOMAIN g_hooks : i \in First(call[t]) .. Final(call[t]) =>
          g_hooks[i].enabled = Wanted(call[t], g_hooks[i])
    BY <2>1, <2>2 DEF Entry
  <2> QED
    BY <2>3, UnswitchedFacts DEF RInv
<1>4. ASSUME NEW f \in Target
      PROVE  Hook'[f] = "none" /\ Queued'[f] = FALSE
  <2>1. DOMAIN g_hooks' = {}
    BY <1>1
  <2> QED
    BY <1>2, <2>1 DEF View
<1>5. Hook' = [f \in Target |-> "none"]
  BY <1>2, <1>4 DEF View
<1>6. Queued' = [f \in Target |-> FALSE]
  BY <1>2, <1>4 DEF View
<1>7. ProgressInv' /\ Contract!Answer(t, "OK")
  BY <1>1, AnswerSeen
<1>8. Contract!Pending(t, "Uninitialize") /\ g_hHeap
  BY <1>1, <1>2, CallsFacts DEF Progress
<1>9. Contract!Uninitialize(t)
  BY <1>1, <1>3, <1>5, <1>6, <1>7, <1>8 DEF Contract!Uninitialize
<1> QED
  BY <1>7, <1>9 DEF Simulated, Contract!Next

-------------------------------------------------------------------------------
LEMMA InitiallySeen ==
  Init => ProgressInv /\ Contract!Init
<1> SUFFICES ASSUME Init
             PROVE  ProgressInv /\ Contract!Init
  OBVIOUS
<1>1. \A t \in Thread : call[t] = Idle
  BY DEF Init
<1>2. ProgressInv
  BY <1>1 DEF ProgressInv, Progress, Idle
<1>3. Hook = [f \in Target |-> "none"] /\ Queued = [f \in Target |-> FALSE]
  <2>1. \A f : Find(f) = 0
    BY DEF Init, Find
  <2> QED
    BY <2>1 DEF Hook, Queued
<1>4. Calls = [t \in Thread |-> Contract!NoCall]
  BY <1>1 DEF Calls, Contract!NoCall, Idle
<1> QED
  BY <1>2, <1>3, <1>4 DEF Init, Contract!Init

LEMMA StepSeen ==
  RInv /\ IInv' /\ [Next]_vars => Simulated
<1> SUFFICES ASSUME RInv, IInv', [Next]_vars
             PROVE  Simulated
  OBVIOUS
<1>1. CASE UNCHANGED vars
  BY <1>1, UnseenStep DEF vars
<1>2. ASSUME NEW t \in Thread, Run(t)
      PROVE  Simulated
  <2>1. UNCHANGED <<g_hHeap, g_hooks, call, idx>>
    BY <1>2 DEF Run, CallTarget, StepTarget, LeaveTarget, LongJump, LeaveDetour,
                StepTrampoline, MoveTo
  <2> QED
    BY <2>1, UnseenStep
<1>3. ASSUME NEW t \in Thread, NEW u \in Thread, SuspendThread(t, u) \/ ResumeThread(t, u)
      PROVE  Simulated
  <2>1. UNCHANGED <<g_hHeap, g_hooks, call, idx>>
    BY <1>3 DEF SuspendThread, ResumeThread
  <2> QED
    BY <2>1, UnseenStep
<1>4. ASSUME NEW t \in Thread, Critical(t)
      PROVE  Simulated
  BY <1>3, <1>4, NotInitializedSeen, InitializeSeen, CreateHookSeen, EnableHookSeen,
     EnableAllHooksSeen, RemoveHookSeen, QueueHookSeen, AllSuspendedSeen, SkipEntrySeen,
     EnableHookLLSeen, AllWrittenSeen, AllResumedSeen, FreeEntrySeen, FreeAllSeen,
     LeaveSpinLockSeen DEF Critical
<1> QED
  BY <1>1, <1>2, <1>4, BeginCallSeen, EnterSpinLockSeen DEF Next

(***************************************************************************)
(* The engine keeps MinHook.h's promises: what callers see of calls that   *)
(* wait for the lock, freeze the process, change code hook by hook and     *)
(* fail anywhere on the way is a run of HookApi.                           *)
(***************************************************************************)
THEOREM ImplementsContract == Spec => ContractSpec
<1>1. RInv /\ IInv' /\ [Next]_vars => RInv'
  BY StepSeen DEF Simulated, RInv
<1>2. RInv /\ IInv' /\ [Next]_vars => [Contract!Next]_(Contract!apivars)
  BY StepSeen DEF Simulated
<1>3. Init => RInv /\ Contract!Init
  BY InitialState, InitiallySeen DEF RInv
<1> QED
  BY <1>1, <1>2, <1>3, MinHookInvariant, PTL DEF Spec, ContractSpec, Contract!Spec
===============================================================================
