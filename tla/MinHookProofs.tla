----------------------------- MODULE MinHookProofs -----------------------------
(***************************************************************************)
(* The engine, for any threads, targets, slots, operations and failures.   *)
(***************************************************************************)
EXTENDS MinHook, TLAPS

-------------------------------------------------------------------------------
(***************************************************************************)
(* The inductive invariant.                                                *)
(***************************************************************************)
Entry == [target : Target, slot : Slot, enabled : BOOLEAN, queue : BOOLEAN]

Step == {"idle", "spin", "body", "suspend", "write", "resume", "finish", "leave"}

Status ==
  {"none", "pending", "OK", "MEMORY_ALLOC", "MEMORY_PROTECT", "NOT_INITIALIZED",
   "ALREADY_INITIALIZED", "ALREADY_CREATED", "NOT_CREATED", "NOT_EXECUTABLE",
   "UNSUPPORTED_FUNCTION", "ENABLED", "DISABLED"}

Call == [op : Api!Op \union {"none"}, arg : Target \union {AllHooks}, step : Step,
         status : Status]

DataInv ==
  TypeOK /\ g_hooks \in Seq(Entry) /\ call \in [Thread -> Call]

\* Whoever is beyond the spin lock holds it.
LockInv ==
  \A t \in Thread : call[t].step \notin {"idle", "spin"} => g_isLocked = t

Removes(c) == c.op \in {"Remove", "Uninitialize"}

\* The entries a call goes through exist; the loop is at one of them, or behind.
\* Those behind it are off if they are about to be deleted.
Phase(c) ==
  /\ c.step # "idle" => c.arg \in Api!Args(c.op)
  /\ c.step \in {"suspend", "write"} \/ (c.step \in {"resume", "finish"} /\ Removes(c)) =>
       First(c) # 0
  /\ c.step = "suspend" => idx = First(c)
  /\ c.step = "write" => idx \in First(c) .. Final(c) + 1
  /\ c.step = "write" /\ Removes(c) =>
       \A i \in First(c) .. idx - 1 : ~g_hooks[i].enabled
  /\ (c.step = "resume" /\ c.status = "pending") \/ c.step = "finish" =>
       Removes(c) /\ \A i \in First(c) .. Final(c) : ~g_hooks[i].enabled

PhaseInv == \A t \in Thread : Phase(call[t])

\* Who is not suspended yet is on the list, or was overlooked.
FreezeInv ==
  \A t \in Thread :
    /\ call[t].step = "suspend" => Thread \ {t} \subseteq left \union suspended \union missed
    /\ call[t].step = "write" => Thread \ {t} \subseteq suspended \union missed

IInv ==
  DataInv /\ LockInv /\ PhaseInv /\ FreezeInv /\ SlotsAccountedFor /\ CodeMatchesEntries

-------------------------------------------------------------------------------
(***************************************************************************)
(* Entries.                                                                *)
(***************************************************************************)
LEMMA FindFacts ==
  ASSUME DataInv, NEW f \in Target
  PROVE  /\ Find(f) = 0 \/ (Find(f) \in DOMAIN g_hooks /\ g_hooks[Find(f)].target = f)
         /\ Find(f) = 0 <=> \A i \in DOMAIN g_hooks : g_hooks[i].target # f
<1>1. DOMAIN g_hooks = 1 .. Len(g_hooks) /\ Len(g_hooks) \in Nat
  BY DEF DataInv
<1>2. CASE \E i \in DOMAIN g_hooks : g_hooks[i].target = f
  <2>1. Find(f) \in DOMAIN g_hooks /\ g_hooks[Find(f)].target = f
    BY <1>2 DEF Find
  <2>2. Find(f) # 0
    BY <2>1, <1>1
  <2> QED
    BY <2>1, <2>2, <1>2
<1>3. CASE ~ \E i \in DOMAIN g_hooks : g_hooks[i].target = f
  BY <1>3 DEF Find
<1> QED
  BY <1>2, <1>3

\* The entries a call goes through are entries.
LEMMA RangeFacts ==
  ASSUME DataInv, NEW c \in Call
  PROVE  /\ First(c) \in 0 .. Len(g_hooks) + 1 /\ Final(c) \in 0 .. Len(g_hooks)
         /\ Len(g_hooks) \in Nat /\ DOMAIN g_hooks = 1 .. Len(g_hooks)
         /\ First(c) <= Final(c) + 1
         /\ First(c) # 0 => First(c) .. Final(c) \subseteq DOMAIN g_hooks
<1>1. DOMAIN g_hooks = 1 .. Len(g_hooks) /\ Len(g_hooks) \in Nat
  BY DEF DataInv
<1>2. CASE c.arg = AllHooks
  BY <1>1, <1>2 DEF First, Final
<1>3. CASE c.arg # AllHooks
  <2>1. c.arg \in Target
    BY <1>3 DEF Call
  <2>2. First(c) = Find(c.arg) /\ Final(c) = Find(c.arg)
    BY <1>3 DEF First, Final
  <2>3. Find(c.arg) = 0 \/ Find(c.arg) \in DOMAIN g_hooks
    BY <2>1, FindFacts
  <2> QED
    BY <1>1, <2>2, <2>3
<1> QED
  BY <1>2, <1>3

LEMMA SameEntries ==
  ASSUME NEW t, g_hooks' = g_hooks, call'[t].arg = call[t].arg
  PROVE  First(call[t])' = First(call[t]) /\ Final(call[t])' = Final(call[t])
BY DEF First, Final, Find

\* Entries that are switched or queued stay where they are.
LEMMA SameTargets ==
  ASSUME DataInv, SlotsAccountedFor, NEW t \in Thread, call'[t].arg = call[t].arg,
         DOMAIN g_hooks' = DOMAIN g_hooks, Len(g_hooks') = Len(g_hooks),
         \A i \in DOMAIN g_hooks : g_hooks'[i].target = g_hooks[i].target
  PROVE  First(call[t])' = First(call[t]) /\ Final(call[t])' = Final(call[t])
<1>1. ASSUME NEW f \in Target
      PROVE  Find(f)' = Find(f)
  <2>1. CASE Find(f) = 0
    BY <2>1, FindFacts DEF Find
  <2>2. CASE Find(f) # 0
    <3>1. Find(f) \in DOMAIN g_hooks /\ g_hooks[Find(f)].target = f
      BY <2>2, FindFacts
    <3>2. \A i \in DOMAIN g_hooks' : g_hooks'[i].target = f => i = Find(f)
      BY <3>1 DEF SlotsAccountedFor
    <3>3. \E i \in DOMAIN g_hooks' : g_hooks'[i].target = f
      BY <3>1
    <3>4. Find(f)' \in DOMAIN g_hooks' /\ g_hooks'[Find(f)'].target = f
      BY <3>3 DEF Find
    <3> QED
      BY <3>2, <3>4
  <2> QED
    BY <2>1, <2>2
<1>2. call[t].arg \in Target \union {AllHooks}
  BY DEF DataInv, Call
<1>3. CASE call[t].arg = AllHooks
  BY <1>3 DEF First, Final
<1>4. CASE call[t].arg # AllHooks
  <2>1. PICK f \in Target : f = call[t].arg /\ f = call'[t].arg
    BY <1>2, <1>4
  <2>2. Find(call[t].arg)' = Find(f)' /\ Find(call[t].arg) = Find(f)
    BY <2>1 DEF Find
  <2> QED
    BY <2>1, <2>2, <1>1, <1>4 DEF First, Final
<1> QED
  BY <1>2, <1>3, <1>4

LEMMA RelocatedFacts ==
  ASSUME DataInv, NEW c \in Call, First(c) # 0, NEW p \in Place
  PROVE  Relocated(c, p) \in Place
<1>1. ASSUME NEW i \in First(c) .. Final(c)
      PROVE  NewIP(g_hooks[i], p) \subseteq Place /\ OldIP(g_hooks[i], p) \subseteq Place
  <2>1. g_hooks[i] \in Entry
    BY <1>1, RangeFacts DEF DataInv
  <2>2. g_hooks[i].target \in Target /\ g_hooks[i].slot \in Slot
    BY <2>1 DEF Entry
  <2>3. NewIP(g_hooks[i], p) \subseteq Place
    BY <2>2 DEF NewIP, Place
  <2>4. OldIP(g_hooks[i], p) \subseteq Place
    BY <2>2 DEF OldIP, Place
  <2> QED
    BY <2>3, <2>4
<1> DEFINE Moves(i) == LET h == g_hooks[i] IN
                         IF h.enabled = FreezeWants(c, h) THEN {}
                         ELSE IF FreezeWants(c, h) THEN NewIP(h, p) ELSE OldIP(h, p)
           moves == UNION {Moves(i) : i \in First(c) .. Final(c)}
<1>2. \A i \in First(c) .. Final(c) : Moves(i) \subseteq Place
  BY <1>1
<1>3. moves \subseteq Place
  <2> HIDE DEF Moves
  <2> QED
    BY <1>2
<1>4. Relocated(c, p) = IF moves = {} THEN p ELSE CHOOSE q \in moves : TRUE
  BY DEF Relocated
<1> HIDE DEF moves
<1> QED
  BY <1>3, <1>4

-------------------------------------------------------------------------------
(***************************************************************************)
(* One thread at a time is beyond the spin lock.                           *)
(***************************************************************************)
Beyond(t) == call[t].step \notin {"idle", "spin"}

LEMMA Alone ==
  ASSUME IInv, NEW t \in Thread, Beyond(t)
  PROVE  /\ g_isLocked = t /\ g_isLocked # None /\ call[t] \in Call /\ Phase(call[t])
         /\ \A u \in Thread \ {t} : ~Beyond(u)
BY NoneAssumption DEF IInv, LockInv, DataInv, PhaseInv, Beyond

\* What the others' calls need does not change while the holder works.
LEMMA OthersWait ==
  ASSUME IInv, NEW t \in Thread, Beyond(t), NEW c \in Call,
         call' = [call EXCEPT ![t] = c], g_isLocked' = g_isLocked, Phase(call[t])'
  PROVE  /\ call' \in [Thread -> Call] /\ LockInv' /\ PhaseInv'
         /\ c.step \notin {"suspend", "write"} => FreezeInv'
<1>1. call' \in [Thread -> Call] /\ call'[t] = c
      /\ \A u \in Thread \ {t} : call'[u] = call[u]
  BY DEF IInv, DataInv
<1>2. g_isLocked' = t /\ \A u \in Thread \ {t} : call[u].step \in {"idle", "spin"}
  BY Alone DEF Beyond
<1>3. LockInv'
  BY <1>1, <1>2 DEF LockInv
<1>4. ASSUME NEW u \in Thread \ {t}
      PROVE  Phase(call[u])'
  <2>1. call'[u].step \in {"idle", "spin"} /\ Phase(call[u])
    BY <1>1, <1>2 DEF IInv, PhaseInv
  <2> QED
    BY <2>1, <1>1 DEF Phase
<1>5. PhaseInv'
  BY <1>1, <1>4 DEF PhaseInv
<1>6. c.step \notin {"suspend", "write"} => FreezeInv'
  BY <1>1, <1>2 DEF FreezeInv
<1> QED
  BY <1>1, <1>3, <1>5, <1>6

-------------------------------------------------------------------------------
(***************************************************************************)
(* The hooked program.                                                     *)
(***************************************************************************)
LEMMA RunStep ==
  ASSUME IInv, NEW t \in Thread, Run(t)
  PROVE  IInv'
<1>1. \E p \in Place : MoveTo(t, p)
  <2>1. \A f \in Called : f \in Target
    BY TargetAssumption
  <2>2. ASSUME NEW f \in Called, CallTarget(t, f)
        PROVE  \E p \in Place : MoveTo(t, p)
    <3>1. <<"target", f, 0>> \in Place
      BY <2>1 DEF Place
    <3> QED
      BY <3>1, <2>2 DEF CallTarget
  <2>3. ASSUME NEW f \in Called, StepTarget(t, f)
        PROVE  \E p \in Place : MoveTo(t, p)
    <3>1. <<"target", f, 1>> \in Place /\ <<"detour", f>> \in Place
          /\ (f \in Above => <<"above", f>> \in Place)
      BY <2>1 DEF Place
    <3> QED
      BY <3>1, <2>3 DEF StepTarget
  <2>4. ASSUME NEW f \in Called, LeaveTarget(t, f)
        PROVE  \E p \in Place : MoveTo(t, p)
    BY <2>4 DEF LeaveTarget, Place
  <2>5. ASSUME NEW f \in Called, LongJump(t, f)
        PROVE  \E p \in Place : MoveTo(t, p)
    <3>1. <<"detour", f>> \in Place
      BY <2>1 DEF Place
    <3> QED
      BY <3>1, <2>5 DEF LongJump
  <2>6. ASSUME NEW f \in Called, LeaveDetour(t, f)
        PROVE  \E p \in Place : MoveTo(t, p)
    <3>1. original[f] # None => original[f] \in Slot
      BY <2>1 DEF IInv, DataInv, TypeOK
    <3>2. original[f] # None => <<"slot", original[f], 0>> \in Place
      BY <3>1 DEF Place
    <3>3. <<"out">> \in Place
      BY DEF Place
    <3> QED
      BY <3>2, <3>3, <2>6 DEF LeaveDetour
  <2>7. ASSUME NEW s \in Slot, StepTrampoline(t, s)
        PROVE  \E p \in Place : MoveTo(t, p)
    <3>1. <<"slot", s, 1>> \in Place /\ <<"slot", s, 2>> \in Place /\ <<"out">> \in Place
      BY DEF Place
    <3>2. \A i \in 0 .. 1 : <<"slot", s, i + 1>> \in Place
      BY <3>1
    <3> QED
      BY <3>1, <3>2, <2>7 DEF StepTrampoline
  <2> QED
    BY <2>2, <2>3, <2>4, <2>5, <2>6, <2>7 DEF Run
<1>2. PICK p \in Place : MoveTo(t, p)
  BY <1>1
<1>3. /\ UNCHANGED <<g_isLocked, g_hHeap, g_hooks, free, jump, original, call,
                     left, frozen, idx, suspended>>
      /\ ip' = [ip EXCEPT ![t] = p]
      /\ missed' \subseteq missed /\ (g_isLocked # None => missed' = missed)
  BY <1>2 DEF MoveTo
<1>4. DataInv'
  BY <1>3 DEF IInv, DataInv, TypeOK
<1>5. LockInv'
  BY <1>3 DEF IInv, LockInv
<1>6. PhaseInv'
  <2>1. ASSUME NEW u \in Thread
        PROVE  Phase(call[u])'
    <3>1. First(call[u])' = First(call[u]) /\ Final(call[u])' = Final(call[u])
      BY <1>3, SameEntries
    <3>2. Phase(call[u])
      BY DEF IInv, PhaseInv
    <3> QED
      BY <3>1, <3>2, <1>3 DEF Phase, Removes
  <2> QED
    BY <2>1 DEF PhaseInv
<1>7. FreezeInv'
  <2>1. ASSUME NEW u \in Thread, Beyond(u)
        PROVE  missed' = missed
    BY <2>1, <1>3, Alone
  <2> QED
    BY <2>1, <1>3 DEF IInv, FreezeInv, Beyond
<1>8. SlotsAccountedFor' /\ CodeMatchesEntries'
  BY <1>3, <1>4 DEF IInv, DataInv, SlotsAccountedFor, CodeMatchesEntries, Entries
<1> QED
  BY <1>4, <1>5, <1>6, <1>7, <1>8 DEF IInv

-------------------------------------------------------------------------------
(***************************************************************************)
(* Calls begin, and enter and leave the lock.                              *)
(***************************************************************************)
\* Phases of calls do not depend on anything but the entries and the loop.
LEMMA PhaseKept ==
  ASSUME IInv, NEW u \in Thread, g_hooks' = g_hooks, idx' = idx, call'[u] = call[u]
  PROVE  Phase(call[u])'
<1>1. First(call[u])' = First(call[u]) /\ Final(call[u])' = Final(call[u])
  BY SameEntries
<1>2. Phase(call[u])
  BY DEF IInv, PhaseInv
<1> QED
  BY <1>1, <1>2 DEF Phase, Removes

LEMMA BeginCallStep ==
  ASSUME IInv, NEW t \in Thread, NEW o \in Ops, NEW a \in Api!Args(o), BeginCall(t, o, a)
  PROVE  IInv'
<1>1. /\ call[t].step = "idle"
      /\ call' = [call EXCEPT ![t] =
                    [op |-> o, arg |-> a, step |-> "spin", status |-> "pending"]]
      /\ UNCHANGED <<g_isLocked, g_hHeap, g_hooks, free, jump, original,
                     left, frozen, idx, suspended, ip, missed>>
  BY DEF BeginCall, Runs
<1>2. [op |-> o, arg |-> a, step |-> "spin", status |-> "pending"] \in Call
  BY OpsAssumption DEF Call, Step, Status, Api!Args
<1>3. call' \in [Thread -> Call] /\ call'[t].step = "spin" /\ call'[t].op = o /\ call'[t].arg = a
      /\ \A u \in Thread \ {t} : call'[u] = call[u]
  BY <1>1, <1>2 DEF IInv, DataInv
<1>4. DataInv'
  BY <1>1, <1>3 DEF IInv, DataInv, TypeOK
<1>5. LockInv'
  BY <1>1, <1>3 DEF IInv, LockInv
<1>6. PhaseInv'
  <2>1. Phase(call[t])'
    BY <1>3 DEF Phase
  <2>2. \A u \in Thread \ {t} : Phase(call[u])'
    BY <1>1, <1>3, PhaseKept
  <2> QED
    BY <2>1, <2>2 DEF PhaseInv
<1>7. FreezeInv'
  BY <1>1, <1>3 DEF IInv, FreezeInv
<1>8. SlotsAccountedFor' /\ CodeMatchesEntries'
  BY <1>1, <1>4 DEF IInv, DataInv, SlotsAccountedFor, CodeMatchesEntries, Entries
<1> QED
  BY <1>4, <1>5, <1>6, <1>7, <1>8 DEF IInv

LEMMA EnterSpinLockStep ==
  ASSUME IInv, NEW t \in Thread, EnterSpinLock(t)
  PROVE  IInv'
<1>1. /\ call[t].step = "spin" /\ g_isLocked = None /\ g_isLocked' = t
      /\ call' = [call EXCEPT ![t].step = "body"]
      /\ UNCHANGED <<g_hHeap, g_hooks, free, jump, original,
                     left, frozen, idx, suspended, ip, missed>>
  BY DEF EnterSpinLock, At, Goto
<1>2. /\ call' \in [Thread -> Call]
      /\ call'[t] = [call[t] EXCEPT !.step = "body"]
      /\ call'[t].step = "body" /\ call'[t].op = call[t].op /\ call'[t].arg = call[t].arg
      /\ \A u \in Thread \ {t} : call'[u] = call[u]
  BY <1>1 DEF IInv, DataInv, Call, Step
<1>3. DataInv'
  BY <1>1, <1>2 DEF IInv, DataInv, TypeOK
<1>4. LockInv'
  <2>1. \A u \in Thread : call[u].step \in {"idle", "spin"}
    BY <1>1, NoneAssumption DEF IInv, LockInv
  <2> QED
    BY <2>1, <1>1, <1>2 DEF LockInv
<1>5. PhaseInv'
  <2>1. Phase(call[t])
    BY DEF IInv, PhaseInv
  <2>2. Phase(call[t])'
    BY <2>1, <1>1, <1>2 DEF Phase
  <2>3. \A u \in Thread \ {t} : Phase(call[u])'
    BY <1>1, <1>2, PhaseKept
  <2> QED
    BY <2>2, <2>3 DEF PhaseInv
<1>6. FreezeInv'
  BY <1>1, <1>2 DEF IInv, FreezeInv
<1>7. SlotsAccountedFor' /\ CodeMatchesEntries'
  BY <1>1, <1>3 DEF IInv, DataInv, SlotsAccountedFor, CodeMatchesEntries, Entries
<1> QED
  BY <1>3, <1>4, <1>5, <1>6, <1>7 DEF IInv

LEMMA LeaveSpinLockStep ==
  ASSUME IInv, NEW t \in Thread, LeaveSpinLock(t)
  PROVE  IInv'
<1>1. /\ call[t].step = "leave" /\ g_isLocked' = None
      /\ call' = [call EXCEPT ![t] = Idle]
      /\ UNCHANGED <<g_hHeap, g_hooks, free, jump, original,
                     left, frozen, idx, suspended, ip, missed>>
  BY DEF LeaveSpinLock, At
<1>2. /\ call' \in [Thread -> Call] /\ call'[t].step = "idle"
      /\ \A u \in Thread \ {t} : call'[u] = call[u]
  BY <1>1 DEF IInv, DataInv, Call, Step, Status, Idle
<1>3. DataInv'
  BY <1>1, <1>2 DEF IInv, DataInv, TypeOK
<1>4. LockInv'
  BY <1>1, <1>2, Alone DEF LockInv, Beyond
<1>5. PhaseInv'
  <2>1. Phase(call[t])'
    BY <1>2 DEF Phase
  <2>2. \A u \in Thread \ {t} : Phase(call[u])'
    BY <1>1, <1>2, PhaseKept
  <2> QED
    BY <2>1, <2>2 DEF PhaseInv
<1>6. FreezeInv'
  BY <1>1, <1>2 DEF IInv, FreezeInv
<1>7. SlotsAccountedFor' /\ CodeMatchesEntries'
  BY <1>1, <1>3 DEF IInv, DataInv, SlotsAccountedFor, CodeMatchesEntries, Entries
<1> QED
  BY <1>3, <1>4, <1>5, <1>6, <1>7 DEF IInv

-------------------------------------------------------------------------------
(***************************************************************************)
(* Calls that answer without stopping the others.                          *)
(***************************************************************************)
LEMMA AnswerFacts ==
  ASSUME IInv, NEW t \in Thread, Beyond(t), NEW s \in Status, Answer(t, s),
         g_isLocked' = g_isLocked
  PROVE  call' \in [Thread -> Call] /\ LockInv' /\ PhaseInv' /\ FreezeInv'
<1> DEFINE c == [call[t] EXCEPT !.step = "leave", !.status = s]
<1>1. call[t] \in Call
  BY DEF IInv, DataInv
<1>2. c \in Call /\ c.step = "leave" /\ c.op = call[t].op /\ c.arg = call[t].arg
  BY <1>1 DEF Call, Step
<1>3. call' = [call EXCEPT ![t] = c] /\ call'[t] = c
  BY DEF Answer, IInv, DataInv
<1> HIDE DEF c
<1>4. Phase(call[t])'
  <2>1. call[t].arg \in Api!Args(call[t].op)
    BY DEF IInv, PhaseInv, Phase, Beyond
  <2>2. call'[t].step = "leave" /\ call'[t].arg \in Api!Args(call'[t].op)
    BY <2>1, <1>2, <1>3
  <2> QED
    BY <2>2 DEF Phase
<1> QED
  BY <1>2, <1>3, <1>4, OthersWait

LEMMA RefuseStep ==
  ASSUME IInv, NEW t \in Thread, Beyond(t), NEW s \in Status, Refuse(t, s)
  PROVE  IInv'
<1>1. /\ Answer(t, s)
      /\ UNCHANGED <<g_isLocked, g_hHeap, g_hooks, free, jump, original,
                     left, frozen, idx, suspended, ip, missed>>
  BY DEF Refuse
<1>2. call' \in [Thread -> Call] /\ LockInv' /\ PhaseInv' /\ FreezeInv'
  BY <1>1, AnswerFacts
<1>3. DataInv'
  BY <1>1, <1>2 DEF IInv, DataInv, TypeOK
<1>4. SlotsAccountedFor' /\ CodeMatchesEntries'
  BY <1>1, <1>3 DEF IInv, DataInv, SlotsAccountedFor, CodeMatchesEntries, Entries
<1> QED
  BY <1>2, <1>3, <1>4 DEF IInv

LEMMA InitializeStep ==
  ASSUME IInv, NEW t \in Thread, MH_Initialize(t)
  PROVE  IInv'
<1>1. Beyond(t) /\ {"ALREADY_INITIALIZED", "MEMORY_ALLOC", "OK"} \subseteq Status
  BY DEF MH_Initialize, In, At, Beyond, Status
<1>2. CASE Refuse(t, "ALREADY_INITIALIZED") \/ Refuse(t, "MEMORY_ALLOC")
  BY <1>1, <1>2, RefuseStep
<1>3. CASE /\ g_hHeap' = TRUE /\ Answer(t, "OK")
           /\ UNCHANGED <<g_isLocked, g_hooks, free, jump, original,
                          left, frozen, idx, suspended, ip, missed>>
  <2>1. call' \in [Thread -> Call] /\ LockInv' /\ PhaseInv' /\ FreezeInv'
    BY <1>1, <1>3, AnswerFacts
  <2>2. DataInv'
    BY <1>3, <2>1 DEF IInv, DataInv, TypeOK
  <2>3. SlotsAccountedFor' /\ CodeMatchesEntries'
    BY <1>3, <2>2 DEF IInv, DataInv, SlotsAccountedFor, CodeMatchesEntries, Entries
  <2> QED
    BY <2>1, <2>2, <2>3 DEF IInv
<1> QED
  BY <1>2, <1>3 DEF MH_Initialize

\* A new entry behind the others.
LEMMA EntryAppended ==
  ASSUME DataInv, NEW h \in Entry, g_hooks' = Append(g_hooks, h)
  PROVE  /\ g_hooks' \in Seq(Entry) /\ Len(g_hooks') = Len(g_hooks) + 1
         /\ Len(g_hooks) \in Nat /\ DOMAIN g_hooks = 1 .. Len(g_hooks)
         /\ DOMAIN g_hooks' = 1 .. Len(g_hooks) + 1
         /\ \A i \in DOMAIN g_hooks : g_hooks'[i] = g_hooks[i]
         /\ g_hooks'[Len(g_hooks) + 1] = h
         /\ Entries' = Entries \union {h}
<1>1. /\ g_hooks' \in Seq(Entry) /\ Len(g_hooks') = Len(g_hooks) + 1
      /\ Len(g_hooks) \in Nat /\ DOMAIN g_hooks = 1 .. Len(g_hooks)
      /\ DOMAIN g_hooks' = 1 .. Len(g_hooks) + 1
      /\ g_hooks'[Len(g_hooks) + 1] = h
  BY DEF DataInv
<1>2. \A i \in DOMAIN g_hooks : g_hooks'[i] = g_hooks[i]
  BY DEF DataInv
<1>3. Entries' \subseteq Entries \union {h}
  <2>1. ASSUME NEW i \in DOMAIN g_hooks'
        PROVE  g_hooks'[i] \in Entries \union {h}
    <3>1. i \in DOMAIN g_hooks \/ i = Len(g_hooks) + 1
      BY <1>1
    <3> QED
      BY <3>1, <1>1, <1>2 DEF Entries
  <2> QED
    BY <2>1 DEF Entries
<1>4. Entries \union {h} \subseteq Entries'
  <2>1. \A i \in DOMAIN g_hooks : i \in DOMAIN g_hooks'
    BY <1>1
  <2>2. Len(g_hooks) + 1 \in DOMAIN g_hooks'
    BY <1>1
  <2> QED
    BY <1>1, <1>2, <2>1, <2>2 DEF Entries
<1> QED
  BY <1>1, <1>2, <1>3, <1>4

\* A slot taken and given back is a call that only looked.
LEMMA GivenBack ==
  ASSUME NEW t \in Thread, NEW s \in free, NEW status, GiveBack(t, s, status)
  PROVE  Refuse(t, status)
<1>1. FreeBuffer(free \ {s}, s) = free
  BY DEF FreeBuffer
<1> QED
  BY <1>1 DEF GiveBack, Refuse

LEMMA CreateHookStep ==
  ASSUME IInv, NEW t \in Thread, MH_CreateHook(t)
  PROVE  IInv'
<1>1. Beyond(t) /\ call[t].op = "Create"
      /\ {"NOT_EXECUTABLE", "ALREADY_CREATED", "MEMORY_ALLOC", "UNSUPPORTED_FUNCTION", "OK"}
           \subseteq Status
  BY DEF MH_CreateHook, In, At, Beyond, Status
<1>2. CASE \E s \in Status : Refuse(t, s)
  BY <1>1, <1>2, RefuseStep
<1>3. PICK f \in Target : f = call[t].arg
  <2>1. call[t].arg \in Api!Args(call[t].op)
    BY <1>1 DEF IInv, PhaseInv, Phase, Beyond
  <2> QED
    BY <2>1, <1>1 DEF Api!Args
<1>4. ASSUME NEW s \in free, Find(f) = 0, free' = free \ {s},
             g_hooks' = Append(g_hooks, NewEntry(f, s)),
             original' = [original EXCEPT ![f] = s], Answer(t, "OK"),
             UNCHANGED <<g_isLocked, g_hHeap, jump, left, frozen, idx, suspended, ip, missed>>
      PROVE  IInv'
  <2> DEFINE h == NewEntry(f, s)
  <2>1. h \in Entry /\ h.slot = s /\ h.target = f /\ h.enabled = FALSE
    BY <1>4 DEF NewEntry, Entry, IInv, DataInv, TypeOK
  <2>2. DataInv
    BY DEF IInv
  <2> HIDE DEF h
  <2>3. /\ g_hooks' \in Seq(Entry) /\ Len(g_hooks') = Len(g_hooks) + 1
        /\ Len(g_hooks) \in Nat /\ DOMAIN g_hooks = 1 .. Len(g_hooks)
        /\ DOMAIN g_hooks' = 1 .. Len(g_hooks) + 1
        /\ \A i \in DOMAIN g_hooks : g_hooks'[i] = g_hooks[i]
        /\ g_hooks'[Len(g_hooks) + 1] = h
        /\ Entries' = Entries \union {h}
    BY <1>4, <2>1, <2>2, EntryAppended DEF h
  <2>4. call' \in [Thread -> Call] /\ LockInv' /\ PhaseInv' /\ FreezeInv'
    BY <1>1, <1>4, AnswerFacts
  <2>5. DataInv'
    <3>1. \A i \in DOMAIN g_hooks' :
            g_hooks'[i] \in [target : Target, slot : Slot, enabled : BOOLEAN, queue : BOOLEAN]
      <4>1. \A i \in DOMAIN g_hooks' : g_hooks'[i] \in Entry
        BY <2>3
      <4> QED
        BY <4>1 DEF Entry
    <3>2. original' \in [Target -> Slot \union {None}]
      BY <1>4 DEF IInv, DataInv, TypeOK
    <3>3. idx \in Nat
      BY <2>3 DEF IInv, DataInv, TypeOK
    <3> QED
      BY <1>4, <2>3, <2>4, <3>1, <3>2, <3>3 DEF IInv, DataInv, TypeOK
  <2>6. SlotsAccountedFor'
    <3>1. /\ free \intersect {e.slot : e \in Entries} = {}
          /\ free \union {e.slot : e \in Entries} = Slot
          /\ \A i, j \in DOMAIN g_hooks : i # j =>
               g_hooks[i].slot # g_hooks[j].slot /\ g_hooks[i].target # g_hooks[j].target
      BY DEF IInv, SlotsAccountedFor
    <3>2. {e.slot : e \in Entries'} = {e.slot : e \in Entries} \union {s}
      BY <2>1, <2>3
    <3>3. /\ free' \intersect {e.slot : e \in Entries'} = {}
          /\ free' \union {e.slot : e \in Entries'} = Slot
      BY <1>4, <3>1, <3>2
    <3>4. \A i \in DOMAIN g_hooks : g_hooks[i].slot # s /\ g_hooks[i].target # f
      BY <1>4, <2>2, <3>1, FindFacts DEF Entries
    <3>5. \A i, j \in DOMAIN g_hooks' : i # j =>
            g_hooks'[i].slot # g_hooks'[j].slot /\ g_hooks'[i].target # g_hooks'[j].target
      <4>1. \A i \in DOMAIN g_hooks' : i \in DOMAIN g_hooks \/ i = Len(g_hooks) + 1
        BY <2>3
      <4> QED
        BY <4>1, <3>1, <3>4, <2>1, <2>3
    <3> QED
      BY <2>5, <3>3, <3>5 DEF SlotsAccountedFor, DataInv
  <2>7. CodeMatchesEntries'
    BY <1>4, <2>1, <2>3 DEF IInv, CodeMatchesEntries
  <2> QED
    BY <2>4, <2>5, <2>6, <2>7 DEF IInv
<1>5. CASE \E s \in free : \/ GiveBack(t, s, "UNSUPPORTED_FUNCTION")
                          \/ GiveBack(t, s, "MEMORY_ALLOC")
  BY <1>1, <1>2, <1>5, GivenBack
<1> QED
  BY <1>1, <1>2, <1>3, <1>4, <1>5 DEF MH_CreateHook

LEMMA QueueHookStep ==
  ASSUME IInv, NEW t \in Thread, QueueHook(t)
  PROVE  IInv'
<1>1. Beyond(t) /\ {"NOT_CREATED", "OK"} \subseteq Status
  BY DEF QueueHook, In, At, Beyond, Status
<1>2. CASE Refuse(t, "NOT_CREATED")
  BY <1>1, <1>2, RefuseStep
<1>3. ASSUME g_hooks' = [i \in DOMAIN g_hooks |->
               IF call[t].arg \in {AllHooks, g_hooks[i].target}
                 THEN [g_hooks[i] EXCEPT !.queue = (call[t].op = "QueueEnable")]
                 ELSE g_hooks[i]],
             Answer(t, "OK"),
             UNCHANGED <<g_isLocked, g_hHeap, free, jump, original,
                         left, frozen, idx, suspended, ip, missed>>
      PROVE  IInv'
  <2>1. /\ DOMAIN g_hooks = 1 .. Len(g_hooks) /\ Len(g_hooks) \in Nat
        /\ \A i \in DOMAIN g_hooks : g_hooks[i] \in Entry
    BY DEF IInv, DataInv
  <2>2. /\ DOMAIN g_hooks' = DOMAIN g_hooks
        /\ \A i \in DOMAIN g_hooks :
             /\ g_hooks'[i] \in Entry
             /\ g_hooks'[i].target = g_hooks[i].target /\ g_hooks'[i].slot = g_hooks[i].slot
             /\ g_hooks'[i].enabled = g_hooks[i].enabled
    BY <1>3, <2>1 DEF Entry
  <2>3. g_hooks' \in Seq(Entry) /\ Len(g_hooks') = Len(g_hooks)
    <3>1. g_hooks' \in [1 .. Len(g_hooks) -> Entry]
      BY <1>3, <2>1, <2>2
    <3> QED
      BY <3>1, <2>1
  <2>4. call' \in [Thread -> Call] /\ LockInv' /\ PhaseInv' /\ FreezeInv'
    BY <1>1, <1>3, AnswerFacts
  <2>5. DataInv'
    BY <1>3, <2>2, <2>3, <2>4 DEF IInv, DataInv, TypeOK, Entry
  <2>6. SlotsAccountedFor'
    <3>1. {h.slot : h \in Entries'} = {h.slot : h \in Entries}
      BY <2>2 DEF Entries
    <3>2. \A i, j \in DOMAIN g_hooks' : i # j =>
            g_hooks'[i].slot # g_hooks'[j].slot /\ g_hooks'[i].target # g_hooks'[j].target
      BY <2>2 DEF IInv, SlotsAccountedFor
    <3>3. /\ free' \intersect {h.slot : h \in Entries'} = {}
          /\ free' \union {h.slot : h \in Entries'} = Slot
      BY <1>3, <3>1 DEF IInv, SlotsAccountedFor
    <3>4. TypeOK'
      BY <2>5 DEF DataInv
    <3> QED
      BY <3>2, <3>3, <3>4 DEF SlotsAccountedFor
  <2>7. CodeMatchesEntries'
    <3>1. {h.target : h \in {e \in Entries' : e.enabled}}
            = {h.target : h \in {e \in Entries : e.enabled}}
      BY <2>2 DEF Entries
    <3> QED
      BY <1>3, <3>1 DEF IInv, CodeMatchesEntries
  <2> QED
    BY <2>4, <2>5, <2>6, <2>7 DEF IInv
<1> QED
  BY <1>2, <1>3 DEF QueueHook

-------------------------------------------------------------------------------
(***************************************************************************)
(* Calls that freeze the others.                                           *)
(***************************************************************************)
\* The holder goes to another step and changes no entry and no code.
LEMMA StepFacts ==
  ASSUME IInv, NEW t \in Thread, Beyond(t), NEW step \in Step, NEW status \in Status,
         call' = [call EXCEPT ![t].step = step, ![t].status = status],
         UNCHANGED <<g_isLocked, g_hHeap, g_hooks, free, jump, original>>,
         {left', frozen', suspended', missed'} \subseteq SUBSET Thread,
         idx' \in Nat, ip' \in [Thread -> Place],
         Phase(call[t])'
  PROVE  /\ step \notin {"suspend", "write"} => IInv'
         /\ FreezeInv' => IInv'
<1> DEFINE c == [call[t] EXCEPT !.step = step, !.status = status]
<1>1. call[t] \in Call
  BY DEF IInv, DataInv
<1>2. c \in Call /\ c.step = step
  BY <1>1 DEF Call
<1>3. call' = [call EXCEPT ![t] = c]
  BY DEF IInv, DataInv
<1> HIDE DEF c
<1>4. /\ call' \in [Thread -> Call] /\ LockInv' /\ PhaseInv'
      /\ step \notin {"suspend", "write"} => FreezeInv'
  BY <1>2, <1>3, OthersWait
<1>5. DataInv'
  BY <1>4 DEF IInv, DataInv, TypeOK
<1>6. SlotsAccountedFor' /\ CodeMatchesEntries'
  BY <1>5 DEF IInv, DataInv, SlotsAccountedFor, CodeMatchesEntries, Entries
<1> QED
  BY <1>4, <1>5, <1>6 DEF IInv

LEMMA HolderFacts ==
  ASSUME IInv, NEW t \in Thread
  PROVE  /\ call[t] \in Call /\ Phase(call[t]) /\ DataInv
         /\ {left, frozen, suspended, missed} \subseteq SUBSET Thread
         /\ idx \in Nat /\ ip \in [Thread -> Place]
         /\ call[t].step \in Step /\ call[t].status \in Status
<1>1. call \in [Thread -> Call]
  BY DEF IInv, DataInv
<1> QED
  BY <1>1 DEF IInv, DataInv, TypeOK, PhaseInv, Call

LEMMA FreezeStep ==
  ASSUME IInv, NEW t \in Thread, Beyond(t), First(call[t]) # 0, Freeze(t)
  PROVE  IInv'
<1>1. CASE Refuse(t, "MEMORY_ALLOC")
  BY <1>1, RefuseStep DEF Status
<1>2. ASSUME left' = Thread \ {t}, idx' = First(call[t]), Goto(t, "suspend"),
             UNCHANGED <<g_isLocked, g_hHeap, g_hooks, free, jump, original,
                         frozen, suspended, ip, missed>>
      PROVE  IInv'
  <2>1. call' = [call EXCEPT ![t].step = "suspend", ![t].status = call[t].status]
        /\ call'[t] = [call[t] EXCEPT !.step = "suspend"]
        /\ \A u \in Thread \ {t} : call'[u] = call[u]
    BY <1>2 DEF Goto, IInv, DataInv, Call
  <2>2. call[t] \in Call /\ Phase(call[t])
    BY HolderFacts
  <2>3. call'[t].step = "suspend" /\ call'[t].op = call[t].op /\ call'[t].arg = call[t].arg
    BY <2>1, <2>2 DEF Call
  <2>4. First(call[t])' = First(call[t]) /\ Final(call[t])' = Final(call[t])
    BY <1>2, <2>3, SameEntries
  <2>5. Phase(call[t])'
    BY <1>2, <2>2, <2>3, <2>4 DEF Phase, Removes, Beyond
  <2>6. FreezeInv'
    <3>1. \A u \in Thread \ {t} : call[u].step \in {"idle", "spin"}
      BY Alone DEF Beyond
    <3> QED
      BY <1>2, <2>1, <2>3, <3>1 DEF FreezeInv
  <2>7. idx' \in Nat
    BY <1>2, <2>2, RangeFacts DEF IInv
  <2>8. "suspend" \in Step
    BY DEF Step
  <2> QED
    BY <1>2, <2>1, <2>5, <2>6, <2>7, <2>8, HolderFacts, StepFacts
<1> QED
  BY <1>1, <1>2 DEF Freeze

\* The entries of a call that removes are all off.
LEMMA FinishStep ==
  ASSUME IInv, NEW t \in Thread, Beyond(t), Goto(t, "finish"), Removes(call[t]),
         First(call[t]) # 0, \A i \in First(call[t]) .. Final(call[t]) : ~g_hooks[i].enabled,
         idx' \in Nat, missed' \subseteq missed,
         UNCHANGED <<g_isLocked, g_hHeap, g_hooks, free, jump, original,
                     left, frozen, suspended, ip>>
  PROVE  IInv'
<1>1. call' = [call EXCEPT ![t].step = "finish", ![t].status = call[t].status]
      /\ call'[t] = [call[t] EXCEPT !.step = "finish"]
  BY DEF Goto, IInv, DataInv, Call
<1>2. call[t] \in Call /\ Phase(call[t])
  BY HolderFacts
<1>3. call'[t].step = "finish" /\ call'[t].op = call[t].op /\ call'[t].arg = call[t].arg
  BY <1>1, <1>2 DEF Call
<1>4. First(call[t])' = First(call[t]) /\ Final(call[t])' = Final(call[t])
  BY <1>3, SameEntries
<1>5. Phase(call[t])'
  BY <1>2, <1>3, <1>4 DEF Phase, Removes, Beyond
<1>6. "finish" \in Step /\ call[t].status \in Status
      /\ {left', frozen', suspended', missed'} \subseteq SUBSET Thread
      /\ ip' \in [Thread -> Place]
  BY HolderFacts DEF Step
<1> QED
  BY <1>1, <1>5, <1>6, StepFacts

LEMMA EnableHookStep ==
  ASSUME IInv, NEW t \in Thread, EnableHook(t)
  PROVE  IInv'
<1>1. Beyond(t) /\ call[t].arg # AllHooks
      /\ {"NOT_CREATED", "ENABLED", "DISABLED"} \subseteq Status
  BY DEF EnableHook, In, At, Beyond, Status
<1>2. CASE \E s \in Status : Refuse(t, s)
  BY <1>1, <1>2, RefuseStep
<1>3. CASE Find(call[t].arg) # 0 /\ Freeze(t)
  <2>1. First(call[t]) # 0
    BY <1>1, <1>3 DEF First
  <2> QED
    BY <1>1, <1>3, <2>1, FreezeStep
<1> QED
  BY <1>1, <1>2, <1>3 DEF EnableHook

LEMMA EnableAllHooksStep ==
  ASSUME IInv, NEW t \in Thread, EnableAllHooksLL(t)
  PROVE  IInv'
<1>1. Beyond(t) /\ call[t].arg = AllHooks /\ "OK" \in Status
  BY DEF EnableAllHooksLL, In, At, Beyond, Status
<1>2. First(call[t]) = 1 /\ Final(call[t]) = Len(g_hooks)
  BY <1>1 DEF First, Final
<1>3. CASE Freeze(t)
  BY <1>1, <1>2, <1>3, FreezeStep
<1>4. CASE Refuse(t, "OK")
  BY <1>1, <1>4, RefuseStep
<1>5. ASSUME \A i \in DOMAIN g_hooks : g_hooks[i].enabled = Wanted(call[t], g_hooks[i]),
             call[t].op = "Uninitialize", Goto(t, "finish"),
             UNCHANGED <<g_isLocked, g_hHeap, g_hooks, free, jump, original,
                         left, frozen, idx, suspended, ip, missed>>
      PROVE  IInv'
  <2>1. Removes(call[t]) /\ \A i \in DOMAIN g_hooks : ~g_hooks[i].enabled
    BY <1>5 DEF Removes, Wanted
  <2>2. 1 .. Len(g_hooks) = DOMAIN g_hooks
    BY DEF IInv, DataInv
  <2>3. idx' \in Nat /\ missed' \subseteq missed
    BY <1>5, HolderFacts
  <2>4. \A i \in First(call[t]) .. Final(call[t]) : ~g_hooks[i].enabled
    BY <1>2, <2>1, <2>2
  <2> QED
    BY <1>1, <1>2, <1>5, <2>1, <2>3, <2>4, FinishStep
<1> QED
  BY <1>3, <1>4, <1>5 DEF EnableAllHooksLL

LEMMA RemoveHookStep ==
  ASSUME IInv, NEW t \in Thread, MH_RemoveHook(t)
  PROVE  IInv'
<1>1. Beyond(t) /\ call[t].op = "Remove" /\ "NOT_CREATED" \in Status
  BY DEF MH_RemoveHook, In, At, Beyond, Status
<1>2. call[t].arg \in Target /\ call[t].arg # AllHooks
  <2>1. call[t].arg \in Api!Args(call[t].op)
    BY <1>1 DEF IInv, PhaseInv, Phase, Beyond
  <2> QED
    BY <1>1, <2>1, TargetAssumption DEF Api!Args
<1>3. First(call[t]) = Find(call[t].arg) /\ Final(call[t]) = Find(call[t].arg)
  BY <1>2 DEF First, Final
<1>4. CASE Refuse(t, "NOT_CREATED")
  BY <1>1, <1>4, RefuseStep
<1>5. CASE Find(call[t].arg) # 0 /\ Freeze(t)
  BY <1>1, <1>3, <1>5, FreezeStep
<1>6. ASSUME Find(call[t].arg) # 0, ~g_hooks[Find(call[t].arg)].enabled, Goto(t, "finish"),
             UNCHANGED <<g_isLocked, g_hHeap, g_hooks, free, jump, original,
                         left, frozen, idx, suspended, ip, missed>>
      PROVE  IInv'
  <2>1. Removes(call[t])
    BY <1>1 DEF Removes
  <2>2. Find(call[t].arg) \in Nat
    BY <1>2, FindFacts DEF IInv, DataInv
  <2>3. \A i \in First(call[t]) .. Final(call[t]) : ~g_hooks[i].enabled
    BY <1>3, <1>6, <2>2
  <2> QED
    BY <1>1, <1>3, <1>6, <2>1, <2>3, HolderFacts, FinishStep
<1> QED
  BY <1>4, <1>5, <1>6 DEF MH_RemoveHook

-------------------------------------------------------------------------------
(***************************************************************************)
(* The frozen process.                                                     *)
(***************************************************************************)
LEMMA SuspendThreadStep ==
  ASSUME IInv, NEW t \in Thread, NEW u \in Thread, SuspendThread(t, u)
  PROVE  IInv'
<1>1. /\ call[t].step = "suspend" /\ u \in left /\ left' = left \ {u}
      /\ UNCHANGED <<g_isLocked, g_hHeap, g_hooks, free, jump, original, call, idx>>
  BY DEF SuspendThread, At
<1>2. Beyond(t)
  BY <1>1 DEF Beyond
<1>3. call[t] \in Call /\ First(call[t]) # 0
  BY <1>1, HolderFacts DEF Phase
<1>4. /\ suspended' \in {suspended, suspended \union {u}}
      /\ frozen' \in {frozen, frozen \union {u}}
      /\ missed' \in {missed, missed \union {u}}
      /\ u \in suspended' \union missed'
      /\ ip' = ip \/ ip' = [ip EXCEPT ![u] = Relocated(call[t], ip[u])]
  BY DEF SuspendThread
<1>5. ip' \in [Thread -> Place]
  <2>1. ip \in [Thread -> Place] /\ DataInv
    BY HolderFacts
  <2>2. Relocated(call[t], ip[u]) \in Place
    BY <1>3, <2>1, RelocatedFacts
  <2> QED
    BY <1>4, <2>1, <2>2
<1>6. DataInv'
  BY <1>1, <1>4, <1>5 DEF IInv, DataInv, TypeOK
<1>7. PhaseInv'
  BY <1>1, PhaseKept DEF PhaseInv
<1>8. FreezeInv'
  <2>1. \A v \in Thread \ {t} : ~Beyond(v)
    BY <1>2, Alone
  <2>2. Thread \ {t} \subseteq left \union suspended \union missed
    BY <1>1 DEF IInv, FreezeInv
  <2>3. Thread \ {t} \subseteq left' \union suspended' \union missed'
    BY <1>1, <1>4, <2>2
  <2> QED
    BY <1>1, <2>1, <2>3 DEF FreezeInv, Beyond
<1>9. LockInv' /\ SlotsAccountedFor' /\ CodeMatchesEntries'
  BY <1>1, <1>6
     DEF IInv, DataInv, LockInv, SlotsAccountedFor, CodeMatchesEntries, Entries
<1> QED
  BY <1>6, <1>7, <1>8, <1>9 DEF IInv

LEMMA AllSuspendedStep ==
  ASSUME IInv, NEW t \in Thread, AllSuspended(t)
  PROVE  IInv'
<1>1. /\ call[t].step = "suspend" /\ left = {} /\ Goto(t, "write") /\ Beyond(t)
      /\ UNCHANGED <<g_isLocked, g_hHeap, g_hooks, free, jump, original,
                     left, frozen, idx, suspended, ip, missed>>
  BY DEF AllSuspended, At, Beyond
<1>2. call[t] \in Call /\ Phase(call[t]) /\ DataInv
  BY HolderFacts
<1>3. call' = [call EXCEPT ![t].step = "write", ![t].status = call[t].status]
      /\ call'[t] = [call[t] EXCEPT !.step = "write"]
      /\ \A u \in Thread \ {t} : call'[u] = call[u]
  BY <1>1 DEF Goto, IInv, DataInv, Call
<1>4. call'[t].step = "write" /\ call'[t].op = call[t].op /\ call'[t].arg = call[t].arg
  BY <1>2, <1>3 DEF Call
<1>5. First(call[t])' = First(call[t]) /\ Final(call[t])' = Final(call[t])
  BY <1>1, <1>4, SameEntries
<1>6. /\ idx = First(call[t]) /\ First(call[t]) # 0
      /\ First(call[t]) \in Nat /\ Final(call[t]) \in Nat /\ First(call[t]) <= Final(call[t]) + 1
  BY <1>1, <1>2, RangeFacts DEF Phase
<1>7. Phase(call[t])'
  <2>1. idx \in First(call[t]) .. Final(call[t]) + 1
    BY <1>6
  <2>2. First(call[t]) .. idx - 1 = {}
    BY <1>6
  <2>3. call'[t].arg \in Api!Args(call'[t].op)
    BY <1>1, <1>2, <1>4 DEF Phase
  <2> QED
    BY <1>1, <1>4, <1>5, <1>6, <2>1, <2>2, <2>3 DEF Phase
<1>8. FreezeInv'
  <2>1. \A u \in Thread \ {t} : call[u].step \in {"idle", "spin"}
    BY <1>1, Alone DEF Beyond
  <2>2. Thread \ {t} \subseteq suspended \union missed
    BY <1>1 DEF IInv, FreezeInv
  <2> QED
    BY <1>1, <1>3, <1>4, <2>1, <2>2 DEF FreezeInv
<1>9. /\ "write" \in Step /\ call[t].status \in Status /\ ip' \in [Thread -> Place]
      /\ {left', frozen', suspended', missed'} \subseteq SUBSET Thread
      /\ idx' \in Nat
  BY <1>1, HolderFacts DEF Step
<1> QED
  BY <1>1, <1>3, <1>7, <1>8, <1>9, StepFacts

LEMMA SkipEntryStep ==
  ASSUME IInv, NEW t \in Thread, SkipEntry(t)
  PROVE  IInv'
<1>1. /\ call[t].step = "write" /\ idx <= Final(call[t]) /\ Beyond(t)
      /\ g_hooks[idx].enabled = Wanted(call[t], g_hooks[idx]) /\ idx' = idx + 1
      /\ UNCHANGED <<g_isLocked, g_hHeap, g_hooks, free, jump, original, call,
                     left, frozen, suspended, ip, missed>>
  BY DEF SkipEntry, At, Beyond
<1>2. call[t] \in Call /\ Phase(call[t]) /\ DataInv
  BY HolderFacts
<1>3. /\ First(call[t])' = First(call[t]) /\ Final(call[t])' = Final(call[t])
      /\ First(call[t]) \in Nat /\ Final(call[t]) \in 0 .. Len(g_hooks) /\ Len(g_hooks) \in Nat
      /\ idx \in First(call[t]) .. Final(call[t]) /\ idx \in Nat
  BY <1>1, <1>2, SameEntries, RangeFacts DEF Phase
<1>4. Phase(call[t])'
  <2>1. idx' \in First(call[t]) .. Final(call[t]) + 1
    BY <1>1, <1>3
  <2>2. ASSUME Removes(call[t]), NEW i \in First(call[t]) .. idx' - 1
        PROVE  ~g_hooks[i].enabled
    <3>1. CASE i = idx
      BY <1>1, <2>2, <3>1 DEF Removes, Wanted
    <3>2. CASE i # idx
      <4>1. i \in First(call[t]) .. idx - 1
        BY <1>1, <1>3, <2>2, <3>2
      <4> QED
        BY <4>1, <1>1, <1>2, <2>2 DEF Phase
    <3> QED
      BY <3>1, <3>2
  <2> QED
    BY <1>1, <1>2, <1>3, <2>1, <2>2 DEF Phase, Removes
<1>5. idx' \in Nat
  BY <1>1, <1>3
<1>6. PhaseInv'
  <2>1. ASSUME NEW u \in Thread \ {t}
        PROVE  Phase(call[u])'
    <3>1. call[u].step \in {"idle", "spin"} /\ Phase(call[u])
      BY <1>1, Alone DEF Beyond, IInv, PhaseInv
    <3> QED
      BY <3>1, <1>1 DEF Phase
  <2> QED
    BY <1>4, <2>1 DEF PhaseInv
<1>7. DataInv'
  BY <1>1, <1>5 DEF IInv, DataInv, TypeOK
<1>8. LockInv' /\ FreezeInv' /\ SlotsAccountedFor' /\ CodeMatchesEntries'
  BY <1>1, <1>7
     DEF IInv, DataInv, LockInv, FreezeInv, SlotsAccountedFor, CodeMatchesEntries, Entries
<1> QED
  BY <1>6, <1>7, <1>8 DEF IInv

LEMMA AllWrittenStep ==
  ASSUME IInv, NEW t \in Thread, AllWritten(t)
  PROVE  IInv'
<1> DEFINE status == IF Removes(call[t]) THEN call[t].status ELSE "OK"
<1>1. /\ call[t].step = "write" /\ idx > Final(call[t]) /\ Beyond(t)
      /\ call' = [call EXCEPT ![t].step = "resume", ![t].status = status]
      /\ UNCHANGED <<g_isLocked, g_hHeap, g_hooks, free, jump, original,
                     left, frozen, idx, suspended, ip, missed>>
  BY DEF AllWritten, At, Beyond, Removes
<1>2. call[t] \in Call /\ Phase(call[t]) /\ DataInv
  BY HolderFacts
<1>3. status \in Status /\ (status = "pending" => Removes(call[t]))
  BY <1>2 DEF Call, Status
<1>4. call'[t] = [call[t] EXCEPT !.step = "resume", !.status = status]
  BY <1>1 DEF IInv, DataInv
<1> HIDE DEF status
<1>5. /\ call'[t].step = "resume" /\ call'[t].op = call[t].op /\ call'[t].arg = call[t].arg
      /\ call'[t].status = status
  BY <1>2, <1>4 DEF Call
<1>6. /\ First(call[t])' = First(call[t]) /\ Final(call[t])' = Final(call[t])
      /\ First(call[t]) \in Nat /\ Final(call[t]) \in Nat /\ idx \in Nat
  <2>1. First(call[t])' = First(call[t]) /\ Final(call[t])' = Final(call[t])
    BY <1>1, <1>5, SameEntries
  <2>2. First(call[t]) \in Nat /\ Final(call[t]) \in Nat
    BY <1>2, RangeFacts
  <2> QED
    BY <2>1, <2>2, HolderFacts
<1>7. Phase(call[t])'
  <2>1. call'[t].arg \in Api!Args(call'[t].op) /\ First(call[t]) # 0
    BY <1>1, <1>2, <1>5 DEF Phase
  <2>2. Removes(call[t]) =>
          \A i \in First(call[t]) .. Final(call[t]) : ~g_hooks[i].enabled
    <3>1. \A i \in First(call[t]) .. Final(call[t]) : i \in First(call[t]) .. idx - 1
      BY <1>1, <1>6
    <3> QED
      BY <3>1, <1>1, <1>2 DEF Phase
  <2> QED
    BY <1>1, <1>3, <1>5, <1>6, <2>1, <2>2 DEF Phase, Removes
<1>8. /\ "resume" \in Step /\ ip' \in [Thread -> Place]
      /\ {left', frozen', suspended', missed'} \subseteq SUBSET Thread
      /\ idx' \in Nat
  BY <1>1, HolderFacts DEF Step
<1> QED
  BY <1>1, <1>3, <1>7, <1>8, StepFacts

LEMMA ResumeThreadStep ==
  ASSUME IInv, NEW t \in Thread, NEW u \in Thread, ResumeThread(t, u)
  PROVE  IInv'
<1>1. /\ call[t].step = "resume" /\ Beyond(t) /\ frozen' = frozen \ {u}
      /\ suspended' \subseteq suspended
      /\ UNCHANGED <<g_isLocked, g_hHeap, g_hooks, free, jump, original, call,
                     left, idx, ip, missed>>
  BY DEF ResumeThread, At, Beyond
<1>2. DataInv'
  BY <1>1 DEF IInv, DataInv, TypeOK
<1>3. PhaseInv'
  BY <1>1, PhaseKept DEF PhaseInv
<1>4. FreezeInv'
  BY <1>1, Alone DEF FreezeInv, Beyond
<1>5. LockInv' /\ SlotsAccountedFor' /\ CodeMatchesEntries'
  BY <1>1, <1>2
     DEF IInv, DataInv, LockInv, SlotsAccountedFor, CodeMatchesEntries, Entries
<1> QED
  BY <1>2, <1>3, <1>4, <1>5 DEF IInv

LEMMA AllResumedStep ==
  ASSUME IInv, NEW t \in Thread, AllResumed(t)
  PROVE  IInv'
<1>1. /\ call[t].step = "resume" /\ Beyond(t) /\ idx' = 0 /\ missed' \subseteq missed
      /\ UNCHANGED <<g_isLocked, g_hHeap, g_hooks, free, jump, original,
                     left, frozen, suspended, ip>>
  BY DEF AllResumed, At, Beyond
<1>2. /\ call[t] \in Call /\ Phase(call[t])
      /\ {left', frozen', suspended', missed'} \subseteq SUBSET Thread
      /\ ip' \in [Thread -> Place] /\ call[t].status \in Status
      /\ idx' \in Nat
  BY <1>1, HolderFacts, RangeFacts
<1>3. CASE call[t].status = "pending"
  <2>1. /\ Goto(t, "finish") /\ Removes(call[t]) /\ First(call[t]) # 0
        /\ \A i \in First(call[t]) .. Final(call[t]) : ~g_hooks[i].enabled
    BY <1>1, <1>2, <1>3 DEF AllResumed, Phase
  <2> QED
    BY <1>1, <1>2, <2>1, FinishStep
<1>4. CASE call[t].status # "pending"
  <2>1. Goto(t, "leave")
    BY <1>4 DEF AllResumed
  <2>2. Answer(t, call[t].status)
    BY <2>1 DEF Goto, Answer, IInv, DataInv, Call
  <2>3. call' \in [Thread -> Call] /\ LockInv' /\ PhaseInv' /\ FreezeInv'
    BY <1>1, <1>2, <2>2, AnswerFacts
  <2>4. DataInv'
    BY <1>1, <1>2, <2>3 DEF IInv, DataInv, TypeOK
  <2>5. SlotsAccountedFor' /\ CodeMatchesEntries'
    BY <1>1, <2>4 DEF IInv, DataInv, SlotsAccountedFor, CodeMatchesEntries, Entries
  <2> QED
    BY <2>3, <2>4, <2>5 DEF IInv
<1> QED
  BY <1>3, <1>4

-------------------------------------------------------------------------------
(***************************************************************************)
(* An entry and its target's code change together.                         *)
(***************************************************************************)
LEMMA EntrySwitched ==
  ASSUME IInv, NEW i \in DOMAIN g_hooks, NEW on \in BOOLEAN,
         g_hooks' = [g_hooks EXCEPT ![i] = Switched(g_hooks[i], on)],
         jump' = IF on THEN jump \union {g_hooks[i].target} ELSE jump \ {g_hooks[i].target},
         free' = free, TypeOK'
  PROVE  /\ g_hooks' \in Seq(Entry) /\ DOMAIN g_hooks' = DOMAIN g_hooks
         /\ Len(g_hooks') = Len(g_hooks)
         /\ \A j \in DOMAIN g_hooks :
              /\ g_hooks'[j].target = g_hooks[j].target
              /\ g_hooks'[j].enabled = IF j = i THEN on ELSE g_hooks[j].enabled
         /\ SlotsAccountedFor' /\ CodeMatchesEntries'
<1>1. /\ g_hooks \in Seq(Entry) /\ DOMAIN g_hooks = 1 .. Len(g_hooks) /\ Len(g_hooks) \in Nat
      /\ \A j \in DOMAIN g_hooks : g_hooks[j] \in Entry
  BY DEF IInv, DataInv
<1> DEFINE h == Switched(g_hooks[i], on)
<1>2. h \in Entry /\ h.target = g_hooks[i].target /\ h.slot = g_hooks[i].slot /\ h.enabled = on
  BY <1>1 DEF Entry, Switched
<1> HIDE DEF h
<1>3. /\ g_hooks' \in Seq(Entry) /\ DOMAIN g_hooks' = DOMAIN g_hooks
      /\ Len(g_hooks') = Len(g_hooks)
      /\ \A j \in DOMAIN g_hooks : g_hooks'[j] = IF j = i THEN h ELSE g_hooks[j]
  BY <1>1, <1>2 DEF h
<1>4. \A j \in DOMAIN g_hooks :
        /\ g_hooks'[j].target = g_hooks[j].target /\ g_hooks'[j].slot = g_hooks[j].slot
        /\ g_hooks'[j].enabled = IF j = i THEN on ELSE g_hooks[j].enabled
  BY <1>2, <1>3
<1>5. \A j, k \in DOMAIN g_hooks : j # k =>
        g_hooks[j].slot # g_hooks[k].slot /\ g_hooks[j].target # g_hooks[k].target
  BY DEF IInv, SlotsAccountedFor
<1>6. SlotsAccountedFor'
  <2>1. {e.slot : e \in Entries'} = {e.slot : e \in Entries}
    BY <1>3, <1>4 DEF Entries
  <2>2. /\ free' \intersect {e.slot : e \in Entries'} = {}
        /\ free' \union {e.slot : e \in Entries'} = Slot
    BY <2>1 DEF IInv, SlotsAccountedFor
  <2>3. \A j, k \in DOMAIN g_hooks' : j # k =>
          g_hooks'[j].slot # g_hooks'[k].slot /\ g_hooks'[j].target # g_hooks'[k].target
    BY <1>3, <1>4, <1>5
  <2> QED
    BY <2>2, <2>3 DEF SlotsAccountedFor
<1>7. CodeMatchesEntries'
  <2>1. \A f : f \in jump <=> \E j \in DOMAIN g_hooks : g_hooks[j].target = f /\ g_hooks[j].enabled
    BY DEF IInv, CodeMatchesEntries, Entries
  <2>2. \A f : f \in jump' <=>
          \E j \in DOMAIN g_hooks' : g_hooks'[j].target = f /\ g_hooks'[j].enabled
    BY <2>1, <1>3, <1>4, <1>5
  <2>3. \A f : f \in jump' <=> f \in {e.target : e \in {d \in Entries' : d.enabled}}
    BY <2>2 DEF Entries
  <2> QED
    BY <2>3 DEF CodeMatchesEntries
<1> QED
  BY <1>3, <1>4, <1>6, <1>7

LEMMA EnableHookLLStep ==
  ASSUME IInv, NEW t \in Thread, EnableHookLL(t)
  PROVE  IInv'
<1> DEFINE on == Wanted(call[t], g_hooks[idx])
<1>1. /\ call[t].step = "write" /\ idx <= Final(call[t]) /\ Beyond(t)
      /\ UNCHANGED <<g_isLocked, g_hHeap, free, original, left, frozen, suspended, ip, missed>>
  BY DEF EnableHookLL, At, Beyond
<1>2. call[t] \in Call /\ Phase(call[t]) /\ DataInv
  BY HolderFacts
<1>3. /\ First(call[t]) # 0 /\ First(call[t]) \in Nat /\ Final(call[t]) \in Nat
      /\ idx \in First(call[t]) .. Final(call[t]) /\ idx \in DOMAIN g_hooks /\ idx \in Nat
  <2>1. First(call[t]) # 0 /\ idx \in First(call[t]) .. Final(call[t]) + 1
    BY <1>1, <1>2 DEF Phase
  <2>2. First(call[t]) \in Nat /\ Final(call[t]) \in Nat
        /\ First(call[t]) .. Final(call[t]) \subseteq DOMAIN g_hooks
    BY <1>2, <2>1, RangeFacts
  <2> QED
    BY <1>1, <2>1, <2>2
<1>4. on \in BOOLEAN /\ (Removes(call[t]) => on = FALSE)
  BY <1>2, <1>3 DEF Wanted, Removes, DataInv, TypeOK
<1> HIDE DEF on
<1>5. ASSUME g_hooks' = [g_hooks EXCEPT ![idx] = Switched(g_hooks[idx], on)],
             jump' = IF on THEN jump \union {g_hooks[idx].target}
                           ELSE jump \ {g_hooks[idx].target},
             idx' = idx + 1,
             call' = IF call[t].arg = AllHooks \/ call[t].op = "Remove" THEN call
                     ELSE [call EXCEPT ![t].status = "OK"]
      PROVE  IInv'
  <2>1. PICK c \in Call :
          /\ call' = [call EXCEPT ![t] = c]
          /\ c.step = "write" /\ c.op = call[t].op /\ c.arg = call[t].arg
    <3>1. CASE call' = call
      BY <3>1, <1>1, <1>2 DEF DataInv
    <3>2. CASE call' = [call EXCEPT ![t].status = "OK"]
      <4> DEFINE c == [call[t] EXCEPT !.status = "OK"]
      <4>1. c \in Call /\ c.step = "write" /\ c.op = call[t].op /\ c.arg = call[t].arg
        BY <1>1, <1>2 DEF Call, Status
      <4>2. call' = [call EXCEPT ![t] = c]
        BY <3>2, <1>2 DEF DataInv
      <4> QED
        BY <4>1, <4>2
    <3> QED
      BY <1>5, <3>1, <3>2
  <2>2. call'[t] = c /\ \A u \in Thread \ {t} : call'[u] = call[u]
    BY <2>1, <1>2 DEF DataInv
  <2>3. TypeOK'
    <3>1. g_hooks[idx] \in Entry /\ \A i \in DOMAIN g_hooks : g_hooks[i] \in Entry
      BY <1>2, <1>3 DEF DataInv
    <3>2. Switched(g_hooks[idx], on) \in Entry
      BY <3>1, <1>4 DEF Switched, Entry
    <3>3. \A i \in DOMAIN g_hooks' : g_hooks'[i] \in Entry
      BY <3>1, <3>2, <1>5
    <3>4. jump' \subseteq Target
      BY <3>1, <1>2, <1>5 DEF Entry, DataInv, TypeOK
    <3> QED
      BY <3>3, <3>4, <1>1, <1>2, <1>3, <1>5 DEF DataInv, TypeOK, Entry
  <2>4. /\ g_hooks' \in Seq(Entry) /\ DOMAIN g_hooks' = DOMAIN g_hooks
        /\ Len(g_hooks') = Len(g_hooks)
        /\ \A j \in DOMAIN g_hooks :
             /\ g_hooks'[j].target = g_hooks[j].target
             /\ g_hooks'[j].enabled = IF j = idx THEN on ELSE g_hooks[j].enabled
        /\ SlotsAccountedFor' /\ CodeMatchesEntries'
    BY <1>1, <1>3, <1>4, <1>5, <2>3, EntrySwitched
  <2>5. First(call[t])' = First(call[t]) /\ Final(call[t])' = Final(call[t])
    <3>1. call'[t].arg = call[t].arg /\ SlotsAccountedFor
      BY <2>1, <2>2 DEF IInv
    <3> QED
      BY <3>1, <1>2, <2>4, SameTargets
  <2>6. Phase(call[t])'
    <3>1. call'[t].arg \in Api!Args(call'[t].op) /\ Removes(call[t])' = Removes(call[t])
      BY <1>1, <1>2, <2>1, <2>2 DEF Phase, Removes
    <3>2. idx' \in First(call[t]) .. Final(call[t]) + 1
      BY <1>3, <1>5
    <3>3. ASSUME Removes(call[t]), NEW i \in First(call[t]) .. idx' - 1
          PROVE  ~g_hooks'[i].enabled
      <4>1. i \in DOMAIN g_hooks
        <5>1. i \in First(call[t]) .. Final(call[t])
          BY <1>3, <1>5, <3>3
        <5> QED
          BY <5>1, <1>2, <1>3, RangeFacts
      <4>2. CASE i = idx
        BY <4>1, <4>2, <1>4, <2>4, <3>3
      <4>3. CASE i # idx
        <5>1. i \in First(call[t]) .. idx - 1
          BY <1>3, <1>5, <3>3, <4>3
        <5>2. ~g_hooks[i].enabled
          BY <5>1, <1>1, <1>2, <3>3 DEF Phase
        <5> QED
          BY <5>2, <4>1, <4>3, <2>4
      <4> QED
        BY <4>2, <4>3
    <3> QED
      BY <1>3, <2>1, <2>2, <2>5, <3>1, <3>2, <3>3 DEF Phase
  <2>7. call' \in [Thread -> Call] /\ LockInv' /\ PhaseInv'
    BY <1>1, <2>1, <2>6, OthersWait
  <2>8. FreezeInv'
    <3>1. \A u \in Thread \ {t} : call[u].step \in {"idle", "spin"}
      BY <1>1, Alone DEF Beyond
    <3>2. Thread \ {t} \subseteq suspended \union missed
      BY <1>1 DEF IInv, FreezeInv
    <3> QED
      BY <1>1, <2>1, <2>2, <3>1, <3>2 DEF FreezeInv
  <2> QED
    BY <2>3, <2>4, <2>7, <2>8 DEF IInv, DataInv
<1>6. ASSUME call' = [call EXCEPT ![t].step = "resume", ![t].status = "MEMORY_PROTECT"],
             UNCHANGED <<g_hooks, jump, idx>>
      PROVE  IInv'
  <2>1. call'[t] = [call[t] EXCEPT !.step = "resume", !.status = "MEMORY_PROTECT"]
    BY <1>2, <1>6 DEF DataInv
  <2>2. /\ call'[t].step = "resume" /\ call'[t].op = call[t].op /\ call'[t].arg = call[t].arg
        /\ call'[t].status = "MEMORY_PROTECT"
    BY <1>2, <2>1 DEF Call
  <2>3. First(call[t])' = First(call[t])
    BY <1>6, <2>2, SameEntries
  <2>4. Phase(call[t])'
    BY <1>1, <1>2, <1>3, <2>2, <2>3 DEF Phase, Removes
  <2>5. /\ "resume" \in Step /\ "MEMORY_PROTECT" \in Status /\ ip' \in [Thread -> Place]
        /\ {left', frozen', suspended', missed'} \subseteq SUBSET Thread
        /\ idx' \in Nat
    BY <1>1, <1>6, HolderFacts DEF Step, Status
  <2> QED
    BY <1>1, <1>6, <2>4, <2>5, StepFacts
<1> QED
  BY <1>5, <1>6 DEF EnableHookLL, on

-------------------------------------------------------------------------------
(***************************************************************************)
(* Entries are deleted.                                                    *)
(***************************************************************************)
\* The deleted entry is gone, the last one is where it was, the others stay.
LEMMA EntryDeleted ==
  ASSUME DataInv, NEW i \in DOMAIN g_hooks, g_hooks' = Deleted(i)
  PROVE  /\ g_hooks' \in Seq(Entry) /\ Len(g_hooks) \in Nat \ {0}
         /\ DOMAIN g_hooks = 1 .. Len(g_hooks) /\ DOMAIN g_hooks' = 1 .. Len(g_hooks) - 1
         /\ \A j \in DOMAIN g_hooks' : g_hooks'[j] = g_hooks[IF j = i THEN Len(g_hooks) ELSE j]
<1> DEFINE n == Len(g_hooks)
           front == SubSeq(g_hooks, 1, n - 1)
<1>1. n \in Nat \ {0} /\ DOMAIN g_hooks = 1 .. n /\ i \in 1 .. n
  BY DEF DataInv
<1>2. front \in Seq(Entry) /\ Len(front) = n - 1
      /\ \A j \in 1 .. n - 1 : front[j] = g_hooks[j]
  BY <1>1 DEF DataInv
<1>3. Front(g_hooks) = front /\ Last(g_hooks) = g_hooks[n] /\ g_hooks[n] \in Entry
  BY <1>1 DEF Front, Last, DataInv
<1>4. g_hooks' = IF i < n THEN [front EXCEPT ![i] = g_hooks[n]] ELSE front
  BY <1>3 DEF Deleted
<1> HIDE DEF n, front
<1>5. g_hooks' \in Seq(Entry) /\ DOMAIN g_hooks' = 1 .. n - 1
  BY <1>1, <1>2, <1>3, <1>4
<1>6. \A j \in 1 .. n - 1 : g_hooks'[j] = g_hooks[IF j = i THEN n ELSE j]
  <2>1. CASE i < n
    <3>1. g_hooks' = [front EXCEPT ![i] = g_hooks[n]] /\ DOMAIN front = 1 .. n - 1
      BY <1>1, <1>2, <1>4, <2>1
    <3> QED
      BY <1>1, <1>2, <3>1
  <2>2. CASE i = n
    BY <1>1, <1>2, <1>4, <2>2
  <2> QED
    BY <1>1, <2>1, <2>2
<1> QED
  BY <1>1, <1>5, <1>6 DEF n

LEMMA FreeEntryStep ==
  ASSUME IInv, NEW t \in Thread, FreeEntry(t)
  PROVE  IInv'
<1>1. /\ Beyond(t) /\ call[t].step = "finish" /\ call[t].op = "Remove" /\ Answer(t, "OK")
      /\ free' = free \union {g_hooks[Find(call[t].arg)].slot}
      /\ g_hooks' = Deleted(Find(call[t].arg))
      /\ UNCHANGED <<g_isLocked, g_hHeap, jump, original,
                     left, frozen, idx, suspended, ip, missed>>
      /\ "OK" \in Status
  BY DEF FreeEntry, FreeBuffer, At, Beyond, Status
<1>2. Phase(call[t]) /\ DataInv
  BY HolderFacts
<1>3. PICK i \in DOMAIN g_hooks : i = Find(call[t].arg) /\ ~g_hooks[i].enabled
  <2>1. call[t].arg \in Api!Args("Remove") /\ Removes(call[t])
    BY <1>1, <1>2 DEF Phase, Removes
  <2>2. call[t].arg \in Target /\ call[t].arg # AllHooks
    BY <2>1, TargetAssumption DEF Api!Args
  <2>3. First(call[t]) = Find(call[t].arg) /\ Final(call[t]) = Find(call[t].arg)
    BY <2>2 DEF First, Final
  <2>4. First(call[t]) # 0
    BY <1>1, <1>2, <2>1 DEF Phase
  <2>5. Find(call[t].arg) \in DOMAIN g_hooks /\ Find(call[t].arg) \in Nat
    BY <1>2, <2>2, <2>3, <2>4, FindFacts DEF DataInv
  <2>6. ~g_hooks[Find(call[t].arg)].enabled
    <3>1. \A j \in First(call[t]) .. Final(call[t]) : ~g_hooks[j].enabled
      BY <1>1, <1>2 DEF Phase
    <3> QED
      BY <3>1, <2>3, <2>5
  <2> QED
    BY <2>5, <2>6
<1> DEFINE n == Len(g_hooks)
           From(j) == IF j = i THEN n ELSE j
<1>4. /\ g_hooks' \in Seq(Entry) /\ n \in Nat \ {0} /\ DOMAIN g_hooks = 1 .. n
      /\ DOMAIN g_hooks' = 1 .. n - 1
      /\ \A j \in DOMAIN g_hooks' : g_hooks'[j] = g_hooks[From(j)]
  BY <1>1, <1>2, <1>3, EntryDeleted
<1> HIDE DEF n
<1>5. /\ \A j \in DOMAIN g_hooks' : From(j) \in DOMAIN g_hooks /\ From(j) # i
      /\ \A j, k \in DOMAIN g_hooks' : j # k => From(j) # From(k)
      /\ \A j \in DOMAIN g_hooks \ {i} : \E k \in DOMAIN g_hooks' : From(k) = j
  <2>1. i \in 1 .. n
    BY <1>4
  <2>2. /\ \A j \in 1 .. n - 1 : From(j) \in 1 .. n /\ From(j) # i
        /\ \A j, k \in 1 .. n - 1 : j # k => From(j) # From(k)
    BY <1>4, <2>1
  <2>3. ASSUME NEW j \in 1 .. n, j # i
        PROVE  \E k \in 1 .. n - 1 : From(k) = j
    <3>1. CASE j = n
      <4>1. i \in 1 .. n - 1 /\ From(i) = j
        BY <1>4, <2>1, <2>3, <3>1
      <4> QED
        BY <4>1
    <3>2. CASE j # n
      <4>1. j \in 1 .. n - 1 /\ From(j) = j
        BY <1>4, <2>3, <3>2
      <4> QED
        BY <4>1
    <3> QED
      BY <3>1, <3>2
  <2> QED
    BY <1>4, <2>2, <2>3
<1> HIDE DEF From
<1>6. /\ \A j, k \in DOMAIN g_hooks : j # k =>
           g_hooks[j].slot # g_hooks[k].slot /\ g_hooks[j].target # g_hooks[k].target
      /\ free \intersect {e.slot : e \in Entries} = {}
      /\ free \union {e.slot : e \in Entries} = Slot
  BY DEF IInv, SlotsAccountedFor
<1>7. Entries' = {g_hooks[j] : j \in DOMAIN g_hooks \ {i}}
  <2>1. Entries' \subseteq {g_hooks[j] : j \in DOMAIN g_hooks \ {i}}
    BY <1>4, <1>5 DEF Entries
  <2>2. {g_hooks[j] : j \in DOMAIN g_hooks \ {i}} \subseteq Entries'
    <3>1. ASSUME NEW j \in DOMAIN g_hooks \ {i}
          PROVE  g_hooks[j] \in Entries'
      <4>1. PICK k \in DOMAIN g_hooks' : From(k) = j
        BY <1>5
      <4>2. g_hooks'[k] = g_hooks[j]
        BY <1>4, <4>1
      <4> QED
        BY <4>1, <4>2 DEF Entries
    <3> QED
      BY <3>1
  <2> QED
    BY <2>1, <2>2
<1>8. call' \in [Thread -> Call] /\ LockInv' /\ PhaseInv' /\ FreezeInv'
  BY <1>1, AnswerFacts
<1>9. DataInv'
  <2>1. \A j \in DOMAIN g_hooks' : g_hooks'[j] \in Entry
    BY <1>4
  <2>2. g_hooks[i].slot \in Slot
    BY <1>2 DEF DataInv, TypeOK
  <2>3. free' \subseteq Slot
    BY <1>1, <1>3, <2>2 DEF IInv, DataInv, TypeOK
  <2> QED
    BY <1>1, <1>4, <1>8, <2>1, <2>3 DEF IInv, DataInv, TypeOK, Entry
<1>10. SlotsAccountedFor'
  <2>1. {e.slot : e \in Entries'} = {e.slot : e \in Entries} \ {g_hooks[i].slot}
    <3>1. {e.slot : e \in Entries'} = {g_hooks[j].slot : j \in DOMAIN g_hooks \ {i}}
      BY <1>7
    <3>2. {e.slot : e \in Entries} = {g_hooks[j].slot : j \in DOMAIN g_hooks}
      BY DEF Entries
    <3> QED
      BY <3>1, <3>2, <1>6
  <2>2. g_hooks[i].slot \in {e.slot : e \in Entries}
    BY DEF Entries
  <2>3. free' = free \union {g_hooks[i].slot}
    BY <1>1, <1>3
  <2>4. /\ free' \intersect {e.slot : e \in Entries'} = {}
        /\ free' \union {e.slot : e \in Entries'} = Slot
    BY <2>1, <2>2, <2>3, <1>6
  <2>5. \A j, k \in DOMAIN g_hooks' : j # k =>
          g_hooks'[j].slot # g_hooks'[k].slot /\ g_hooks'[j].target # g_hooks'[k].target
    BY <1>4, <1>5, <1>6
  <2> QED
    BY <1>9, <2>4, <2>5 DEF SlotsAccountedFor, DataInv
<1>11. CodeMatchesEntries'
  <2>1. \A f : f \in jump <=> \E j \in DOMAIN g_hooks : g_hooks[j].enabled /\ g_hooks[j].target = f
    BY DEF IInv, CodeMatchesEntries, Entries
  <2>2. \A f : f \in jump' <=>
          \E j \in DOMAIN g_hooks \ {i} : g_hooks[j].enabled /\ g_hooks[j].target = f
    BY <2>1, <1>1, <1>3
  <2>3. \A f : f \in jump' <=> f \in {e.target : e \in {d \in Entries' : d.enabled}}
    BY <2>2, <1>7
  <2> QED
    BY <2>3 DEF CodeMatchesEntries
<1> QED
  BY <1>8, <1>9, <1>10, <1>11 DEF IInv

LEMMA FreeAllStep ==
  ASSUME IInv, NEW t \in Thread, FreeAll(t)
  PROVE  IInv'
<1>1. /\ Beyond(t) /\ call[t].step = "finish" /\ call[t].op = "Uninitialize"
      /\ Answer(t, "OK") /\ g_hHeap' = FALSE /\ g_hooks' = <<>> /\ free' = Slot
      /\ UNCHANGED <<g_isLocked, jump, original, left, frozen, idx, suspended, ip, missed>>
      /\ "OK" \in Status
  BY DEF FreeAll, At, Beyond, Status
<1>2. Phase(call[t]) /\ DataInv
  BY HolderFacts
<1>3. jump = {}
  <2>1. call[t].arg = AllHooks
    BY <1>1, <1>2 DEF Phase, Api!Args
  <2>2. First(call[t]) = 1 /\ Final(call[t]) = Len(g_hooks)
    BY <2>1 DEF First, Final
  <2>3. \A j \in 1 .. Len(g_hooks) : ~g_hooks[j].enabled
    BY <1>1, <1>2, <2>2 DEF Phase
  <2>4. \A j \in DOMAIN g_hooks : ~g_hooks[j].enabled
    BY <1>2, <2>3 DEF DataInv
  <2> QED
    BY <2>4 DEF IInv, CodeMatchesEntries, Entries
<1>4. g_hooks' \in Seq(Entry) /\ DOMAIN g_hooks' = {} /\ Entries' = {}
  BY <1>1 DEF Entries
<1>5. call' \in [Thread -> Call] /\ LockInv' /\ PhaseInv' /\ FreezeInv'
  BY <1>1, AnswerFacts
<1>6. DataInv'
  BY <1>1, <1>4, <1>5 DEF IInv, DataInv, TypeOK
<1>7. SlotsAccountedFor' /\ CodeMatchesEntries'
  BY <1>1, <1>3, <1>4, <1>6 DEF DataInv, SlotsAccountedFor, CodeMatchesEntries
<1> QED
  BY <1>5, <1>6, <1>7 DEF IInv

LEMMA NotInitializedStep ==
  ASSUME IInv, NEW t \in Thread, NotInitialized(t)
  PROVE  IInv'
BY RefuseStep DEF NotInitialized, At, Beyond, Status

-------------------------------------------------------------------------------
LEMMA InitialState ==
  Init => IInv
<1> SUFFICES ASSUME Init
             PROVE  IInv
  OBVIOUS
<1>1. g_hooks = <<>> /\ DOMAIN g_hooks = {} /\ g_hooks \in Seq(Entry) /\ Entries = {}
  BY DEF Init, Entries
<1>2. call \in [Thread -> Call] /\ \A t \in Thread : call[t].step = "idle"
  BY DEF Init, Idle, Call, Step, Status
<1>3. DataInv
  <2>1. <<"out">> \in Place
    BY DEF Place
  <2>2. /\ ip \in [Thread -> Place] /\ original \in [Target -> Slot \union {None}]
        /\ idx \in Nat /\ g_isLocked \in Thread \union {None} /\ g_hHeap \in BOOLEAN
        /\ free \subseteq Slot /\ jump \subseteq Target
        /\ left \subseteq Thread /\ frozen \subseteq Thread /\ suspended \subseteq Thread
        /\ missed \subseteq Thread
    BY <2>1 DEF Init
  <2> QED
    BY <1>1, <1>2, <2>2 DEF DataInv, TypeOK
<1>4. LockInv /\ PhaseInv /\ FreezeInv
  BY <1>2 DEF LockInv, PhaseInv, Phase, FreezeInv
<1>5. SlotsAccountedFor /\ CodeMatchesEntries
  BY <1>1, <1>3 DEF Init, DataInv, SlotsAccountedFor, CodeMatchesEntries
<1> QED
  BY <1>3, <1>4, <1>5 DEF IInv

LEMMA Invariance ==
  IInv /\ [Next]_vars => IInv'
<1> SUFFICES ASSUME IInv, [Next]_vars
             PROVE  IInv'
  OBVIOUS
<1>1. CASE UNCHANGED vars
  <2>1. DataInv' /\ LockInv' /\ FreezeInv'
    BY <1>1 DEF vars, IInv, DataInv, TypeOK, LockInv, FreezeInv
  <2>2. PhaseInv'
    BY <1>1, PhaseKept DEF vars, PhaseInv
  <2>3. SlotsAccountedFor' /\ CodeMatchesEntries'
    BY <1>1, <2>1
       DEF vars, IInv, DataInv, SlotsAccountedFor, CodeMatchesEntries, Entries
  <2> QED
    BY <2>1, <2>2, <2>3 DEF IInv
<1>2. ASSUME NEW t \in Thread, Critical(t)
      PROVE  IInv'
  BY <1>2, NotInitializedStep, InitializeStep, CreateHookStep, EnableHookStep,
     EnableAllHooksStep, RemoveHookStep, QueueHookStep, SuspendThreadStep, ResumeThreadStep,
     AllSuspendedStep, SkipEntryStep, EnableHookLLStep, AllWrittenStep, AllResumedStep,
     FreeEntryStep, FreeAllStep, LeaveSpinLockStep DEF Critical
<1> QED
  BY <1>1, <1>2, RunStep, BeginCallStep, EnterSpinLockStep DEF Next

(***************************************************************************)
(* The invariant holds whatever threads, targets and slots there are,      *)
(* whatever the program calls and whatever fails.                          *)
(***************************************************************************)
THEOREM MinHookInvariant == Spec => []IInv
  BY InitialState, Invariance, PTL DEF Spec

(***************************************************************************)
(* MH_CreateHook, MH_RemoveHook and MH_Uninitialize neither lose nor share *)
(* a trampoline slot or a target, in any order and after any failure.      *)
(***************************************************************************)
THEOREM SlotsStayAccountedFor == Spec => []SlotsAccountedFor
<1>1. IInv => SlotsAccountedFor
  BY DEF IInv
<1> QED
  BY <1>1, MinHookInvariant, PTL

(***************************************************************************)
(* The code and the entries agree between any two steps of any call: no    *)
(* jump outlives its entry, and none is missing.                           *)
(***************************************************************************)
THEOREM CodeAlwaysMatchesEntries == Spec => []CodeMatchesEntries
<1>1. IInv => CodeMatchesEntries
  BY DEF IInv
<1> QED
  BY <1>1, MinHookInvariant, PTL

(***************************************************************************)
(* EnableHookLL never writes code while a thread that Freeze has not       *)
(* overlooked runs, with any number of threads in calls at once.           *)
(***************************************************************************)
THEOREM CodeIsWrittenInOneGo == Spec => WrittenInOneGo
<1>1. IInv /\ [Next]_vars =>
        [jump' # jump => Thread \ {g_isLocked} \subseteq suspended \union missed]_vars
  <2> SUFFICES ASSUME IInv, Next, jump' # jump
               PROVE  Thread \ {g_isLocked} \subseteq suspended \union missed
    BY DEF vars
  <2>1. PICK t \in Thread : EnableHookLL(t)
    <3>1. ASSUME NEW t \in Thread, Run(t)
          PROVE  jump' = jump
      BY <3>1 DEF Run, CallTarget, StepTarget, LeaveTarget, LongJump, LeaveDetour,
                  StepTrampoline, MoveTo
    <3>2. ASSUME NEW t \in Thread, NEW o, NEW a, BeginCall(t, o, a)
          PROVE  jump' = jump
      BY <3>2 DEF BeginCall
    <3>3. ASSUME NEW t \in Thread, EnterSpinLock(t) \/ LeaveSpinLock(t)
          PROVE  jump' = jump
      BY <3>3 DEF EnterSpinLock, LeaveSpinLock
    <3>4. ASSUME NEW t \in Thread,
                 \/ NotInitialized(t) \/ MH_Initialize(t) \/ MH_CreateHook(t) \/ QueueHook(t)
                 \/ EnableHook(t) \/ EnableAllHooksLL(t) \/ MH_RemoveHook(t)
          PROVE  jump' = jump
      BY <3>4 DEF NotInitialized, MH_Initialize, MH_CreateHook, QueueHook, EnableHook,
                  EnableAllHooksLL, MH_RemoveHook, Freeze, Refuse, GiveBack
    <3>5. ASSUME NEW t \in Thread,
                 \/ \E u \in Thread : SuspendThread(t, u) \/ ResumeThread(t, u)
                 \/ AllSuspended(t) \/ SkipEntry(t) \/ AllWritten(t) \/ AllResumed(t)
                 \/ FreeEntry(t) \/ FreeAll(t)
          PROVE  jump' = jump
      BY <3>5 DEF SuspendThread, ResumeThread, AllSuspended, SkipEntry, AllWritten,
                  AllResumed, FreeEntry, FreeAll
    <3> QED
      BY <3>1, <3>2, <3>3, <3>4, <3>5 DEF Next, Critical
  <2>2. call[t].step = "write"
    BY <2>1 DEF EnableHookLL, At
  <2>3. g_isLocked = t
    BY <2>2, Alone DEF Beyond
  <2> QED
    BY <2>2, <2>3 DEF IInv, FreezeInv
<1> QED
  BY <1>1, MinHookInvariant, PTL DEF Spec, WrittenInOneGo

-------------------------------------------------------------------------------
(***************************************************************************)
(* Where threads execute while hooks are enabled, for any threads,         *)
(* targets, slots and failures.                                            *)
(***************************************************************************)
\* A program that enables hooks and never disables or removes them, as AzureFlare.
EnablesOnly == Ops \subseteq {"Initialize", "Create", "Enable", "QueueEnable", "Apply"}

\* What is on is wanted on, and its original is its own trampoline.
EntriesInv ==
  \A i \in DOMAIN g_hooks :
    /\ g_hooks[i].enabled => g_hooks[i].queue
    /\ original[g_hooks[i].target] = g_hooks[i].slot

\* Threads in a call are outside the hooked program, and calls only enable.
CallersInv ==
  \A t \in Thread : call[t].step # "idle" =>
    /\ call[t].op \in Ops /\ ip[t] = <<"out">>
    /\ call[t].step \in {"suspend", "write"} => call[t].op \in {"Enable", "Apply"}

\* A place where a thread can go on.
Safe(p) ==
  /\ \A f \in Target :
       /\ p = <<"target", f, 1>> => f \notin jump
       /\ p = <<"above", f>> => f \in jump
       /\ p = <<"detour", f>> => original[f] \in Slot \ free
  /\ \A s \in Slot, i \in 0 .. 2 : p = <<"slot", s, i>> => s \notin free

PlaceInv == \A u \in Thread \ missed : Safe(ip[u])

\* Not in the middle of what the call has still to overwrite.
Clear(c, p) ==
  \A i \in First(c) .. Final(c) :
    ~g_hooks[i].enabled /\ Wanted(c, g_hooks[i]) => p # <<"target", g_hooks[i].target, 1>>

ClearInv ==
  \A t \in Thread :
    /\ call[t].step = "suspend" =>
         \A u \in Thread \ (missed \union left \union {t}) : Clear(call[t], ip[u])
    /\ call[t].step = "write" =>
         \A u \in Thread \ (missed \union {t}) : Clear(call[t], ip[u])

Threads == EntriesInv /\ CallersInv /\ PlaceInv /\ ClearInv

-------------------------------------------------------------------------------
(***************************************************************************)
(* Steps that leave the code and the places as they are.                   *)
(***************************************************************************)
LEMMA PlacesKept ==
  ASSUME PlaceInv, UNCHANGED <<free, jump, original, ip>>,
         \A u \in Thread : u \in missed /\ u \notin missed' => ip[u] = <<"out">>
  PROVE  PlaceInv'
<1>1. ASSUME NEW u \in Thread \ missed'
      PROVE  Safe(ip[u])'
  <2>1. CASE u \in missed
    <3>1. ip'[u] = <<"out">>
      BY <1>1, <2>1
    <3> QED
      BY <3>1 DEF Safe
  <2>2. CASE u \notin missed
    <3>1. Safe(ip[u])
      BY <1>1, <2>2 DEF PlaceInv
    <3> QED
      BY <3>1 DEF Safe
  <2> QED
    BY <2>1, <2>2
<1> QED
  BY <1>1 DEF PlaceInv

LEMMA ClearKept ==
  ASSUME NEW t \in Thread, NEW u \in Thread, g_hooks' = g_hooks, ip'[u] = ip[u],
         call'[t].arg = call[t].arg, call'[t].op = call[t].op, Clear(call[t], ip[u])
  PROVE  Clear(call[t], ip[u])'
<1>1. First(call[t])' = First(call[t]) /\ Final(call[t])' = Final(call[t])
  BY SameEntries
<1> QED
  BY <1>1 DEF Clear, Wanted

\* The thread that holds the lock goes on, to a step at which no code is written.
LEMMA HolderGoesOn ==
  ASSUME IInv, Threads, NEW t \in Thread, Beyond(t), NEW c \in Call,
         call' = [call EXCEPT ![t] = c], c.op = call[t].op,
         c.step \notin {"idle", "suspend", "write"},
         UNCHANGED <<g_hooks, free, jump, original, ip>>,
         \A u \in Thread : u \in missed /\ u \notin missed' => ip[u] = <<"out">>
  PROVE  Threads'
<1>1. call'[t] = c /\ \A u \in Thread \ {t} : call'[u] = call[u]
  BY DEF IInv, DataInv
<1>2. \A u \in Thread \ {t} : call[u].step \in {"idle", "spin"}
  BY Alone DEF Beyond
<1>3. EntriesInv'
  BY DEF Threads, EntriesInv
<1>4. CallersInv'
  <2>1. call[t].op \in Ops /\ ip[t] = <<"out">>
    BY DEF Threads, CallersInv, Beyond
  <2> QED
    BY <1>1, <1>2, <2>1 DEF Threads, CallersInv
<1>5. PlaceInv'
  BY PlacesKept DEF Threads
<1>6. ClearInv'
  BY <1>1, <1>2 DEF ClearInv
<1> QED
  BY <1>3, <1>4, <1>5, <1>6 DEF Threads

LEMMA Answered ==
  ASSUME IInv, Threads, NEW t \in Thread, Beyond(t), NEW s \in Status, Answer(t, s),
         UNCHANGED <<g_hooks, free, jump, original, ip, missed>>
  PROVE  Threads'
<1> DEFINE c == [call[t] EXCEPT !.step = "leave", !.status = s]
<1>1. call[t] \in Call /\ call \in [Thread -> Call]
  BY HolderFacts DEF DataInv
<1>2. c \in Call /\ c.step = "leave" /\ c.op = call[t].op /\ call' = [call EXCEPT ![t] = c]
  BY <1>1 DEF Call, Step, Answer
<1> HIDE DEF c
<1> QED
  BY <1>2, HolderGoesOn

LEMMA Refused ==
  ASSUME IInv, Threads, NEW t \in Thread, Beyond(t), NEW s \in Status, Refuse(t, s)
  PROVE  Threads'
BY Answered DEF Refuse

LEMMA WentTo ==
  ASSUME IInv, Threads, NEW t \in Thread, Beyond(t),
         NEW step \in Step \ {"idle", "suspend", "write"}, Goto(t, step),
         UNCHANGED <<g_hooks, free, jump, original, ip>>,
         \A u \in Thread : u \in missed /\ u \notin missed' => ip[u] = <<"out">>
  PROVE  Threads'
<1> DEFINE c == [call[t] EXCEPT !.step = step]
<1>1. call[t] \in Call /\ call \in [Thread -> Call]
  BY HolderFacts DEF DataInv
<1>2. c \in Call /\ c.step = step /\ c.op = call[t].op /\ call' = [call EXCEPT ![t] = c]
  BY <1>1 DEF Call, Goto
<1> HIDE DEF c
<1> QED
  BY <1>2, HolderGoesOn

\* Nothing that the invariant looks at changes.
LEMMA NothingMoves ==
  ASSUME IInv, Threads,
         UNCHANGED <<g_hooks, free, jump, original, call, left, ip, missed>>
  PROVE  Threads'
<1>1. EntriesInv' /\ CallersInv'
  BY DEF Threads, EntriesInv, CallersInv
<1>2. PlaceInv'
  BY PlacesKept DEF Threads
<1>3. ClearInv'
  BY ClearKept DEF Threads, ClearInv
<1> QED
  BY <1>1, <1>2, <1>3 DEF Threads

-------------------------------------------------------------------------------
(***************************************************************************)
(* The hooked program.                                                     *)
(***************************************************************************)
\* A target whose code is the jump has a trampoline, and its detour knows it.
LEMMA OriginalKnown ==
  ASSUME IInv, EntriesInv, NEW f \in jump
  PROVE  original[f] \in Slot \ free
<1>1. PICK i \in DOMAIN g_hooks : g_hooks[i].enabled /\ g_hooks[i].target = f
  BY DEF IInv, CodeMatchesEntries, Entries
<1>2. original[f] = g_hooks[i].slot
  BY <1>1 DEF EntriesInv
<1>3. g_hooks[i] \in Entries /\ g_hooks[i] \in Entry
  BY DEF Entries, IInv, DataInv
<1>4. g_hooks[i].slot \in Slot
  BY <1>3 DEF Entry
<1> QED
  BY <1>2, <1>3, <1>4 DEF IInv, SlotsAccountedFor

LEMMA RunSafe ==
  ASSUME IInv, Threads, NEW t \in Thread, Run(t)
  PROVE  Threads'
<1>1. PICK p : MoveTo(t, p) /\ (t \notin missed => Safe(p))
  <2>1. Called \subseteq Target
    BY TargetAssumption
  <2>2. t \notin missed => Safe(ip[t])
    BY DEF Threads, PlaceInv
  <2>3. Safe(<<"out">>)
    BY DEF Safe
  <2>4. ASSUME NEW f \in Called, CallTarget(t, f)
        PROVE  \E p : MoveTo(t, p) /\ (t \notin missed => Safe(p))
    <3>1. Safe(<<"target", f, 0>>)
      BY DEF Safe
    <3> QED
      BY <2>4, <3>1 DEF CallTarget
  <2>5. ASSUME NEW f \in Called, StepTarget(t, f)
        PROVE  \E p : MoveTo(t, p) /\ (t \notin missed => Safe(p))
    <3>1. f \notin jump => Safe(<<"target", f, 1>>)
      BY DEF Safe
    <3>2. f \in jump => Safe(<<"above", f>>)
      BY DEF Safe
    <3>3. f \in jump => Safe(<<"detour", f>>)
      <4>1. f \in jump => original[f] \in Slot \ free
        BY OriginalKnown DEF Threads
      <4> QED
        BY <4>1 DEF Safe
    <3> QED
      BY <2>5, <3>1, <3>2, <3>3 DEF StepTarget
  <2>6. ASSUME NEW f \in Called, LeaveTarget(t, f)
        PROVE  \E p : MoveTo(t, p) /\ (t \notin missed => Safe(p))
    BY <2>3, <2>6 DEF LeaveTarget
  <2>7. ASSUME NEW f \in Called, LongJump(t, f)
        PROVE  \E p : MoveTo(t, p) /\ (t \notin missed => Safe(p))
    <3>1. f \in jump /\ MoveTo(t, <<"detour", f>>)
      BY <2>7 DEF LongJump
    <3>2. original[f] \in Slot \ free
      BY <3>1, OriginalKnown DEF Threads
    <3>3. Safe(<<"detour", f>>)
      BY <3>2 DEF Safe
    <3> QED
      BY <3>1, <3>3
  <2>8. ASSUME NEW f \in Called, LeaveDetour(t, f)
        PROVE  \E p : MoveTo(t, p) /\ (t \notin missed => Safe(p))
    <3>1. t \notin missed => original[f] \in Slot \ free
      BY <2>1, <2>2, <2>8 DEF LeaveDetour, Safe
    <3>2. t \notin missed => Safe(<<"slot", original[f], 0>>)
      BY <3>1 DEF Safe
    <3> QED
      BY <2>3, <2>8, <3>2 DEF LeaveDetour
  <2>9. ASSUME NEW s \in Slot, StepTrampoline(t, s)
        PROVE  \E p : MoveTo(t, p) /\ (t \notin missed => Safe(p))
    <3>1. s \notin free
      BY <2>9 DEF StepTrampoline
    <3>2. \A i \in 0 .. 1 : Safe(<<"slot", s, i + 1>>)
      BY <3>1 DEF Safe
    <3> QED
      BY <2>3, <2>9, <3>2 DEF StepTrampoline
  <2> QED
    BY <2>4, <2>5, <2>6, <2>7, <2>8, <2>9 DEF Run
<1>2. /\ t \notin suspended /\ call[t].step = "idle"
  BY DEF Run, CallTarget, StepTarget, LeaveTarget, LongJump, LeaveDetour, StepTrampoline, Runs
<1>3. /\ UNCHANGED <<g_isLocked, g_hooks, free, jump, original, call, left, suspended>>
      /\ ip' = [ip EXCEPT ![t] = p]
      /\ missed' = IF p = <<"out">> /\ g_isLocked = None THEN missed \ {t} ELSE missed
  BY <1>1 DEF MoveTo
<1>4. ip \in [Thread -> Place]
  BY HolderFacts
<1>5. EntriesInv'
  BY <1>3 DEF Threads, EntriesInv
<1>6. CallersInv'
  BY <1>2, <1>3, <1>4 DEF Threads, CallersInv
<1>7. PlaceInv'
  <2>1. ASSUME NEW u \in Thread \ missed'
        PROVE  Safe(ip[u])'
    <3>1. CASE u = t
      <4>1. ip'[u] = p /\ Safe(p)
        <5>1. CASE t \notin missed
          BY <1>1, <1>3, <1>4, <3>1, <5>1
        <5>2. CASE t \in missed
          <6>1. p = <<"out">>
            BY <1>3, <2>1, <3>1, <5>2
          <6> QED
            BY <1>3, <1>4, <3>1, <6>1 DEF Safe
        <5> QED
          BY <5>1, <5>2
      <4> QED
        BY <1>3, <4>1 DEF Safe
    <3>2. CASE u # t
      <4>1. ip'[u] = ip[u] /\ Safe(ip[u])
        BY <1>3, <1>4, <2>1, <3>2 DEF Threads, PlaceInv
      <4> QED
        BY <1>3, <4>1 DEF Safe
    <3> QED
      BY <3>1, <3>2
  <2> QED
    BY <2>1 DEF PlaceInv
<1>8. ClearInv'
  <2>1. ASSUME NEW h \in Thread, call[h].step \in {"suspend", "write"}
        PROVE  /\ missed' = missed /\ h # t
               /\ t \in left \union missed \/ (call[h].step = "write" /\ t \in missed)
    <3>1. Beyond(h) /\ h # t
      BY <1>2, <2>1 DEF Beyond
    <3>2. missed' = missed
      BY <1>3, <3>1, Alone
    <3>3. call[h].step = "suspend" => t \in left \union missed
      BY <1>2, <3>1 DEF IInv, FreezeInv
    <3>4. call[h].step = "write" => t \in missed
      BY <1>2, <3>1 DEF IInv, FreezeInv
    <3> QED
      BY <2>1, <3>1, <3>2, <3>3, <3>4
  <2>2. ASSUME NEW h \in Thread, NEW u \in Thread \ (missed' \union {h}),
               (call[h].step = "suspend" /\ u \notin left) \/ call[h].step = "write"
        PROVE  Clear(call[h], ip[u])'
    <3>1. u # t /\ missed' = missed
      <4>1. call[h].step = "write" => t \in missed
        BY <1>2, <2>2 DEF IInv, FreezeInv
      <4> QED
        BY <2>1, <2>2, <4>1
    <3>2. ip'[u] = ip[u] /\ Clear(call[h], ip[u])
      BY <1>3, <1>4, <2>2, <3>1 DEF Threads, ClearInv
    <3> QED
      BY <1>3, <3>2, ClearKept
  <2> QED
    BY <1>3, <2>2 DEF ClearInv
<1> QED
  BY <1>5, <1>6, <1>7, <1>8 DEF Threads

-------------------------------------------------------------------------------
(***************************************************************************)
(* Calls begin, and enter and leave the lock.                              *)
(***************************************************************************)
LEMMA BeginCallSafe ==
  ASSUME IInv, Threads, NEW t \in Thread, NEW o \in Ops, NEW a, BeginCall(t, o, a)
  PROVE  Threads'
<1>1. /\ ip[t] = <<"out">>
      /\ call' = [call EXCEPT ![t] =
                    [op |-> o, arg |-> a, step |-> "spin", status |-> "pending"]]
      /\ UNCHANGED <<g_hooks, free, jump, original, left, ip, missed>>
  BY DEF BeginCall
<1>2. call'[t].step = "spin" /\ call'[t].op = o /\ \A u \in Thread \ {t} : call'[u] = call[u]
  BY <1>1 DEF IInv, DataInv
<1>3. EntriesInv' /\ CallersInv'
  BY <1>1, <1>2 DEF Threads, EntriesInv, CallersInv
<1>4. PlaceInv'
  BY <1>1, PlacesKept DEF Threads
<1>5. ClearInv'
  BY <1>1, <1>2, ClearKept DEF Threads, ClearInv
<1> QED
  BY <1>3, <1>4, <1>5 DEF Threads

LEMMA EnterSpinLockSafe ==
  ASSUME IInv, Threads, NEW t \in Thread, EnterSpinLock(t)
  PROVE  Threads'
<1>1. /\ call[t].step = "spin" /\ g_isLocked = None
      /\ call' = [call EXCEPT ![t].step = "body"]
      /\ UNCHANGED <<g_hooks, free, jump, original, left, ip, missed>>
  BY DEF EnterSpinLock, At, Goto
<1>2. /\ call'[t].step = "body" /\ call'[t].op = call[t].op
      /\ \A u \in Thread \ {t} : call'[u] = call[u]
  BY <1>1 DEF IInv, DataInv, Call
<1>3. \A u \in Thread : call[u].step \in {"idle", "spin"}
  BY <1>1, NoneAssumption DEF IInv, LockInv
<1>4. EntriesInv' /\ CallersInv'
  BY <1>1, <1>2 DEF Threads, EntriesInv, CallersInv
<1>5. PlaceInv'
  BY <1>1, PlacesKept DEF Threads
<1>6. ClearInv'
  BY <1>2, <1>3 DEF ClearInv
<1> QED
  BY <1>4, <1>5, <1>6 DEF Threads

LEMMA LeaveSpinLockSafe ==
  ASSUME IInv, Threads, NEW t \in Thread, LeaveSpinLock(t)
  PROVE  Threads'
<1>1. /\ Beyond(t) /\ call' = [call EXCEPT ![t] = Idle]
      /\ UNCHANGED <<g_hooks, free, jump, original, left, ip, missed>>
  BY DEF LeaveSpinLock, At, Beyond
<1>2. call'[t].step = "idle" /\ \A u \in Thread \ {t} : call'[u] = call[u]
  BY <1>1 DEF IInv, DataInv, Idle
<1>3. \A u \in Thread \ {t} : call[u].step \in {"idle", "spin"}
  BY <1>1, Alone DEF Beyond
<1>4. EntriesInv' /\ CallersInv'
  BY <1>1, <1>2 DEF Threads, EntriesInv, CallersInv
<1>5. PlaceInv'
  BY <1>1, PlacesKept DEF Threads
<1>6. ClearInv'
  BY <1>2, <1>3 DEF ClearInv
<1> QED
  BY <1>4, <1>5, <1>6 DEF Threads

-------------------------------------------------------------------------------
(***************************************************************************)
(* Calls that answer without stopping the others.                          *)
(***************************************************************************)
LEMMA InitializeSafe ==
  ASSUME IInv, Threads, NEW t \in Thread, MH_Initialize(t)
  PROVE  Threads'
<1>1. Beyond(t) /\ {"ALREADY_INITIALIZED", "MEMORY_ALLOC", "OK"} \subseteq Status
  BY DEF MH_Initialize, In, At, Beyond, Status
<1>2. CASE Refuse(t, "ALREADY_INITIALIZED") \/ Refuse(t, "MEMORY_ALLOC")
  BY <1>1, <1>2, Refused
<1>3. CASE Answer(t, "OK") /\ UNCHANGED <<g_hooks, free, jump, original, left, ip, missed>>
  BY <1>1, <1>3, Answered
<1> QED
  BY <1>2, <1>3 DEF MH_Initialize

\* The new trampoline was free, and the new target had no other.
LEMMA CreateHookSafe ==
  ASSUME IInv, Threads, NEW t \in Thread, MH_CreateHook(t)
  PROVE  Threads'
<1>1. Beyond(t) /\ call[t].op = "Create"
      /\ {"NOT_EXECUTABLE", "ALREADY_CREATED", "MEMORY_ALLOC", "UNSUPPORTED_FUNCTION", "OK"}
           \subseteq Status
  BY DEF MH_CreateHook, In, At, Beyond, Status
<1>2. CASE \E s \in Status : Refuse(t, s)
  BY <1>1, <1>2, Refused
<1>3. PICK f \in Target : f = call[t].arg
  <2>1. call[t].arg \in Api!Args(call[t].op)
    BY <1>1 DEF IInv, PhaseInv, Phase, Beyond
  <2> QED
    BY <2>1, <1>1 DEF Api!Args
<1>4. ASSUME NEW s \in free, Find(f) = 0, free' = free \ {s},
             g_hooks' = Append(g_hooks, NewEntry(f, s)),
             original' = [original EXCEPT ![f] = s], Answer(t, "OK"),
             UNCHANGED <<jump, left, ip, missed>>
      PROVE  Threads'
  <2> DEFINE h == NewEntry(f, s)
  <2>1. h \in Entry /\ h.slot = s /\ h.target = f /\ h.enabled = FALSE /\ s \in Slot
    BY <1>4 DEF NewEntry, Entry, IInv, DataInv, TypeOK
  <2>2. DataInv
    BY DEF IInv
  <2> HIDE DEF h
  <2>3. /\ DOMAIN g_hooks' = 1 .. Len(g_hooks) + 1 /\ DOMAIN g_hooks = 1 .. Len(g_hooks)
        /\ Len(g_hooks) \in Nat
        /\ \A i \in DOMAIN g_hooks : g_hooks'[i] = g_hooks[i]
        /\ g_hooks'[Len(g_hooks) + 1] = h
    BY <1>4, <2>1, <2>2, EntryAppended DEF h
  <2>4. original'[f] = s /\ \A g \in Target \ {f} : original'[g] = original[g]
    BY <1>4, <2>2 DEF DataInv, TypeOK
  <2>5. EntriesInv'
    <3>1. \A i \in DOMAIN g_hooks : g_hooks[i].target \in Target \ {f}
      BY <1>4, <2>2, FindFacts DEF DataInv, TypeOK
    <3>2. \A i \in DOMAIN g_hooks' : i \in DOMAIN g_hooks \/ i = Len(g_hooks) + 1
      BY <2>3
    <3>3. \A i \in DOMAIN g_hooks : (g_hooks[i].enabled => g_hooks[i].queue)
            /\ original[g_hooks[i].target] = g_hooks[i].slot
      BY DEF Threads, EntriesInv
    <3> QED
      BY <2>1, <2>3, <2>4, <3>1, <3>2, <3>3 DEF EntriesInv
  <2>6. PlaceInv'
    <3>1. ASSUME NEW u \in Thread \ missed'
          PROVE  Safe(ip[u])'
      <4>1. Safe(ip[u]) /\ ip'[u] = ip[u] /\ jump' = jump
        BY <1>4, <3>1 DEF Threads, PlaceInv
      <4>2. \A g \in Target : original[g] \in Slot \ free => original'[g] \in Slot \ free'
        BY <1>4, <2>1, <2>4
      <4>3. free' \subseteq free
        BY <1>4
      <4> QED
        BY <4>1, <4>2, <4>3 DEF Safe
    <3> QED
      BY <3>1 DEF PlaceInv
  <2>7. /\ call'[t].step = "leave" /\ call'[t].op = call[t].op
        /\ \A u \in Thread \ {t} : call'[u] = call[u]
    BY <1>4, <2>2 DEF Answer, DataInv, Call
  <2>8. \A u \in Thread \ {t} : call[u].step \in {"idle", "spin"}
    BY <1>1, Alone DEF Beyond
  <2>9. CallersInv'
    <3>1. call[t].op \in Ops /\ ip[t] = <<"out">>
      BY <1>1 DEF Threads, CallersInv, Beyond
    <3> QED
      BY <1>4, <2>7, <2>8, <3>1 DEF Threads, CallersInv
  <2>10. ClearInv'
    BY <2>7, <2>8 DEF ClearInv
  <2> QED
    BY <2>5, <2>6, <2>9, <2>10 DEF Threads
<1>5. CASE \E s \in free : \/ GiveBack(t, s, "UNSUPPORTED_FUNCTION")
                          \/ GiveBack(t, s, "MEMORY_ALLOC")
  BY <1>1, <1>2, <1>5, GivenBack
<1> QED
  BY <1>1, <1>2, <1>3, <1>4, <1>5 DEF MH_CreateHook

\* A program that only enables only queues entries to be enabled.
LEMMA QueueHookSafe ==
  ASSUME EnablesOnly, IInv, Threads, NEW t \in Thread, QueueHook(t)
  PROVE  Threads'
<1>1. Beyond(t) /\ {"NOT_CREATED", "OK"} \subseteq Status
  BY DEF QueueHook, In, At, Beyond, Status
<1>2. call[t].op = "QueueEnable" /\ call[t].op \in Ops /\ ip[t] = <<"out">>
  <2>1. call[t].op \in Ops /\ ip[t] = <<"out">>
    BY <1>1 DEF Threads, CallersInv, Beyond
  <2> QED
    BY <2>1 DEF QueueHook, In, EnablesOnly
<1>3. CASE Refuse(t, "NOT_CREATED")
  BY <1>1, <1>3, Refused
<1>4. ASSUME g_hooks' = [i \in DOMAIN g_hooks |->
               IF call[t].arg \in {AllHooks, g_hooks[i].target}
                 THEN [g_hooks[i] EXCEPT !.queue = (call[t].op = "QueueEnable")]
                 ELSE g_hooks[i]],
             Answer(t, "OK"),
             UNCHANGED <<free, jump, original, left, ip, missed>>
      PROVE  Threads'
  <2>1. \A i \in DOMAIN g_hooks : g_hooks[i] \in Entry
    BY DEF IInv, DataInv
  <2>2. /\ DOMAIN g_hooks' = DOMAIN g_hooks
        /\ \A i \in DOMAIN g_hooks :
             /\ g_hooks'[i].target = g_hooks[i].target /\ g_hooks'[i].slot = g_hooks[i].slot
             /\ g_hooks'[i].enabled = g_hooks[i].enabled
             /\ g_hooks[i].queue => g_hooks'[i].queue
    BY <1>2, <1>4, <2>1 DEF Entry
  <2>3. EntriesInv'
    BY <1>4, <2>2 DEF Threads, EntriesInv
  <2>4. PlaceInv'
    BY <1>4, PlacesKept DEF Threads
  <2>5. /\ call'[t].step = "leave" /\ call'[t].op = call[t].op
        /\ \A u \in Thread \ {t} : call'[u] = call[u]
    BY <1>4 DEF Answer, IInv, DataInv, Call
  <2>6. \A u \in Thread \ {t} : call[u].step \in {"idle", "spin"}
    BY <1>1, Alone DEF Beyond
  <2>7. CallersInv'
    BY <1>2, <1>4, <2>5, <2>6 DEF Threads, CallersInv
  <2>8. ClearInv'
    BY <2>5, <2>6 DEF ClearInv
  <2> QED
    BY <2>3, <2>4, <2>7, <2>8 DEF Threads
<1> QED
  BY <1>3, <1>4 DEF QueueHook

-------------------------------------------------------------------------------
(***************************************************************************)
(* The others are suspended, and moved out of the way.                     *)
(***************************************************************************)
LEMMA FreezeSafe ==
  ASSUME IInv, Threads, NEW t \in Thread, Beyond(t), call[t].op \in {"Enable", "Apply"},
         Freeze(t)
  PROVE  Threads'
<1>1. CASE Refuse(t, "MEMORY_ALLOC")
  BY <1>1, Refused DEF Status
<1>2. ASSUME left' = Thread \ {t}, Goto(t, "suspend"),
             UNCHANGED <<g_hooks, free, jump, original, ip, missed>>
      PROVE  Threads'
  <2>1. /\ call'[t].step = "suspend" /\ call'[t].op = call[t].op
        /\ \A u \in Thread \ {t} : call'[u] = call[u]
    BY <1>2 DEF Goto, IInv, DataInv, Call
  <2>2. \A u \in Thread \ {t} : call[u].step \in {"idle", "spin"}
    BY Alone DEF Beyond
  <2>3. EntriesInv'
    BY <1>2 DEF Threads, EntriesInv
  <2>4. CallersInv'
    <3>1. call[t].op \in Ops /\ ip[t] = <<"out">>
      BY DEF Threads, CallersInv, Beyond
    <3> QED
      BY <1>2, <2>1, <2>2, <3>1 DEF Threads, CallersInv
  <2>5. PlaceInv'
    BY <1>2, PlacesKept DEF Threads
  <2>6. ClearInv'
    BY <1>2, <2>1, <2>2 DEF ClearInv
  <2> QED
    BY <2>3, <2>4, <2>5, <2>6 DEF Threads
<1> QED
  BY <1>1, <1>2 DEF Freeze

\* The operation of a call that has got as far as the lock.
LEMMA OperationFacts ==
  ASSUME EnablesOnly, Threads, NEW t \in Thread, Beyond(t)
  PROVE  /\ call[t].op \in {"Initialize", "Create", "Enable", "QueueEnable", "Apply"}
         /\ ip[t] = <<"out">>
         /\ call[t].step \in {"suspend", "write"} => call[t].op \in {"Enable", "Apply"}
BY DEF Threads, CallersInv, Beyond, EnablesOnly

LEMMA EnableHookSafe ==
  ASSUME EnablesOnly, IInv, Threads, NEW t \in Thread, EnableHook(t)
  PROVE  Threads'
<1>1. Beyond(t) /\ {"NOT_CREATED", "ENABLED", "DISABLED"} \subseteq Status
  BY DEF EnableHook, In, At, Beyond, Status
<1>2. call[t].op \in {"Enable", "Apply"}
  BY <1>1, OperationFacts DEF EnableHook, In
<1>3. CASE \E s \in Status : Refuse(t, s)
  BY <1>1, <1>3, Refused
<1>4. CASE Freeze(t)
  BY <1>1, <1>2, <1>4, FreezeSafe
<1> QED
  BY <1>1, <1>3, <1>4 DEF EnableHook

LEMMA EnableAllHooksSafe ==
  ASSUME EnablesOnly, IInv, Threads, NEW t \in Thread, EnableAllHooksLL(t)
  PROVE  Threads'
<1>1. Beyond(t) /\ "OK" \in Status
  BY DEF EnableAllHooksLL, In, At, Beyond, Status
<1>2. call[t].op \in {"Enable", "Apply"}
  BY <1>1, OperationFacts DEF EnableAllHooksLL, In
<1>3. Freeze(t) \/ Refuse(t, "OK")
  BY <1>2 DEF EnableAllHooksLL
<1> QED
  BY <1>1, <1>2, <1>3, FreezeSafe, Refused

\* Where ProcessThreadIPs leaves a thread when hooks are to be enabled.
LEMMA RelocatedSafe ==
  ASSUME IInv, EntriesInv, NEW c \in Call, c.op \in {"Enable", "Apply"}, First(c) # 0,
         NEW p, Safe(p)
  PROVE  Safe(Relocated(c, p)) /\ Clear(c, Relocated(c, p))
<1> DEFINE Moves(i) == LET h == g_hooks[i] IN
                         IF h.enabled = FreezeWants(c, h) THEN {}
                         ELSE IF FreezeWants(c, h) THEN NewIP(h, p) ELSE OldIP(h, p)
           moves == UNION {Moves(i) : i \in First(c) .. Final(c)}
<1>1. Relocated(c, p) = IF moves = {} THEN p ELSE CHOOSE q \in moves : TRUE
  BY DEF Relocated
<1>2. ASSUME NEW i \in First(c) .. Final(c)
      PROVE  /\ i \in DOMAIN g_hooks /\ g_hooks[i] \in Entry
             /\ Moves(i) \subseteq NewIP(g_hooks[i], p)
             /\ ~g_hooks[i].enabled /\ Wanted(c, g_hooks[i]) => Moves(i) = NewIP(g_hooks[i], p)
  <2>1. i \in DOMAIN g_hooks
    BY <1>2, RangeFacts DEF IInv
  <2>2. g_hooks[i] \in Entry
    BY <2>1 DEF IInv, DataInv
  <2>3. g_hooks[i].enabled \in BOOLEAN /\ g_hooks[i].queue \in BOOLEAN
    BY <2>2 DEF Entry
  <2>4. FreezeWants(c, g_hooks[i]) = Wanted(c, g_hooks[i])
    BY DEF FreezeWants, Wanted
  <2>5. g_hooks[i].enabled => Wanted(c, g_hooks[i])
    BY <2>1 DEF EntriesInv, Wanted
  <2>6. Wanted(c, g_hooks[i]) \in BOOLEAN
    BY <2>3 DEF Wanted
  <2>7. Moves(i) = IF g_hooks[i].enabled = Wanted(c, g_hooks[i]) THEN {}
                   ELSE IF Wanted(c, g_hooks[i]) THEN NewIP(g_hooks[i], p)
                        ELSE OldIP(g_hooks[i], p)
    BY <2>4
  <2> HIDE DEF Moves
  <2> QED
    BY <2>1, <2>2, <2>3, <2>5, <2>6, <2>7
<1> HIDE DEF Moves
<1>3. CASE moves = {}
  <2>1. Relocated(c, p) = p
    BY <1>1, <1>3
  <2>2. ASSUME NEW i \in First(c) .. Final(c), ~g_hooks[i].enabled, Wanted(c, g_hooks[i])
        PROVE  p # <<"target", g_hooks[i].target, 1>>
    <3>1. NewIP(g_hooks[i], p) = {}
      BY <1>2, <1>3, <2>2
    <3>2. ASSUME p = <<"target", g_hooks[i].target, 1>>
          PROVE  <<"slot", g_hooks[i].slot, 1>> \in NewIP(g_hooks[i], p)
      <4>1. 1 \in {j \in 0 .. 1 : p = <<"target", g_hooks[i].target, j>>}
        BY <3>2
      <4> QED
        BY <4>1 DEF NewIP
    <3> QED
      BY <3>1, <3>2
  <2>3. Clear(c, p)
    BY <2>2 DEF Clear
  <2> QED
    BY <2>1, <2>3
<1>4. CASE moves # {}
  <2>1. Relocated(c, p) \in moves
    <3> HIDE DEF moves
    <3> QED
      BY <1>1, <1>4
  <2>2. PICK i \in First(c) .. Final(c) : Relocated(c, p) \in NewIP(g_hooks[i], p)
    BY <1>2, <2>1
  <2>3. PICK j \in 0 .. 1 : Relocated(c, p) = <<"slot", g_hooks[i].slot, j>>
    BY <2>2 DEF NewIP
  <2>4. g_hooks[i].slot \notin free
    BY <1>2 DEF IInv, SlotsAccountedFor, Entries
  <2> HIDE DEF moves
  <2>5. Safe(<<"slot", g_hooks[i].slot, j>>) /\ Clear(c, <<"slot", g_hooks[i].slot, j>>)
    BY <2>4 DEF Safe, Clear
  <2> QED
    BY <2>3, <2>5
<1> QED
  BY <1>3, <1>4

\* A thread outside the hooked program stays there.
LEMMA OutStaysOut ==
  ASSUME IInv, EntriesInv, NEW c \in Call, c.op \in {"Enable", "Apply"}, First(c) # 0
  PROVE  Relocated(c, <<"out">>) = <<"out">>
<1> DEFINE p == <<"out">>
           Moves(i) == LET h == g_hooks[i] IN
                         IF h.enabled = FreezeWants(c, h) THEN {}
                         ELSE IF FreezeWants(c, h) THEN NewIP(h, p) ELSE OldIP(h, p)
           moves == UNION {Moves(i) : i \in First(c) .. Final(c)}
<1>1. Relocated(c, p) = IF moves = {} THEN p ELSE CHOOSE q \in moves : TRUE
  BY DEF Relocated
<1>2. \A h : NewIP(h, p) = {} /\ OldIP(h, p) = {}
  <2>1. \A h : NewIP(h, p) = {}
    BY DEF NewIP
  <2>2. \A h : OldIP(h, p) = {}
    BY DEF OldIP
  <2> QED
    BY <2>1, <2>2
<1>3. \A i : Moves(i) = {}
  BY <1>2
<1> HIDE DEF Moves
<1>4. moves = {}
  BY <1>3
<1> QED
  BY <1>1, <1>4

LEMMA SuspendThreadSafe ==
  ASSUME EnablesOnly, IInv, Threads, NEW t \in Thread, NEW u \in Thread, SuspendThread(t, u)
  PROVE  Threads'
<1>1. /\ call[t].step = "suspend" /\ Beyond(t) /\ u \in left /\ left' = left \ {u}
      /\ UNCHANGED <<g_hooks, free, jump, original, call>>
  BY DEF SuspendThread, At, Beyond
<1>2. /\ call[t] \in Call /\ First(call[t]) # 0 /\ ip \in [Thread -> Place]
      /\ call[t].op \in {"Enable", "Apply"}
  BY <1>1, HolderFacts, OperationFacts DEF Phase
<1>3. \/ ip' = [ip EXCEPT ![u] = Relocated(call[t], ip[u])] /\ missed' = missed
      \/ ip' = ip /\ missed' = missed \union {u}
  BY DEF SuspendThread
<1>4. \A v \in Thread \ {u} : ip'[v] = ip[v] /\ (v \in missed' <=> v \in missed)
  BY <1>2, <1>3
<1>5. u \notin missed' => Safe(ip'[u]) /\ Clear(call[t], ip'[u])
  <2>1. ASSUME u \notin missed'
        PROVE  ip'[u] = Relocated(call[t], ip[u]) /\ Safe(ip[u])
    BY <1>2, <1>3, <2>1 DEF Threads, PlaceInv
  <2> QED
    BY <1>2, <2>1, RelocatedSafe DEF Threads
<1>6. EntriesInv'
  BY <1>1 DEF Threads, EntriesInv
<1>7. CallersInv'
  <2>1. ip[u] = <<"out">> => ip'[u] = <<"out">>
    BY <1>2, <1>3, OutStaysOut DEF Threads
  <2> QED
    BY <1>1, <1>4, <2>1 DEF Threads, CallersInv
<1>8. PlaceInv'
  <2>1. ASSUME NEW v \in Thread \ missed'
        PROVE  Safe(ip[v])'
    <3>1. Safe(ip'[v])
      <4>1. CASE v = u
        BY <1>5, <2>1, <4>1
      <4>2. CASE v # u
        BY <1>4, <2>1, <4>2 DEF Threads, PlaceInv
      <4> QED
        BY <4>1, <4>2
    <3> QED
      BY <1>1, <3>1 DEF Safe
  <2> QED
    BY <2>1 DEF PlaceInv
<1>9. ClearInv'
  <2>1. \A v \in Thread \ {t} : call'[v].step \in {"idle", "spin"}
    BY <1>1, Alone DEF Beyond
  <2>2. ASSUME NEW v \in Thread \ (missed' \union left' \union {t})
        PROVE  Clear(call[t], ip[v])'
    <3>1. Clear(call[t], ip'[v])
      <4>1. CASE v = u
        BY <1>5, <2>2, <4>1
      <4>2. CASE v # u
        BY <1>1, <1>4, <2>2, <4>2 DEF Threads, ClearInv
      <4> QED
        BY <4>1, <4>2
    <3>2. First(call[t])' = First(call[t]) /\ Final(call[t])' = Final(call[t])
      BY <1>1, SameEntries
    <3> QED
      BY <1>1, <3>1, <3>2 DEF Clear, Wanted
  <2>3. call'[t].step = "suspend"
    BY <1>1
  <2> QED
    BY <2>1, <2>2, <2>3 DEF ClearInv
<1> QED
  BY <1>6, <1>7, <1>8, <1>9 DEF Threads

LEMMA AllSuspendedSafe ==
  ASSUME IInv, Threads, NEW t \in Thread, AllSuspended(t)
  PROVE  Threads'
<1>1. /\ call[t].step = "suspend" /\ left = {} /\ Goto(t, "write") /\ Beyond(t)
      /\ UNCHANGED <<g_hooks, free, jump, original, ip, missed>>
  BY DEF AllSuspended, At, Beyond
<1>2. /\ call'[t].step = "write" /\ call'[t].op = call[t].op /\ call'[t].arg = call[t].arg
      /\ \A u \in Thread \ {t} : call'[u] = call[u]
  BY <1>1 DEF Goto, IInv, DataInv, Call
<1>3. \A u \in Thread \ {t} : call[u].step \in {"idle", "spin"}
  BY <1>1, Alone DEF Beyond
<1>4. EntriesInv'
  BY <1>1 DEF Threads, EntriesInv
<1>5. CallersInv'
  <2>1. call[t].op \in Ops \intersect {"Enable", "Apply"} /\ ip[t] = <<"out">>
    BY <1>1 DEF Threads, CallersInv
  <2> QED
    BY <1>1, <1>2, <1>3, <2>1 DEF Threads, CallersInv
<1>6. PlaceInv'
  BY <1>1, PlacesKept DEF Threads
<1>7. ClearInv'
  <2>1. ASSUME NEW u \in Thread \ (missed' \union {t})
        PROVE  Clear(call[t], ip[u])'
    <3>1. Clear(call[t], ip[u])
      BY <1>1, <2>1 DEF Threads, ClearInv
    <3> QED
      BY <1>1, <1>2, <3>1, ClearKept
  <2> QED
    BY <1>2, <1>3, <2>1 DEF ClearInv
<1> QED
  BY <1>4, <1>5, <1>6, <1>7 DEF Threads

-------------------------------------------------------------------------------
(***************************************************************************)
(* The code is written and the others run again.                           *)
(***************************************************************************)
\* The jump that is written covers nobody's next instruction.
LEMMA EnableHookLLSafe ==
  ASSUME EnablesOnly, IInv, Threads, NEW t \in Thread, EnableHookLL(t)
  PROVE  Threads'
<1> DEFINE on == Wanted(call[t], g_hooks[idx])
<1>1. /\ call[t].step = "write" /\ idx <= Final(call[t]) /\ Beyond(t)
      /\ g_hooks[idx].enabled # on
      /\ UNCHANGED <<free, original, ip, missed>>
  BY DEF EnableHookLL, At, Beyond
<1>2. /\ call[t] \in Call /\ call[t].op \in Ops /\ call[t].op \in {"Enable", "Apply"}
      /\ ip[t] = <<"out">> /\ DataInv
  BY <1>1, HolderFacts, OperationFacts DEF Threads, CallersInv, Beyond
<1>3. idx \in First(call[t]) .. Final(call[t]) /\ idx \in DOMAIN g_hooks
  <2>1. First(call[t]) # 0 /\ idx \in First(call[t]) .. Final(call[t]) + 1
    BY <1>1, HolderFacts DEF Phase
  <2>2. First(call[t]) \in Nat /\ Final(call[t]) \in Nat
        /\ First(call[t]) .. Final(call[t]) \subseteq DOMAIN g_hooks
    BY <1>2, <2>1, RangeFacts
  <2> QED
    BY <1>1, <2>1, <2>2
<1>4. g_hooks[idx].enabled = FALSE /\ on = TRUE
  <2>1. g_hooks[idx] \in Entry
    BY <1>2, <1>3 DEF DataInv
  <2>2. g_hooks[idx].enabled \in BOOLEAN /\ g_hooks[idx].queue \in BOOLEAN
    BY <2>1 DEF Entry
  <2>3. g_hooks[idx].enabled => on
    BY <1>2, <1>3 DEF Threads, EntriesInv, Wanted
  <2>4. on \in BOOLEAN
    BY <2>2 DEF Wanted
  <2> QED
    BY <1>1, <2>2, <2>3, <2>4
<1>5. \A u \in Thread \ {t} : call[u].step \in {"idle", "spin"}
  BY <1>1, Alone DEF Beyond
<1> HIDE DEF on
<1>6. ASSUME g_hooks' = [g_hooks EXCEPT ![idx] = Switched(g_hooks[idx], on)],
             jump' = IF on THEN jump \union {g_hooks[idx].target}
                           ELSE jump \ {g_hooks[idx].target},
             call' = IF call[t].arg = AllHooks \/ call[t].op = "Remove" THEN call
                     ELSE [call EXCEPT ![t].status = "OK"]
      PROVE  Threads'
  <2>1. /\ call'[t].step = "write" /\ call'[t].op = call[t].op /\ call'[t].arg = call[t].arg
        /\ \A u \in Thread \ {t} : call'[u] = call[u]
    BY <1>1, <1>2, <1>6 DEF DataInv, Call
  <2>2. jump' = jump \union {g_hooks[idx].target}
    BY <1>4, <1>6
  <2>3. /\ DOMAIN g_hooks' = DOMAIN g_hooks /\ Len(g_hooks') = Len(g_hooks)
        /\ g_hooks'[idx].target = g_hooks[idx].target
        /\ g_hooks'[idx].slot = g_hooks[idx].slot
        /\ g_hooks'[idx].enabled = TRUE /\ g_hooks'[idx].queue = TRUE
        /\ \A i \in DOMAIN g_hooks \ {idx} : g_hooks'[i] = g_hooks[i]
    <3>1. g_hooks[idx] \in Entry /\ g_hooks \in Seq(Entry)
      BY <1>2, <1>3 DEF DataInv
    <3> DEFINE h == Switched(g_hooks[idx], TRUE)
    <3>2. /\ h.target = g_hooks[idx].target /\ h.slot = g_hooks[idx].slot
          /\ h.enabled = TRUE /\ h.queue = TRUE
      BY <3>1 DEF Switched, Entry
    <3>3. g_hooks' = [g_hooks EXCEPT ![idx] = h]
      BY <1>4, <1>6
    <3> HIDE DEF h
    <3> QED
      BY <1>3, <3>1, <3>2, <3>3
  <2>4. EntriesInv'
    <3>1. ASSUME NEW i \in DOMAIN g_hooks'
          PROVE  /\ g_hooks'[i].enabled => g_hooks'[i].queue
                 /\ original'[g_hooks'[i].target] = g_hooks'[i].slot
      <4>1. /\ g_hooks[i].enabled => g_hooks[i].queue
            /\ original[g_hooks[i].target] = g_hooks[i].slot
        BY <2>3, <3>1 DEF Threads, EntriesInv
      <4> QED
        BY <1>1, <2>3, <3>1, <4>1
    <3> QED
      BY <3>1 DEF EntriesInv
  <2>5. CallersInv'
    BY <1>1, <1>2, <1>5, <2>1 DEF Threads, CallersInv
  <2>6. PlaceInv'
    <3>1. ASSUME NEW u \in Thread \ missed'
          PROVE  Safe(ip[u])'
      <4>1. ip[u] # <<"target", g_hooks[idx].target, 1>>
        <5>1. CASE u = t
          BY <1>2, <5>1
        <5>2. CASE u # t
          <6>1. Clear(call[t], ip[u])
            BY <1>1, <3>1, <5>2 DEF Threads, ClearInv
          <6> QED
            BY <1>3, <1>4, <6>1 DEF Clear, on
        <5> QED
          BY <5>1, <5>2
      <4>2. Safe(ip[u])
        BY <1>1, <3>1 DEF Threads, PlaceInv
      <4>3. /\ \A f \in Target :
                 /\ ip[u] = <<"target", f, 1>> => f \notin jump'
                 /\ ip[u] = <<"above", f>> => f \in jump'
                 /\ ip[u] = <<"detour", f>> => original[f] \in Slot \ free
            /\ \A s \in Slot, i \in 0 .. 2 : ip[u] = <<"slot", s, i>> => s \notin free
        BY <2>2, <4>1, <4>2 DEF Safe
      <4> QED
        BY <1>1, <4>3 DEF Safe
    <3> QED
      BY <3>1 DEF PlaceInv
  <2>7. ClearInv'
    <3>1. First(call[t])' = First(call[t]) /\ Final(call[t])' = Final(call[t])
      <4>1. \A i \in DOMAIN g_hooks : g_hooks'[i].target = g_hooks[i].target
        BY <2>3
      <4>2. SlotsAccountedFor
        BY DEF IInv
      <4> QED
        BY <1>2, <2>1, <2>3, <4>1, <4>2, SameTargets
    <3>2. First(call[t]) .. Final(call[t]) \subseteq DOMAIN g_hooks
      <4>1. First(call[t]) # 0
        BY <1>1, HolderFacts DEF Phase
      <4> QED
        BY <1>2, <4>1, RangeFacts
    <3>3. ASSUME NEW u \in Thread \ (missed' \union {t})
          PROVE  Clear(call[t], ip[u])'
      <4>1. Clear(call[t], ip[u])
        BY <1>1, <3>3 DEF Threads, ClearInv
      <4>2. ASSUME NEW i \in First(call[t]) .. Final(call[t]),
                   ~g_hooks'[i].enabled, Wanted(call'[t], g_hooks'[i])
            PROVE  ip[u] # <<"target", g_hooks'[i].target, 1>>
        <5>1. i \in DOMAIN g_hooks \ {idx}
          BY <2>3, <3>2, <4>2
        <5>2. g_hooks'[i] = g_hooks[i]
          BY <2>3, <5>1
        <5> QED
          BY <2>1, <4>1, <4>2, <5>2 DEF Clear, Wanted
      <4> QED
        BY <1>1, <3>1, <4>2 DEF Clear, Wanted
    <3> QED
      BY <1>5, <2>1, <3>3 DEF ClearInv
  <2> QED
    BY <2>4, <2>5, <2>6, <2>7 DEF Threads
<1>7. ASSUME call' = [call EXCEPT ![t].step = "resume", ![t].status = "MEMORY_PROTECT"],
             UNCHANGED <<g_hooks, jump>>
      PROVE  Threads'
  <2> DEFINE c == [call[t] EXCEPT !.step = "resume", !.status = "MEMORY_PROTECT"]
  <2>1. c \in Call /\ c.step = "resume" /\ c.op = call[t].op /\ call' = [call EXCEPT ![t] = c]
    BY <1>2, <1>7 DEF Call, Step, Status, DataInv
  <2> HIDE DEF c
  <2> QED
    BY <1>1, <1>7, <2>1, HolderGoesOn
<1> QED
  BY <1>6, <1>7 DEF EnableHookLL, on

LEMMA AllWrittenSafe ==
  ASSUME IInv, Threads, NEW t \in Thread, AllWritten(t)
  PROVE  Threads'
<1> DEFINE status == IF Removes(call[t]) THEN call[t].status ELSE "OK"
           c == [call[t] EXCEPT !.step = "resume", !.status = status]
<1>1. /\ Beyond(t) /\ call' = [call EXCEPT ![t].step = "resume", ![t].status = status]
      /\ UNCHANGED <<g_hooks, free, jump, original, ip, missed>>
  BY DEF AllWritten, At, Beyond, Removes
<1>2. call[t] \in Call /\ status \in Status
  BY HolderFacts DEF Status, Call
<1> HIDE DEF status
<1>3. c \in Call /\ c.step = "resume" /\ c.op = call[t].op /\ call' = [call EXCEPT ![t] = c]
  BY <1>1, <1>2 DEF Call, Step, IInv, DataInv
<1> HIDE DEF c
<1> QED
  BY <1>1, <1>3, HolderGoesOn

LEMMA AllResumedSafe ==
  ASSUME IInv, Threads, NEW t \in Thread, AllResumed(t)
  PROVE  Threads'
<1>1. /\ Beyond(t)
      /\ Goto(t, IF call[t].status = "pending" THEN "finish" ELSE "leave")
      /\ missed' = {u \in missed : ip[u] # <<"out">>}
      /\ UNCHANGED <<g_hooks, free, jump, original, ip>>
  BY DEF AllResumed, At, Beyond
<1>2. \A u \in Thread : u \in missed /\ u \notin missed' => ip[u] = <<"out">>
  BY <1>1
<1>3. {"finish", "leave"} \subseteq Step \ {"idle", "suspend", "write"}
  BY DEF Step
<1> QED
  BY <1>1, <1>2, <1>3, WentTo

-------------------------------------------------------------------------------
LEMMA InitiallySafe ==
  Init => Threads
<1> SUFFICES ASSUME Init
             PROVE  Threads
  OBVIOUS
<1>1. EntriesInv /\ CallersInv /\ ClearInv
  BY DEF Init, Idle, EntriesInv, CallersInv, ClearInv
<1>2. PlaceInv
  BY DEF Init, PlaceInv, Safe
<1> QED
  BY <1>1, <1>2 DEF Threads

LEMMA StaysSafe ==
  ASSUME EnablesOnly
  PROVE  IInv /\ Threads /\ [Next]_vars => Threads'
<1> SUFFICES ASSUME IInv, Threads, [Next]_vars
             PROVE  Threads'
  OBVIOUS
<1>1. CASE UNCHANGED vars
  BY <1>1, NothingMoves DEF vars
<1>2. ASSUME NEW t \in Thread, Critical(t)
      PROVE  Threads'
  <2>1. CASE NotInitialized(t)
    BY <2>1, Refused DEF NotInitialized, At, Beyond, Status
  <2>2. CASE \E u \in Thread : SuspendThread(t, u) \/ ResumeThread(t, u)
    BY <2>2, SuspendThreadSafe, NothingMoves DEF ResumeThread
  <2>3. CASE SkipEntry(t)
    BY <2>3, NothingMoves DEF SkipEntry
  <2>4. CASE MH_RemoveHook(t) \/ FreeEntry(t) \/ FreeAll(t)
    <3>1. Beyond(t) /\ call[t].op \in {"Remove", "Uninitialize"}
      BY <2>4 DEF MH_RemoveHook, FreeEntry, FreeAll, In, At, Beyond
    <3> QED
      BY <3>1, OperationFacts
  <2> QED
    BY <1>2, <2>1, <2>2, <2>3, <2>4, InitializeSafe, CreateHookSafe, EnableHookSafe,
       EnableAllHooksSafe, QueueHookSafe, AllSuspendedSafe, EnableHookLLSafe,
       AllWrittenSafe, AllResumedSafe, LeaveSpinLockSafe DEF Critical
<1> QED
  BY <1>1, <1>2, RunSafe, BeginCallSafe, EnterSpinLockSafe DEF Next

(***************************************************************************)
(* Freeze and ProcessThreadIPs leave no thread in code that changes under  *)
(* it, as long as the program only enables: however many threads run and   *)
(* call the API at once, whatever hooks they create and whatever fails, a  *)
(* thread stays out of half written jumps, of hot patch areas without a    *)
(* jump, of free slots and of detours without an original, unless a freeze *)
(* has overlooked it.                                                      *)
(***************************************************************************)
THEOREM NobodyStrays ==
  ASSUME EnablesOnly
  PROVE  Spec => []NoStrayThread
<1>1. IInv /\ Threads => NoStrayThread
  BY DEF Threads, PlaceInv, Safe, NoStrayThread
<1>2. IInv /\ Threads /\ [Next]_vars => Threads'
  BY StaysSafe
<1> QED
  BY <1>1, <1>2, InitiallySafe, MinHookInvariant, PTL DEF Spec
===============================================================================
