---------------------------- MODULE CodePatchProofs ----------------------------
(***************************************************************************)
(* Proofs about CodePatch, for any image, any number of sites and threads. *)
(***************************************************************************)
EXTENDS CodePatch, TLAPS

USE DEF InitNP, PreInitNP, Language, Episode4, IME, MOV, RETN

LEMMA PatchedCells ==
  ASSUME NEW k \in Kind
  PROVE  /\ DOMAIN Patched(k) = IF k = IME THEN {"arg"} ELSE {"op", "imm", "ret"}
         /\ DOMAIN Patched(k) \subseteq Cell
         /\ k # IME => /\ Patched(k)["op"] = MOV
                       /\ Patched(k)["imm"] = ReturnValue(k)
                       /\ Patched(k)["ret"] = RETN
  BY DEF Patched, Cell, Kind

LEMMA ReturnValues ==
  ASSUME cfg \in Config, NEW k \in Kind, k # IME
  PROVE  ReturnValue(k) \in Int /\ ReturnValue(k) # 4400
PROOF
  <1>1. cfg.language \in 0 .. 7
    BY LanguageAssumption DEF Config
  <1> QED BY <1>1 DEF ReturnValue, Kind, InitNP, PreInitNP, Language, Episode4, IME

\* A pattern that matches a site whose cells are its own, or the executable's,
\* is the pattern of that site.
LEMMA OwnMatch ==
  ASSUME TypeOK, OwnPatchOnly, NEW s \in Site, NEW k \in Kind, Fits(k, mem[s])
  PROVE  k = KindOf[s]
PROOF
  <1> DEFINE j == KindOf[s]
  <1>1. j \in Kind
    BY SiteAssumption
  <1>2. DOMAIN Image[s] = Cell /\ Image[s].op \in Int /\ Image[s].imm \in Int
    BY ImageAssumption
  <1>3. Fits(j, Image[s]) /\ (j = PreInitNP => Image[s].imm # 4400)
    BY ImageAssumption
  <1>4. \A c \in {"op", "imm", "ret"} :
          mem[s][c] = Image[s][c] \/ (c \in DOMAIN Patched(j) /\ mem[s][c] = Patched(j)[c])
    BY DEF OwnPatchOnly, Cell
  <1>5. mem[s].op = Image[s].op \/ (j # IME /\ mem[s].op = MOV)
    BY <1>1, <1>4, PatchedCells DEF Kind
  <1>6. mem[s].imm = Image[s].imm \/ (j # IME /\ mem[s].imm # 4400)
    BY <1>1, <1>4, PatchedCells, ReturnValues DEF Kind, TypeOK
  <1>7. CASE k = Episode4
    BY <1>1, <1>2, <1>3, <1>5, <1>6, <1>7 DEF Fits, Kind
  <1>8. CASE k # Episode4
    BY <1>1, <1>2, <1>3, <1>5, <1>8 DEF Fits, Kind
  <1> QED BY <1>7, <1>8

-------------------------------------------------------------------------------
(***************************************************************************)
(* Type correctness.                                                       *)
(***************************************************************************)
LEMMA StoresTyped ==
  ASSUME NEW k \in Kind, NEW s \in Site
  PROVE  StoresAt(k, s) \subseteq Site \X Cell
  BY PatchedCells DEF StoresAt

LEMMA TypeInit == Init => TypeOK
  BY SiteAssumption, ImageAssumption, ThreadAssumption DEF Init, TypeOK, Kind, Site

LEMMA TypeStep == TypeOK /\ [Next]_vars => TypeOK'
PROOF
  <1> SUFFICES ASSUME TypeOK, [Next]_vars PROVE TypeOK'
    OBVIOUS
  <1> USE DEF TypeOK
  <1>1. CASE Unpack
    BY <1>1 DEF Unpack
  <1>2. ASSUME NEW t \in Thread, EnterFromGame(t) PROVE TypeOK'
    BY <1>2, SiteAssumption DEF EnterFromGame, Goto, FirstKind, Kind, Site
  <1>3. ASSUME NEW t \in Thread, EnterFromOther(t) PROVE TypeOK'
    BY <1>3 DEF EnterFromOther, Goto
  <1>4. ASSUME NEW t \in Thread, ScanSite(t) PROVE TypeOK'
    <2>1. todo' \in [Thread -> SUBSET (Site \X Cell)]
      BY <1>4, StoresTyped DEF ScanSite
    <2>2. pos' \in [Thread -> 1 .. NumSites + 1]
      BY <1>4, SiteAssumption DEF ScanSite, Site
    <2> QED BY <1>4, <2>1, <2>2 DEF ScanSite
  <1>5. ASSUME NEW t \in Thread, ScanDone(t) PROVE TypeOK'
    BY <1>5 DEF ScanDone, Goto
  <1>6. ASSUME NEW t \in Thread, Store(t) PROVE TypeOK'
    <2>1. PICK w \in todo[t] :
            /\ mem' = [mem EXCEPT ![w[1]][w[2]] = Patched(kind[t])[w[2]]]
            /\ todo' = [todo EXCEPT ![t] = @ \ {w}]
      BY <1>6 DEF Store
    <2>2. DOMAIN mem' = Site /\ \A s \in Site : DOMAIN mem'[s] = Cell
      BY <2>1
    <2>3. todo' \in [Thread -> SUBSET (Site \X Cell)]
      BY <2>1
    <2> QED BY <1>6, <2>2, <2>3 DEF Store
  <1>7. ASSUME NEW t \in Thread, NextPattern(t) PROVE TypeOK'
    <2>1. pos' \in [Thread -> 1 .. NumSites + 1]
      BY <1>7, SiteAssumption DEF NextPattern
    <2>2. kind' \in [Thread -> Kind]
      BY <1>7 DEF NextPattern, Kind
    <2> QED BY <1>7, <2>1, <2>2 DEF NextPattern, Goto
  <1>8. ASSUME NEW t \in Thread, Return(t) PROVE TypeOK'
    BY <1>8 DEF Return, Goto
  <1>9. ASSUME NEW t \in Thread, NEW s \in Site, CallSite(t, s) PROVE TypeOK'
    BY <1>9 DEF CallSite, Goto, HeadOf
  <1>10. ASSUME NEW t \in Thread, FinishCall(t) PROVE TypeOK'
    BY <1>10 DEF FinishCall, Goto
  <1>11. CASE UNCHANGED vars
    BY <1>11 DEF vars
  <1> QED
    BY <1>1, <1>2, <1>3, <1>4, <1>5, <1>6, <1>7, <1>8, <1>9, <1>10, <1>11
    DEF Next, Detour

\* Every variable keeps its type, from any image and any set of threads.
THEOREM TypeCorrect == Spec => []TypeOK
  BY TypeInit, TypeStep, PTL DEF Spec

-------------------------------------------------------------------------------
(***************************************************************************)
(* What a step can do to the image, and to the work threads have in hand.  *)
(***************************************************************************)
\* The settings do not change, so neither does what the patches store.
LEMMA SettingsFixed ==
  ASSUME [Next]_vars
  PROVE  /\ cfg' = cfg
         /\ \A k : Patched(k)' = Patched(k) /\ (Applied(k)' <=> Applied(k))
PROOF
  <1>1. cfg' = cfg
    BY DEF Next, Detour, Unpack, EnterFromGame, EnterFromOther, ScanSite, ScanDone,
           Store, NextPattern, Return, CallSite, FinishCall, vars
  <1> QED BY <1>1 DEF Patched, Applied, ReturnValue

\* A step either stores one patched cell some thread owes, or leaves the
\* image alone and takes nothing off a list.
LEMMA StepKinds ==
  ASSUME TypeOK, TodoInv, [Next]_vars
  PROVE  \/ /\ mem' = mem
            /\ \A t \in Thread : todo[t] \subseteq todo'[t]
         \/ \E t \in Thread : Store(t) /\ \E s \in Site, c \in Cell :
              /\ <<s, c>> \in todo[t]
              /\ mem' = [mem EXCEPT ![s][c] = Patched(KindOf[s])[c]]
              /\ todo' = [todo EXCEPT ![t] = @ \ {<<s, c>>}]
PROOF
  <1>1. ASSUME NEW t \in Thread, Store(t)
        PROVE  \E s \in Site, c \in Cell :
                 /\ <<s, c>> \in todo[t]
                 /\ mem' = [mem EXCEPT ![s][c] = Patched(KindOf[s])[c]]
                 /\ todo' = [todo EXCEPT ![t] = @ \ {<<s, c>>}]
    <2>1. PICK w \in todo[t] :
            /\ mem' = [mem EXCEPT ![w[1]][w[2]] = Patched(kind[t])[w[2]]]
            /\ todo' = [todo EXCEPT ![t] = @ \ {w}]
      BY <1>1 DEF Store
    <2>2. PICK s \in Site, c \in Cell : w = <<s, c>>
      BY <2>1 DEF TypeOK
    <2>3. KindOf[s] = kind[t]
      BY <2>1, <2>2 DEF TodoInv
    <2> QED BY <2>1, <2>2, <2>3
  <1>2. ASSUME NEW t \in Thread, ScanSite(t)
        PROVE  mem' = mem /\ \A u \in Thread : todo[u] \subseteq todo'[u]
    BY <1>2 DEF ScanSite, TypeOK
  <1>3. ASSUME NEW t \in Thread,
               \/ EnterFromGame(t) \/ EnterFromOther(t) \/ ScanDone(t)
               \/ NextPattern(t) \/ Return(t) \/ FinishCall(t)
               \/ \E s \in Site : CallSite(t, s)
        PROVE  mem' = mem /\ todo' = todo
    BY <1>3 DEF EnterFromGame, EnterFromOther, ScanDone, NextPattern, Return,
                FinishCall, CallSite
  <1>4. CASE Unpack \/ UNCHANGED vars
    BY <1>4 DEF Unpack, vars
  <1> QED BY <1>1, <1>2, <1>3, <1>4 DEF Next, Detour

\* Once a site is in hand it stays so: a store takes a cell off a list only
\* by patching it, and no store takes a patched cell back.
LEMMA InHandStable ==
  ASSUME TypeOK, TodoInv, [Next]_vars, NEW s \in Site, InHand(s)
  PROVE  InHand(s)'
PROOF
  <1> SUFFICES ASSUME NEW c \in DOMAIN Patched(KindOf[s]) PROVE CellInHand(s, c)'
    BY SettingsFixed DEF InHand
  <1>1. CellInHand(s, c) /\ c \in Cell
    BY SiteAssumption, PatchedCells DEF InHand
  <1>2. Patched(KindOf[s])' = Patched(KindOf[s])
    BY SettingsFixed
  <1>3. CASE mem' = mem /\ \A t \in Thread : todo[t] \subseteq todo'[t]
    BY <1>1, <1>2, <1>3 DEF CellInHand
  <1>4. ASSUME NEW t \in Thread, NEW r \in Site, NEW d \in Cell,
               mem' = [mem EXCEPT ![r][d] = Patched(KindOf[r])[d]],
               todo' = [todo EXCEPT ![t] = @ \ {<<r, d>>}]
        PROVE  CellInHand(s, c)'
    <2>1. CASE r = s /\ d = c
      <3>1. mem'[s][c] = Patched(KindOf[s])[c]
        BY <1>1, <1>4, <2>1 DEF TypeOK
      <3> QED BY <3>1, <1>2 DEF CellInHand
    <2>2. CASE ~(r = s /\ d = c)
      <3>1. mem'[s][c] = mem[s][c]
        BY <1>1, <1>4, <2>2 DEF TypeOK
      <3>2. \A u \in Thread : <<s, c>> \in todo[u] => <<s, c>> \in todo'[u]
        BY <1>4, <2>2 DEF TypeOK
      <3> QED BY <1>1, <1>2, <3>1, <3>2 DEF CellInHand
    <2> QED BY <2>1, <2>2
  <1> QED BY <1>3, <1>4, StepKinds

-------------------------------------------------------------------------------
(***************************************************************************)
(* The parts of the inductive invariant, one lemma each.                   *)
(***************************************************************************)
LEMMA OwnPatchStep ==
  ASSUME TypeOK, OwnPatchOnly, TodoInv, [Next]_vars
  PROVE  OwnPatchOnly'
PROOF
  <1> SUFFICES ASSUME NEW s \in Site, NEW c \in Cell
               PROVE  \/ mem'[s][c] = Image[s][c]
                      \/ /\ Applied(KindOf[s])
                         /\ c \in DOMAIN Patched(KindOf[s])
                         /\ mem'[s][c] = Patched(KindOf[s])[c]
    BY SettingsFixed DEF OwnPatchOnly
  <1>1. CASE mem' = mem
    BY <1>1 DEF OwnPatchOnly
  <1>2. ASSUME NEW t \in Thread, NEW r \in Site, NEW d \in Cell,
               <<r, d>> \in todo[t],
               mem' = [mem EXCEPT ![r][d] = Patched(KindOf[r])[d]]
        PROVE  \/ mem'[s][c] = Image[s][c]
               \/ /\ Applied(KindOf[s])
                  /\ c \in DOMAIN Patched(KindOf[s])
                  /\ mem'[s][c] = Patched(KindOf[s])[c]
    <2>1. Applied(KindOf[r]) /\ d \in DOMAIN Patched(KindOf[r])
      BY <1>2 DEF TodoInv
    <2>2. CASE r = s /\ d = c
      BY <1>2, <2>1, <2>2 DEF TypeOK
    <2>3. CASE ~(r = s /\ d = c)
      <3>1. mem'[s][c] = mem[s][c]
        BY <1>2, <2>3 DEF TypeOK
      <3> QED BY <3>1 DEF OwnPatchOnly
    <2> QED BY <2>2, <2>3
  <1> QED BY <1>1, <1>2, StepKinds

\* What ScanSite adds to a list is all of a patch, for a site of that patch.
LEMMA ScanFinds ==
  ASSUME TypeOK, OwnPatchOnly, NEW t \in Thread, ScanSite(t),
         NEW s, s = pos[t], NEW k, k = kind[t], Matches(k, s)
  PROVE  /\ s \in Site /\ KindOf[s] = k /\ pc[t] = "scan"
         /\ Applied(k) => InHand(s)'
         /\ todo' = [todo EXCEPT ![t] = @ \union StoresAt(k, s)]
PROOF
  <1>1. s \in Site /\ pc[t] = "scan" /\ cfg' = cfg
    BY DEF ScanSite
  <1>2. KindOf[s] = k
    BY <1>1, OwnMatch DEF Matches, TypeOK
  <1>3. todo' = [todo EXCEPT ![t] = @ \union StoresAt(k, s)]
    BY DEF ScanSite
  <1>4. ASSUME Applied(k) PROVE InHand(s)'
    <2>1. Patched(k)' = Patched(k)
      BY <1>1 DEF Patched, ReturnValue
    <2>2. \A c \in DOMAIN Patched(k) : <<s, c>> \in todo'[t]
      BY <1>3, <1>4 DEF StoresAt, TypeOK
    <2> QED BY <1>2, <2>1, <2>2 DEF InHand, CellInHand
  <1> QED BY <1>1, <1>2, <1>3, <1>4

LEMMA TodoStep ==
  ASSUME TypeOK, OwnPatchOnly, TodoInv, [Next]_vars
  PROVE  TodoInv'
PROOF
  <1> DEFINE Owes(t, s, c) ==
        /\ pc[t] \in {"scan", "store"}
        /\ KindOf[s] = kind[t]
        /\ Applied(KindOf[s])
        /\ c \in DOMAIN Patched(KindOf[s])
        /\ InHand(s)
  <1> SUFFICES ASSUME NEW u \in Thread, NEW s \in Site, NEW c \in Cell,
                      <<s, c>> \in todo'[u]
               PROVE  Owes(u, s, c)'
    BY DEF TodoInv
  <1>1. ASSUME <<s, c>> \in todo[u],
               pc'[u] \in {"scan", "store"}, kind'[u] = kind[u]
        PROVE  Owes(u, s, c)'
    BY <1>1, InHandStable, SettingsFixed DEF TodoInv
  <1>2. <<s, c>> \in todo[u] => pc[u] \in {"scan", "store"}
    BY DEF TodoInv
  <1>3. ASSUME NEW t \in Thread, t # u,
               \/ EnterFromGame(t) \/ EnterFromOther(t) \/ Detour(t)
               \/ FinishCall(t) \/ \E r \in Site : CallSite(t, r)
        PROVE  Owes(u, s, c)'
    <2>1. todo'[u] = todo[u] /\ pc'[u] = pc[u] /\ kind'[u] = kind[u]
      BY <1>3 DEF TypeOK, EnterFromGame, EnterFromOther, Detour, FinishCall,
                  CallSite, ScanSite, ScanDone, Store, NextPattern, Return, Goto
    <2> QED BY <1>1, <1>2, <2>1
  <1>4. CASE EnterFromGame(u) \/ EnterFromOther(u) \/ Return(u) \/ FinishCall(u)
             \/ \E r \in Site : CallSite(u, r)
    <2>1. todo'[u] = todo[u] /\ pc[u] \notin {"scan", "store"}
      BY <1>4 DEF EnterFromGame, EnterFromOther, Return, FinishCall, CallSite
    <2> QED BY <1>2, <2>1
  <1>5. CASE NextPattern(u)
    <2>1. todo'[u] = {}
      BY <1>5 DEF NextPattern
    <2> QED BY <2>1
  <1>6. CASE ScanDone(u)
    BY <1>1, <1>6 DEF ScanDone, Goto, TypeOK
  <1>7. CASE Store(u)
    <2>1. <<s, c>> \in todo[u] /\ pc'[u] = "store" /\ kind'[u] = kind[u]
      BY <1>7 DEF Store, TypeOK
    <2> QED BY <1>1, <2>1
  <1>8. CASE ScanSite(u)
    <2>1. pc'[u] = "scan" /\ kind'[u] = kind[u]
      BY <1>8 DEF ScanSite
    <2>2. CASE <<s, c>> \in todo[u]
      BY <1>1, <2>1, <2>2
    <2>3. CASE <<s, c>> \notin todo[u]
      <3>1. Matches(kind[u], pos[u])
        BY <1>8, <2>3 DEF ScanSite, TypeOK
      <3>2. <<s, c>> \in StoresAt(kind[u], pos[u])
        BY <1>8, <2>3, <3>1, ScanFinds DEF TypeOK
      <3>3. s = pos[u] /\ Applied(kind[u]) /\ c \in DOMAIN Patched(kind[u])
        BY <3>2 DEF StoresAt
      <3>4. KindOf[s] = kind[u] /\ InHand(s)'
        BY <1>8, <3>1, <3>3, ScanFinds
      <3> QED BY <2>1, <3>3, <3>4, SettingsFixed
    <2> QED BY <2>2, <2>3
  <1>9. CASE Unpack \/ UNCHANGED vars
    <2>1. todo' = todo /\ pc' = pc /\ kind' = kind
      BY <1>9 DEF Unpack, vars
    <2> QED BY <1>1, <1>2, <2>1
  <1> QED
    BY <1>3, <1>4, <1>5, <1>6, <1>7, <1>8, <1>9 DEF Next, Detour

LEMMA MissStep ==
  ASSUME TypeOK, TodoInv, MissInv, [Next]_vars
  PROVE  MissInv'
PROOF
  <1> SUFFICES ASSUME NEW s \in Site, Applied(KindOf[s]), ~Fits(KindOf[s], mem[s])'
               PROVE  InHand(s)'
    BY SettingsFixed DEF MissInv
  <1>1. CASE ~Fits(KindOf[s], mem[s])
    BY <1>1, InHandStable DEF MissInv
  <1>2. CASE Fits(KindOf[s], mem[s])
    <2>1. mem'[s] # mem[s]
      BY <1>2 DEF Fits
    <2>2. PICK t \in Thread, r \in Site, c \in Cell :
            /\ <<r, c>> \in todo[t]
            /\ mem' = [mem EXCEPT ![r][c] = Patched(KindOf[r])[c]]
      BY <2>1, StepKinds
    <2>3. r = s
      BY <2>1, <2>2 DEF TypeOK
    <2>4. InHand(s)
      BY <2>2, <2>3 DEF TodoInv
    <2> QED BY <2>4, InHandStable
  <1> QED BY <1>1, <1>2

LEMMA PackedStep ==
  ASSUME TypeOK, PackedInv, [Next]_vars
  PROVE  PackedInv'
PROOF
  <1> SUFFICES ASSUME phase' = "packed", NEW u \in Thread \ {Main}
               PROVE  pc'[u] = "game"
    BY DEF PackedInv
  <1>1. phase = "packed"
    BY DEF Next, Detour, Unpack, EnterFromGame, EnterFromOther, ScanSite, ScanDone,
           Store, NextPattern, Return, CallSite, FinishCall, vars
  <1>2. pc[u] = "game" /\ ~MayRun(u)
    BY <1>1 DEF PackedInv, MayRun
  <1>3. ASSUME NEW t \in Thread, t # u,
               \/ EnterFromGame(t) \/ EnterFromOther(t) \/ Detour(t)
               \/ FinishCall(t) \/ \E s \in Site : CallSite(t, s)
        PROVE  pc'[u] = pc[u]
    BY <1>3 DEF TypeOK, EnterFromGame, EnterFromOther, Detour, FinishCall, CallSite,
                ScanSite, ScanDone, Store, NextPattern, Return, Goto
  <1>4. ~(EnterFromGame(u) \/ EnterFromOther(u) \/ Detour(u) \/ FinishCall(u))
    BY <1>2 DEF EnterFromGame, EnterFromOther, Detour, FinishCall, ScanSite,
                ScanDone, Store, NextPattern, Return
  <1>5. \A s \in Site : ~CallSite(u, s)
    BY <1>1 DEF CallSite
  <1>6. CASE Unpack \/ UNCHANGED vars
    BY <1>2, <1>6 DEF Unpack, vars
  <1> QED BY <1>2, <1>3, <1>4, <1>5, <1>6 DEF Next

\* A thread that gets past a site leaves it in hand: it found the site and
\* took its stores on, or the pattern failed because another thread had begun.
LEMMA PastStep ==
  ASSUME TypeOK, OwnPatchOnly, TodoInv, MissInv, PastInv, PackedInv, [Next]_vars
  PROVE  PastInv'
PROOF
  <1> SUFFICES ASSUME NEW s \in Site, Applied(KindOf[s]), ~InHand(s)'
               PROVE  /\ \A t \in Thread : ~(phase' # "packed" /\ Past(t, s)')
                      /\ phase' # "running"
    BY SettingsFixed DEF PastInv
  <1>1. ~InHand(s)
    BY InHandStable
  <1>2. /\ \A t \in Thread : phase = "packed" \/ ~Past(t, s)
        /\ phase # "running"
    BY <1>1 DEF PastInv
  <1>3. KindOf[s] \in Kind /\ s \in 1 .. NumSites /\ NumSites \in Nat
    BY SiteAssumption DEF Site
  <1>4. ASSUME NEW t \in Thread, phase' = phase \/ Return(t), NEW u \in Thread,
               u # t, pc'[u] = pc[u], kind'[u] = kind[u], pos'[u] = pos[u]
        PROVE  ~(phase' # "packed" /\ Past(u, s)')
    BY <1>2, <1>4 DEF Past, Return
  <1>5. ASSUME NEW t \in Thread, EnterFromGame(t)
        PROVE  ~Past(t, s)'
    <2>1. pc'[t] = "scan" /\ kind'[t] = FirstKind /\ pos'[t] = 1
      BY <1>5 DEF EnterFromGame, Goto, TypeOK
    <2>2. ~(KindOf[s] < FirstKind)
      BY <1>3 DEF FirstKind, Applied, Kind
    <2> QED BY <1>3, <2>1, <2>2 DEF Past
  <1>6. ASSUME NEW t \in Thread, EnterFromOther(t) \/ FinishCall(t) \/ Return(t)
                                 \/ \E r \in Site : CallSite(t, r)
        PROVE  ~Past(t, s)'
    <2>1. pc'[t] \in {"pass", "game", "body"}
      BY <1>6 DEF EnterFromOther, FinishCall, Return, CallSite, Goto, TypeOK
    <2> QED BY <2>1 DEF Past
  <1>7. ASSUME NEW t \in Thread, ScanSite(t), phase # "packed"
        PROVE  ~Past(t, s)'
    <2>1. /\ pc[t] = "scan" /\ pc'[t] = "scan" /\ kind'[t] = kind[t]
          /\ pos'[t] = pos[t] + 1 /\ pos[t] \in 1 .. NumSites
      BY <1>7 DEF ScanSite, TypeOK, Site
    <2>2. CASE KindOf[s] = kind[t] /\ s = pos[t]
      <3>1. ~Fits(KindOf[s], mem[s]) => InHand(s)
        BY DEF MissInv
      <3>2. Matches(kind[t], pos[t])
        BY <1>1, <1>7, <2>2, <3>1 DEF Matches
      <3> QED BY <1>7, <2>2, <3>2, ScanFinds
    <2>3. CASE ~(KindOf[s] = kind[t] /\ s = pos[t])
      BY <1>2, <1>3, <1>7, <2>1, <2>3 DEF Past
    <2> QED BY <2>2, <2>3
  <1>8. ASSUME NEW t \in Thread, ScanDone(t), phase # "packed"
        PROVE  ~Past(t, s)'
    <2>1. pc[t] = "scan" /\ pc'[t] = "store" /\ kind'[t] = kind[t]
      BY <1>8 DEF ScanDone, Goto, TypeOK
    <2>2. pos[t] \in 1 .. NumSites + 1 /\ pos[t] \notin 1 .. NumSites
      BY <1>8 DEF ScanDone, TypeOK, Site
    <2>3. pos[t] = NumSites + 1
      BY <1>3, <2>2
    <2>4. kind[t] \in Int /\ KindOf[s] \in Int
      BY <1>3 DEF TypeOK, Kind
    <2> QED BY <1>2, <1>3, <1>8, <2>1, <2>4, <2>3 DEF Past
  <1>9. ASSUME NEW t \in Thread, Store(t), phase # "packed"
        PROVE  ~Past(t, s)'
    BY <1>2, <1>9 DEF Past, Store
  <1>10. ASSUME NEW t \in Thread, NextPattern(t), phase # "packed"
         PROVE  ~Past(t, s)'
    <2>1. kind[t] \in Kind /\ pc[t] = "store" /\ ~(KindOf[s] <= kind[t])
      BY <1>2, <1>10 DEF NextPattern, Past, TypeOK
    <2>2. kind[t] # IME
      BY <1>3, <2>1 DEF Kind
    <2>3. pc'[t] = "scan" /\ kind'[t] = kind[t] + 1 /\ pos'[t] = 1
      BY <1>10, <2>2 DEF NextPattern, Goto, TypeOK
    <2> QED BY <1>3, <2>1, <2>3 DEF Past, Kind
  <1>11. ASSUME NEW t \in Thread, Return(t)
         PROVE  phase' # "running"
    BY <1>2, <1>11 DEF Return, Past
  <1>12. CASE Unpack
    <2>1. \A t \in Thread : pc'[t] = "game"
      BY <1>12 DEF Unpack, PackedInv
    <2> QED BY <1>12, <2>1 DEF Unpack, Past
  <1>13. CASE UNCHANGED vars
    BY <1>2, <1>13 DEF vars, Past
  <1>14. ASSUME NEW t \in Thread,
                \/ EnterFromGame(t) \/ EnterFromOther(t) \/ Detour(t)
                \/ FinishCall(t) \/ \E r \in Site : CallSite(t, r)
         PROVE  /\ \A u \in Thread : ~(phase' # "packed" /\ Past(u, s)')
                /\ phase' # "running"
    <2>1. phase' = phase \/ Return(t)
      BY <1>14 DEF EnterFromGame, EnterFromOther, Detour, FinishCall, CallSite,
                   ScanSite, ScanDone, Store, NextPattern
    <2>2. \A u \in Thread : u # t =>
            pc'[u] = pc[u] /\ kind'[u] = kind[u] /\ pos'[u] = pos[u]
      BY <1>14 DEF TypeOK, EnterFromGame, EnterFromOther, Detour, FinishCall, CallSite,
                   ScanSite, ScanDone, Store, NextPattern, Return, Goto
    <2>3. phase' # "running"
      BY <1>2, <1>11, <2>1
    <2>4. phase' # "packed" => phase # "packed" \/ Return(t)
      BY <2>1
    <2>5. ~(phase' # "packed" /\ Past(t, s)')
      BY <1>5, <1>6, <1>7, <1>8, <1>9, <1>10, <1>14, <2>4 DEF Detour
    <2> QED BY <1>4, <2>1, <2>2, <2>3, <2>5
  <1> QED BY <1>12, <1>13, <1>14 DEF Next, Unpack

-------------------------------------------------------------------------------
(***************************************************************************)
(* The theorems.                                                           *)
(***************************************************************************)
LEMMA InductiveInit == Init => IInv
PROOF
  <1> SUFFICES ASSUME Init PROVE IInv
    OBVIOUS
  <1>1. TypeOK
    BY TypeInit
  <1>2. OwnPatchOnly
    BY DEF Init, OwnPatchOnly
  <1>3. TodoInv
    BY DEF Init, TodoInv
  <1>4. MissInv
    BY ImageAssumption DEF Init, MissInv
  <1>5. PastInv /\ PackedInv
    BY DEF Init, PastInv, PackedInv
  <1> QED BY <1>1, <1>2, <1>3, <1>4, <1>5 DEF IInv

LEMMA InductiveStep == IInv /\ [Next]_vars => IInv'
  BY TypeStep, OwnPatchStep, TodoStep, MissStep, PastStep, PackedStep DEF IInv

\* The inductive invariant holds of every execution.
THEOREM Inductive == Spec => []IInv
  BY InductiveInit, InductiveStep, PTL DEF Spec

\* Every cell of every site holds what the executable shipped with or what the
\* patch of that site stores, whatever threads the detour runs on at once.
THEOREM OwnPatches == Spec => []OwnPatchOnly
PROOF
  <1>1. IInv => OwnPatchOnly
    BY DEF IInv
  <1> QED BY <1>1, Inductive, PTL

\* Once WinMain runs and no thread is in the detour, every patch the settings
\* ask for is in place as a whole, at every site that matched.
THEOREM PatchedWhenQuiet == Spec => []QuietMeansPatched
PROOF
  <1>1. IInv => QuietMeansPatched
    <2> SUFFICES ASSUME IInv, phase = "running", Quiet,
                        NEW s \in Site, Applied(KindOf[s]),
                        NEW c \in DOMAIN Patched(KindOf[s])
                 PROVE  mem[s][c] = Patched(KindOf[s])[c]
      BY DEF QuietMeansPatched, Settled
    <2>1. CellInHand(s, c)
      BY DEF IInv, PastInv, InHand
    <2>2. c \in Cell
      BY SiteAssumption, PatchedCells
    <2>3. \A t \in Thread : <<s, c>> \notin todo[t]
      BY <2>2 DEF IInv, TodoInv, Quiet
    <2> QED BY <2>1, <2>3 DEF CellInHand
  <1> QED BY <1>1, Inductive, PTL

\* No step takes a completed patch back.
THEOREM SettledStays == Spec => SettledForGood
PROOF
  <1>1. ASSUME IInv, [Next]_vars, NEW s \in Site, Settled(s) PROVE Settled(s)'
    <2> SUFFICES ASSUME NEW c \in DOMAIN Patched(KindOf[s])
                 PROVE  mem'[s][c] = Patched(KindOf[s])[c]
      BY <1>1, SettingsFixed DEF Settled
    <2>1. mem[s][c] = Patched(KindOf[s])[c] /\ c \in Cell
      BY <1>1, SiteAssumption, PatchedCells DEF Settled
    <2>2. CASE mem' = mem
      BY <2>1, <2>2
    <2>3. ASSUME NEW r \in Site, NEW d \in Cell,
                 mem' = [mem EXCEPT ![r][d] = Patched(KindOf[r])[d]]
          PROVE  mem'[s][c] = Patched(KindOf[s])[c]
      BY <1>1, <2>1, <2>3 DEF IInv, TypeOK
    <2> QED BY <1>1, <2>2, <2>3, StepKinds DEF IInv
  <1>2. IInv /\ [Next]_vars => [\A s \in Site : Settled(s) => Settled(s)']_vars
    BY <1>1
  <1> QED BY <1>2, Inductive, PTL DEF Spec, SettledForGood

-------------------------------------------------------------------------------
(***************************************************************************)
(* A single-threaded start: the CRT start patches alone.                   *)
(***************************************************************************)
\* The image changes only where a store is owed, and once every patch is
\* settled no store changes anything.
LEMMA MemChange ==
  ASSUME IInv, [Next]_vars, NEW s \in Site, NEW c \in Cell, mem'[s][c] # mem[s][c]
  PROVE  /\ \E t \in Thread : pc[t] = "store" /\ todo[t] # {}
         /\ Applied(KindOf[s]) /\ ~Settled(s)
PROOF
  <1>1. PICK t \in Thread, r \in Site, d \in Cell :
          /\ Store(t)
          /\ <<r, d>> \in todo[t]
          /\ mem' = [mem EXCEPT ![r][d] = Patched(KindOf[r])[d]]
    BY StepKinds DEF IInv
  <1>2. r = s /\ d = c /\ mem'[s][c] = Patched(KindOf[s])[c]
    BY <1>1 DEF IInv, TypeOK
  <1>3. Applied(KindOf[s]) /\ c \in DOMAIN Patched(KindOf[s])
    BY <1>1, <1>2 DEF IInv, TodoInv
  <1>4. ~Settled(s)
    BY <1>2, <1>3 DEF Settled
  <1>5. pc[t] = "store" /\ todo[t] # {}
    BY <1>1 DEF Store
  <1> QED BY <1>1, <1>3, <1>4, <1>5

LEMMA Frozen ==
  ASSUME IInv, SoloInv, phase = "running", [Next]_vars
  PROVE  \A s \in Site : \A c \in Cell : mem'[s][c] = mem[s][c]
  BY MemChange DEF SoloInv

\* When the CRT start is through all scans alone, nothing is left to do.
LEMMA ChainMeansSettled ==
  ASSUME IInv, SoloInv, phase = "unpacked", pc[Main] = "chain",
         NEW s \in Site, Applied(KindOf[s])
  PROVE  Settled(s)
PROOF
  <1> SUFFICES ASSUME NEW c \in DOMAIN Patched(KindOf[s])
               PROVE  mem[s][c] = Patched(KindOf[s])[c]
    BY DEF Settled
  <1>1. Past(Main, s)
    BY DEF Past
  <1>2. InHand(s)
    BY <1>1, ThreadAssumption DEF IInv, PastInv
  <1>3. c \in Cell
    BY SiteAssumption, PatchedCells
  <1>4. \A t \in Thread : pc[t] \notin {"scan", "store"}
    BY DEF SoloInv
  <1>5. \A t \in Thread : <<s, c>> \notin todo[t]
    BY <1>3, <1>4 DEF IInv, TodoInv
  <1> QED BY <1>2, <1>5 DEF InHand, CellInHand

\* Outside the detour every site is as shipped or completely patched.
LEMMA WholeSites ==
  ASSUME IInv, SoloInv, phase = "running" \/ pc[Main] = "game", NEW s \in Site
  PROVE  Settled(s) \/ Pristine(s)
PROOF
  <1>1. CASE phase = "running"
    BY <1>1 DEF SoloInv, IInv, OwnPatchOnly, Pristine
  <1>2. CASE phase # "running"
    BY <1>2 DEF SoloInv, IInv, TypeOK
  <1> QED BY <1>1, <1>2

LEMMA HeadTells ==
  ASSUME IInv, NEW s \in Site, KindOf[s] # IME, Settled(s) \/ Pristine(s)
  PROVE  \/ HeadOf(s) = "patched" /\ Settled(s)
         \/ HeadOf(s) = "original" /\ Pristine(s)
PROOF
  <1>1. KindOf[s] \in Kind /\ cfg \in Config
    BY SiteAssumption DEF IInv, TypeOK
  <1>2. Settled(s) => mem[s].op = MOV /\ mem[s].imm = ReturnValue(KindOf[s])
    BY <1>1, PatchedCells DEF Settled
  <1>3. Pristine(s) => mem[s].op = Image[s].op /\ mem[s].imm = Image[s].imm
    BY DEF Pristine, Cell
  <1>4. Image[s].op # MOV \/ Image[s].imm = 4400
    BY <1>1, ImageAssumption DEF Fits, Kind
  <1>5. ReturnValue(KindOf[s]) # 4400
    BY <1>1, ReturnValues
  <1> QED BY <1>2, <1>3, <1>4, <1>5 DEF HeadOf

\* Until WinMain runs every step is one of the CRT start's.
LEMMA OnlyMainMoves ==
  ASSUME Solo, SoloInv, phase # "running", [Next]_vars
  PROVE  \/ UNCHANGED vars
         \/ Unpack
         \/ EnterFromGame(Main) \/ EnterFromOther(Main) \/ FinishCall(Main)
         \/ ScanSite(Main) \/ ScanDone(Main) \/ Store(Main)
         \/ NextPattern(Main) \/ Return(Main)
         \/ \E s \in Site : CallSite(Main, s)
PROOF
  <1>1. ASSUME NEW t \in Thread, t # Main
        PROVE  ~( \/ EnterFromGame(t) \/ EnterFromOther(t) \/ FinishCall(t)
                  \/ Detour(t) \/ \E s \in Site : CallSite(t, s) )
    <2>1. pc[t] = "game" /\ ~MayRun(t)
      BY <1>1 DEF Solo, SoloInv, MayRun
    <2> QED BY <2>1 DEF EnterFromGame, EnterFromOther, FinishCall, Detour, CallSite,
                        ScanSite, ScanDone, Store, NextPattern, Return
  <1> QED BY <1>1 DEF Next, Detour

LEMMA SoloStep ==
  ASSUME Solo, IInv, SoloInv, [Next]_vars
  PROVE  SoloInv'
PROOF
  <1> USE ThreadAssumption
  <1>1. CASE phase = "running"
    <2>1. phase' = "running"
      BY <1>1 DEF Next, Detour, Unpack, EnterFromGame, EnterFromOther, ScanSite, ScanDone,
                  Store, NextPattern, Return, CallSite, FinishCall, vars
    <2>2. ASSUME NEW s \in Site, Applied(KindOf[s]) PROVE Settled(s)'
      <3>1. Settled(s)
        BY <1>1, <2>2 DEF SoloInv
      <3>2. \A c \in DOMAIN Patched(KindOf[s]) : mem'[s][c] = mem[s][c]
        BY <1>1, Frozen, SiteAssumption, PatchedCells
      <3> QED BY <3>1, <3>2, SettingsFixed DEF Settled
    <2> QED BY <2>1, <2>2, SettingsFixed DEF SoloInv
  <1>2. CASE phase # "running" /\ mem' = mem /\ todo' = todo /\ phase' = phase
             /\ (\A t \in Thread \ {Main} : pc'[t] = pc[t])
             /\ (pc'[Main] \in {"scan", "store", "chain"}
                   \/ pc[Main] \notin {"scan", "store", "chain"})
    BY <1>2 DEF SoloInv, Pristine
  <1>3. CASE phase # "running" /\ (EnterFromGame(Main) \/ EnterFromOther(Main)
               \/ FinishCall(Main) \/ ScanDone(Main) \/ NextPattern(Main)
               \/ \E s \in Site : CallSite(Main, s))
    <2>1. mem' = mem /\ todo' = todo /\ phase' = phase
      BY <1>3 DEF EnterFromGame, EnterFromOther, FinishCall, ScanDone, NextPattern, CallSite
    <2>2. \A t \in Thread \ {Main} : pc'[t] = pc[t]
      BY <1>3 DEF IInv, TypeOK, EnterFromGame, EnterFromOther, FinishCall, ScanDone,
                  NextPattern, CallSite, Goto
    <2>3. \/ pc'[Main] \in {"scan", "store", "chain"}
          \/ pc[Main] \notin {"scan", "store", "chain"}
      BY <1>3 DEF IInv, TypeOK, EnterFromGame, EnterFromOther, FinishCall, ScanDone,
                  NextPattern, CallSite, Goto
    <2> QED BY <1>2, <1>3, <2>1, <2>2, <2>3
  <1>4. CASE phase # "running" /\ ScanSite(Main)
    <2>1. phase = "packed" => todo' = todo
      BY <1>4 DEF ScanSite, Matches, IInv, TypeOK
    <2>2. mem' = mem /\ phase' = phase /\ pc' = pc /\ pc[Main] = "scan"
      BY <1>4 DEF ScanSite
    <2> QED BY <1>4, <2>1, <2>2 DEF SoloInv, Pristine
  <1>5. CASE phase # "running" /\ Store(Main)
    <2>1. phase' = phase /\ pc' = pc /\ pc[Main] = "store" /\ todo[Main] # {}
      BY <1>5 DEF Store
    <2> QED BY <1>5, <2>1 DEF SoloInv
  <1>6. CASE phase # "running" /\ Return(Main)
    <2>1. mem' = mem /\ todo' = todo /\ pc'[Main] = "game"
          /\ \A t \in Thread \ {Main} : pc'[t] = pc[t]
      BY <1>6 DEF Return, Goto, IInv, TypeOK
    <2>2. CASE pc[Main] = "chain" /\ phase = "unpacked"
      <3>1. phase' = "running"
        BY <1>6, <2>2 DEF Return
      <3>2. \A s \in Site : Applied(KindOf[s])' => Settled(s)'
        BY <2>1, <2>2, ChainMeansSettled, SettingsFixed DEF Settled
      <3> QED BY <3>1, <3>2 DEF SoloInv
    <2>3. CASE ~(pc[Main] = "chain" /\ phase = "unpacked")
      <3>1. phase' = phase /\ (phase = "unpacked" => pc[Main] = "pass")
        BY <1>6, <2>3 DEF Return
      <3> QED BY <1>6, <2>1, <3>1 DEF SoloInv, Pristine
    <2> QED BY <2>2, <2>3
  <1>7. CASE phase # "running" /\ (Unpack \/ UNCHANGED vars)
    BY <1>7 DEF Unpack, vars, SoloInv, Pristine
  <1> QED BY <1>1, <1>3, <1>4, <1>5, <1>6, <1>7, OnlyMainMoves

\* A thread in the body of a patched function runs while nobody stores there.
LEMMA BodyStep ==
  ASSUME Solo, IInv, SoloInv, BodyInv, [Next]_vars
  PROVE  BodyInv'
PROOF
  <1> USE ThreadAssumption
  <1> SUFFICES ASSUME NEW t \in Thread, pc'[t] = "body"
               PROVE  /\ phase' # "packed" /\ at'[t] \in Site /\ KindOf[at'[t]] # IME
                      /\ \/ head'[t] = "patched" /\ Settled(at[t])'
                         \/ head'[t] = "original" /\ Pristine(at[t])'
    BY DEF BodyInv
  <1>1. phase # "packed" => phase' # "packed"
    BY DEF Next, Detour, Unpack, EnterFromGame, EnterFromOther, ScanSite, ScanDone,
           Store, NextPattern, Return, CallSite, FinishCall, vars
  <1>2. CASE pc[t] = "body"
    <2>1. at'[t] = at[t] /\ head'[t] = head[t]
      BY <1>2 DEF Next, Detour, Unpack, EnterFromGame, EnterFromOther, ScanSite, ScanDone,
                  Store, NextPattern, Return, CallSite, FinishCall, vars, Goto,
                  IInv, TypeOK
    <2>2. \A s \in Site, c \in Cell : mem'[s][c] = mem[s][c]
      <3>1. CASE phase = "running"
        BY <3>1, Frozen
      <3>2. CASE phase # "running"
        <4>1. t = Main /\ \A u \in Thread : pc[u] # "store"
          BY <1>2, <3>2 DEF SoloInv
        <4> QED BY <4>1, MemChange
      <3> QED BY <3>1, <3>2
    <2>3. at[t] \in Site
      BY <1>2 DEF BodyInv
    <2>4. Settled(at[t]) => Settled(at[t])'
      <3>1. DOMAIN Patched(KindOf[at[t]]) \subseteq Cell
        BY <2>3, SiteAssumption, PatchedCells
      <3> QED BY <2>1, <2>2, <2>3, <3>1, SettingsFixed DEF Settled
    <2>5. Pristine(at[t]) => Pristine(at[t])'
      BY <2>1, <2>2, <2>3 DEF Pristine
    <2> QED BY <1>1, <1>2, <2>1, <2>4, <2>5 DEF BodyInv
  <1>3. CASE pc[t] # "body"
    <2>1. PICK s \in Site : CallSite(t, s)
      BY <1>3 DEF Next, Detour, Unpack, EnterFromGame, EnterFromOther, ScanSite, ScanDone,
                  Store, NextPattern, Return, CallSite, FinishCall, vars, Goto,
                  IInv, TypeOK
    <2>2. /\ phase # "packed" /\ KindOf[s] # IME /\ mem' = mem
          /\ at'[t] = s /\ head'[t] = HeadOf(s)
      BY <2>1 DEF CallSite, IInv, TypeOK
    <2>3. phase = "running" \/ pc[Main] = "game"
      BY <2>1 DEF CallSite, MayRun, Solo
    <2>4. Settled(s) \/ Pristine(s)
      BY <2>3, WholeSites
    <2>5. \/ HeadOf(s) = "patched" /\ Settled(s)
          \/ HeadOf(s) = "original" /\ Pristine(s)
      BY <2>2, <2>4, HeadTells
    <2>6. (Settled(s) => Settled(at[t])') /\ (Pristine(s) => Pristine(at[t])')
      BY <2>2, SettingsFixed DEF Settled, Pristine
    <2> QED BY <1>1, <2>2, <2>5, <2>6
  <1> QED BY <1>2, <1>3

THEOREM SoloInductive ==
  Spec => []SoloIInv
PROOF
  <1>1. Init => SoloIInv
    BY InductiveInit, ThreadAssumption DEF Init, SoloIInv, SoloInv, BodyInv, Pristine
  <1>2. SoloIInv /\ [Next]_vars => SoloIInv'
    <2> SUFFICES ASSUME SoloIInv, [Next]_vars PROVE SoloIInv'
      OBVIOUS
    <2>1. IInv /\ IInv' /\ (Solo' => Solo)
      BY InductiveStep, SettingsFixed DEF SoloIInv, Solo
    <2> QED BY <2>1, SoloStep, BodyStep DEF SoloIInv
  <1> QED BY <1>1, <1>2, PTL DEF Spec

\* Where the CRT start runs alone, no thread ever executes half a patch.
THEOREM NoMixture ==
  Spec => []NoMixedExecution
PROOF
  <1>1. SoloIInv => NoMixedExecution
    <2> SUFFICES ASSUME SoloIInv, Solo, NEW t \in Thread, pc[t] = "body"
                 PROVE  \/ head[t] = "patched" /\ mem[at[t]].ret = RETN
                        \/ head[t] = "original" /\ mem[at[t]].ret = Image[at[t]].ret
      BY DEF NoMixedExecution
    <2>1. at[t] \in Site /\ KindOf[at[t]] \in Kind \ {IME}
      BY SiteAssumption DEF SoloIInv, BodyInv
    <2>2. Settled(at[t]) => mem[at[t]].ret = RETN
      BY <2>1, PatchedCells DEF Settled
    <2>3. Pristine(at[t]) => mem[at[t]].ret = Image[at[t]].ret
      BY DEF Pristine, Cell
    <2> QED BY <2>2, <2>3 DEF SoloIInv, BodyInv
  <1> QED BY <1>1, SoloInductive, PTL

\* And once WinMain runs, not one byte of code is changed any more.
THEOREM CodeFrozen ==
  Spec => CodeFrozenWhenRunning
PROOF
  <1>1. SoloIInv /\ [Next]_vars =>
          [Solo /\ phase = "running" =>
             \A s \in Site : \A c \in Cell : mem'[s][c] = mem[s][c]]_vars
    BY Frozen DEF SoloIInv
  <1> QED BY <1>1, SoloInductive, PTL DEF Spec, CodeFrozenWhenRunning
===============================================================================
