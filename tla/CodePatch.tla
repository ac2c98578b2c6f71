------------------------------- MODULE CodePatch -------------------------------
(***************************************************************************)
(* What the GetStartupInfoA detour does to the game image.                 *)
(*                                                                         *)
(* Startup::GetStartUpInfoA runs on the thread that called GetStartupInfoA *)
(* from PsoBB.exe.  It scans the image for one byte pattern after another  *)
(* (hook::pattern), collects every match, and overwrites each match in     *)
(* place with plain stores (Utils::hook::return_value, ::write).  Nothing  *)
(* serialises two callers, and the bytes it writes are code other threads  *)
(* may be executing.  The module follows each thread through the detour    *)
(* one examined site and one store at a time.                              *)
(*                                                                         *)
(* A site is a place of the image where one of the five patterns matches.  *)
(* Of its bytes the model keeps four cells, the ones the detour stores to: *)
(*   op   byte 0                    imm  bytes 1..4, a signed 32-bit word  *)
(*   ret  byte 5                    arg  bytes 0x56..0x59                  *)
(***************************************************************************)
EXTENDS Integers, FiniteSets

CONSTANTS
  Thread,        \* threads of the game process
  Main,          \* the thread that runs the unpacking stub and the CRT start
  NumSites,      \* sites are numbered by address
  KindOf,        \* the pattern a site was compiled to match
  Image,         \* the cells of each site in the unpacked executable
  Languages      \* the client languages the configuration may choose

Site == 1 .. NumSites

(***************************************************************************)
(* The five scans, in the order the detour makes them: the two of          *)
(* GameGuard::Patch, then Language, Episode4 and IME.                      *)
(***************************************************************************)
InitNP    == 1
PreInitNP == 2
Language  == 3
Episode4  == 4
IME       == 5
Kind      == InitNP .. IME

Cell == {"op", "imm", "ret", "arg"}

MOV  == 184       \* instr::mov, 0xB8
RETN == 195       \* instr::retn, 0xC3

\* Slip: Episode4's pattern with its operand bytes left as wildcards.
FitsAnyMov(k, code) ==
  \/ k = InitNP    /\ code.op = 139 /\ code.imm % 256 = 13
  \/ k = PreInitNP /\ code.op = 161 /\ code.ret = 83
  \/ k = Language  /\ code.op = 232 /\ code.imm = -2549501
  \/ k = Episode4  /\ code.op = MOV
  \/ k = IME       /\ code.op = 85  /\ code.imm = -9769845 /\ code.ret = 104

\* The fixed bytes of each pattern; a byte written "?" constrains nothing.
Fits(k, code) ==
  \/ k = InitNP    /\ code.op = 139 /\ code.imm % 256 = 13
  \/ k = PreInitNP /\ code.op = 161 /\ code.ret = 83
  \/ k = Language  /\ code.op = 232 /\ code.imm = -2549501
  \/ k = Episode4  /\ code.op = MOV /\ code.imm = 4400
  \/ k = IME       /\ code.op = 85  /\ code.imm = -9769845 /\ code.ret = 104

ASSUME ThreadAssumption == Main \in Thread

\* LoadConfigurationFile puts every other number back to English.
ASSUME LanguageAssumption == Languages \subseteq 0 .. 7

ASSUME SiteAssumption == NumSites \in Nat /\ KindOf \in [Site -> Kind]

\* PreInitNP's operand is the address of a global of the image, far above 4400.
ASSUME ImageAssumption ==
  /\ DOMAIN Image = Site
  /\ \A s \in Site :
       /\ DOMAIN Image[s] = Cell
       /\ Image[s].op \in Int /\ Image[s].imm \in Int /\ Image[s].ret \in Int
       /\ Fits(KindOf[s], Image[s])
       /\ KindOf[s] = PreInitNP => Image[s].imm # 4400

\* What a run is started with: the settings, and whether the executable lets
\* other threads run before the CRT start has returned (a TLS callback, a
\* packer's watchdog).
Config == [gameguard : BOOLEAN, language : Languages,
           episode4 : BOOLEAN, ime : BOOLEAN, earlyThreads : BOOLEAN]

VARIABLES
  cfg,     \* the run's Config; the settings are loaded before the hook is enabled
  phase,   \* "packed" -> "unpacked" -> "running"
  mem,     \* the cells of every site
  pc,      \* where each thread is
  kind,    \* the scan each thread is at
  pos,     \* the next site that scan looks at
  todo,    \* the stores a thread owes: <<site, cell>>
  at,      \* the patched function a thread is executing
  head     \* what its first instruction was when the thread fetched it

vars == <<cfg, phase, mem, pc, kind, pos, todo, at, head>>

-------------------------------------------------------------------------------
(***************************************************************************)
(* The patches.                                                            *)
(***************************************************************************)
\* The value each pattern's function is made to return.
ReturnValue(k) ==
  << 1877,                                  \* NPGAMEMON_SUCCESS, 0x755
     1,
     cfg.language,
     IF cfg.episode4 THEN 1 ELSE 0 >>[k]

\* { 0x00, 0x8E, 0xC3, 0x9C }, in the order IME::Patch stores them.
ImeBytes == <<0, 142, 195, 156>>

\* What patch k stores, cell by cell.
Patched(k) ==
  IF k = IME THEN [arg |-> ImeBytes]
             ELSE [op |-> MOV, imm |-> ReturnValue(k), ret |-> RETN]

\* Is patch k applied at all under these settings?
Applied(k) ==
  /\ k \in {InitNP, PreInitNP} => cfg.gameguard
  /\ k = IME => cfg.ime

\* Where the detour starts: GameGuard::Patch is skipped as a whole.
FirstKind == IF cfg.gameguard THEN InitNP ELSE Language

\* Compressed code matches nothing.
Matches(k, s) == phase # "packed" /\ Fits(k, mem[s])

\* Slip: return_value without its third store.
StoresAtNoRetn(k, s) ==
  IF Applied(k) THEN {<<s, c>> : c \in DOMAIN Patched(k) \ {"ret"}} ELSE {}

\* The stores the callback of for_each_result makes at a match.
StoresAt(k, s) ==
  IF Applied(k) THEN {<<s, c>> : c \in DOMAIN Patched(k)} ELSE {}

-------------------------------------------------------------------------------
Init ==
  /\ cfg \in Config
  /\ phase = "packed"
  /\ mem = Image
  /\ pc = [t \in Thread |-> "game"]
  /\ kind = [t \in Thread |-> InitNP]
  /\ pos = [t \in Thread |-> 1]
  /\ todo = [t \in Thread |-> {}]
  /\ at = [t \in Thread |-> 0]
  /\ head = [t \in Thread |-> "none"]

\* The loader starts the process with one thread; the game makes the others.
MayRun(t) ==
  \/ t = Main
  \/ phase = "running"
  \/ cfg.earlyThreads /\ phase = "unpacked"

Goto(t, l) == pc' = [pc EXCEPT ![t] = l]

\* The stub of a packed executable restores the code (at once if not packed).
Unpack ==
  /\ phase = "packed" /\ pc[Main] = "game"
  /\ phase' = "unpacked"
  /\ UNCHANGED <<cfg, mem, pc, kind, pos, todo, at, head>>

\* GetStartupInfoA called from PsoBB.exe: the first scan begins.
EnterFromGame(t) ==
  /\ MayRun(t) /\ pc[t] = "game"
  /\ Goto(t, "scan")
  /\ kind' = [kind EXCEPT ![t] = FirstKind]
  /\ pos' = [pos EXCEPT ![t] = 1]
  /\ UNCHANGED <<cfg, phase, mem, todo, at, head>>

\* GetStartupInfoA called from another module: only the original is called.
EnterFromOther(t) ==
  /\ MayRun(t) /\ pc[t] = "game"
  /\ Goto(t, "pass")
  /\ UNCHANGED <<cfg, phase, mem, kind, pos, todo, at, head>>

\* Slip: only the first match of a scan is kept.
ScanSiteFirstOnly(t) ==
  /\ pc[t] = "scan" /\ pos[t] \in Site
  /\ todo' = [todo EXCEPT ![t] =
       IF Matches(kind[t], pos[t]) /\ @ = {} THEN StoresAt(kind[t], pos[t]) ELSE @]
  /\ pos' = [pos EXCEPT ![t] = @ + 1]
  /\ UNCHANGED <<cfg, phase, mem, pc, kind, at, head>>

\* Slip: the scan resumes at a match instead of behind it.
ScanSiteStuck(t) ==
  /\ pc[t] = "scan" /\ pos[t] \in Site
  /\ todo' = [todo EXCEPT ![t] =
       IF Matches(kind[t], pos[t]) THEN @ \union StoresAt(kind[t], pos[t]) ELSE @]
  /\ pos' = [pos EXCEPT ![t] = IF Matches(kind[t], @) THEN @ ELSE @ + 1]
  /\ UNCHANGED <<cfg, phase, mem, pc, kind, at, head>>

\* EnsureMatches reaches the next site and records it if the pattern fits.
ScanSite(t) ==
  /\ pc[t] = "scan" /\ pos[t] \in Site
  /\ todo' = [todo EXCEPT ![t] =
       IF Matches(kind[t], pos[t]) THEN @ \union StoresAt(kind[t], pos[t]) ELSE @]
  /\ pos' = [pos EXCEPT ![t] = @ + 1]
  /\ UNCHANGED <<cfg, phase, mem, pc, kind, at, head>>

\* The scan is over; for_each_result starts on what it found.
ScanDone(t) ==
  /\ pc[t] = "scan" /\ pos[t] \notin Site
  /\ Goto(t, "store")
  /\ UNCHANGED <<cfg, phase, mem, kind, pos, todo, at, head>>

\* One store of the first match not yet finished.  The stores of one match
\* are independent, so the compiler may emit them in any order.
Store(t) ==
  /\ pc[t] = "store"
  /\ \E w \in todo[t] :
       /\ \A v \in todo[t] : w[1] <= v[1]
       /\ mem' = [mem EXCEPT ![w[1]][w[2]] = Patched(kind[t])[w[2]]]
       /\ todo' = [todo EXCEPT ![t] = @ \ {w}]
  /\ UNCHANGED <<cfg, phase, pc, kind, pos, at, head>>

\* Slip: the detour stops one short of the last pattern.
NextPatternEarlyEnd(t) ==
  /\ pc[t] = "store" /\ todo[t] = {}
  /\ IF kind[t] = Episode4
       THEN Goto(t, "chain") /\ UNCHANGED <<kind, pos>>
       ELSE /\ Goto(t, "scan")
            /\ kind' = [kind EXCEPT ![t] = @ + 1]
            /\ pos' = [pos EXCEPT ![t] = 1]
  /\ UNCHANGED <<cfg, phase, mem, todo, at, head>>

\* All matches are patched: on to the next pattern, or to the original.
NextPattern(t) ==
  /\ pc[t] = "store" /\ todo[t] = {}
  /\ IF kind[t] = IME
       THEN Goto(t, "chain") /\ UNCHANGED <<kind, pos>>
       ELSE /\ Goto(t, "scan")
            /\ kind' = [kind EXCEPT ![t] = @ + 1]
            /\ pos' = [pos EXCEPT ![t] = 1]
  /\ UNCHANGED <<cfg, phase, mem, todo, at, head>>

\* The original GetStartupInfoA returns to the caller.  When the caller was
\* the CRT start of the unpacked image, WinMain follows.
Return(t) ==
  /\ pc[t] \in {"chain", "pass"}
  /\ Goto(t, "game")
  /\ phase' = IF t = Main /\ pc[t] = "chain" /\ phase = "unpacked"
                THEN "running" ELSE phase
  /\ UNCHANGED <<cfg, mem, kind, pos, todo, at, head>>

\* What a processor that fetches the first instruction of site s decodes.
HeadOf(s) ==
  IF mem[s].op = MOV /\ mem[s].imm = ReturnValue(KindOf[s]) THEN "patched"
  ELSE IF mem[s].op = Image[s].op /\ mem[s].imm = Image[s].imm THEN "original"
  ELSE "torn"

\* A game thread calls a function the return_value patches are about, and
\* fetches its first instruction ...
CallSite(t, s) ==
  /\ MayRun(t) /\ phase # "packed" /\ pc[t] = "game" /\ KindOf[s] # IME
  /\ Goto(t, "body")
  /\ at' = [at EXCEPT ![t] = s]
  /\ head' = [head EXCEPT ![t] = HeadOf(s)]
  /\ UNCHANGED <<cfg, phase, mem, kind, pos, todo>>

\* ... and some time later what follows it.
FinishCall(t) ==
  /\ pc[t] = "body"
  /\ Goto(t, "game")
  /\ at' = [at EXCEPT ![t] = 0]
  /\ head' = [head EXCEPT ![t] = "none"]
  /\ UNCHANGED <<cfg, phase, mem, kind, pos, todo>>

Detour(t) ==
  \/ ScanSite(t)
  \/ ScanDone(t)
  \/ Store(t)
  \/ NextPattern(t)
  \/ Return(t)

Next ==
  \/ Unpack
  \/ \E t \in Thread :
       \/ EnterFromGame(t)
       \/ EnterFromOther(t)
       \/ Detour(t)
       \/ \E s \in Site : CallSite(t, s)
       \/ FinishCall(t)

\* A thread inside the detour is an ordinary runnable thread.
Fairness == \A t \in Thread : WF_vars(Detour(t))

Spec == Init /\ [][Next]_vars /\ Fairness

-------------------------------------------------------------------------------
(***************************************************************************)
(* Properties.                                                             *)
(***************************************************************************)
TypeOK ==
  /\ cfg \in Config
  /\ phase \in {"packed", "unpacked", "running"}
  /\ DOMAIN mem = Site /\ \A s \in Site : DOMAIN mem[s] = Cell
  /\ pc \in [Thread -> {"game", "scan", "store", "chain", "pass", "body"}]
  /\ kind \in [Thread -> Kind]
  /\ pos \in [Thread -> 1 .. NumSites + 1]
  /\ todo \in [Thread -> SUBSET (Site \X Cell)]
  /\ at \in [Thread -> Site \union {0}]
  /\ head \in [Thread -> {"none", "original", "patched", "torn"}]

\* Every cell patch KindOf[s] stores to holds what it stores.
Settled(s) ==
  \A c \in DOMAIN Patched(KindOf[s]) : mem[s][c] = Patched(KindOf[s])[c]

(***************************************************************************)
(* No pattern ever matches a site that is not its own, not even one that   *)
(* another patch has rewritten or is half way through: each cell holds     *)
(* what the executable shipped with or what this site's own patch stores,  *)
(* and a patch the settings switch off leaves its sites alone.             *)
(***************************************************************************)
OwnPatchOnly ==
  \A s \in Site : \A c \in Cell :
    \/ mem[s][c] = Image[s][c]
    \/ /\ Applied(KindOf[s])
       /\ c \in DOMAIN Patched(KindOf[s])
       /\ mem[s][c] = Patched(KindOf[s])[c]

(***************************************************************************)
(* However many threads make their way through the detour at once, when    *)
(* the CRT start has been through it and no thread is inside, every patch  *)
(* the settings ask for is complete: a thread that overlooks a site does   *)
(* so only because another one has begun, and will finish, patching it.    *)
(***************************************************************************)
Quiet == \A t \in Thread : pc[t] \notin {"scan", "store"}

QuietMeansPatched ==
  phase = "running" /\ Quiet =>
    \A s \in Site : Applied(KindOf[s]) => Settled(s)

\* The CRT start of this executable runs alone.
Solo == ~cfg.earlyThreads

(***************************************************************************)
(* If the CRT start is single-threaded, a game thread never executes half  *)
(* a patch: what it finds behind the first instruction belongs with that   *)
(* instruction.  (With early threads it may.)                              *)
(***************************************************************************)
NoMixedExecution ==
  Solo => \A t \in Thread : pc[t] = "body" =>
    \/ head[t] = "patched" /\ mem[at[t]].ret = RETN
    \/ head[t] = "original" /\ mem[at[t]].ret = Image[at[t]].ret

\* The call the IME patch redirects goes through the pointer at PATCHED_CALL,
\* 0x008EC39C, as the comment beside the store says; operands are stored low
\* byte first.
ImeCallsPatchedCall ==
  \A s \in Site : KindOf[s] = IME /\ mem[s].arg # Image[s].arg =>
    mem[s].arg = <<156, 195, 142, 0>>

\* A completed patch stays complete: later passes of the detour, which match
\* the IME site again every time, never take a site back through a half state.
SettledForGood ==
  [][\A s \in Site : Settled(s) => Settled(s)']_vars

\* After a single-threaded CRT start, once WinMain runs, the detour changes no
\* byte of code any more, however often and from however many threads
\* GetStartupInfoA is called.
CodeFrozenWhenRunning ==
  [][Solo /\ phase = "running" =>
       \A s \in Site : \A c \in Cell : mem'[s][c] = mem[s][c]]_vars

\* The detour always gets back to its caller.
DetourReturns ==
  \A t \in Thread : pc[t] \in {"scan", "store", "chain", "pass"} ~> pc[t] = "game"
-------------------------------------------------------------------------------
(***************************************************************************)
(* The inductive invariant behind OwnPatchOnly and QuietMeansPatched.      *)
(***************************************************************************)
\* A cell of site s is patched, or some thread still has it on its list.
CellInHand(s, c) ==
  \/ mem[s][c] = Patched(KindOf[s])[c]
  \/ \E u \in Thread : <<s, c>> \in todo[u]

\* Patching site s has begun and cannot be left unfinished.
InHand(s) == \A c \in DOMAIN Patched(KindOf[s]) : CellInHand(s, c)

\* Thread t has looked at site s with its pattern in this pass.
Past(t, s) ==
  \/ pc[t] = "chain"
  \/ pc[t] = "store" /\ KindOf[s] <= kind[t]
  \/ pc[t] = "scan" /\ KindOf[s] < kind[t]
  \/ pc[t] = "scan" /\ KindOf[s] = kind[t] /\ s < pos[t]

\* A thread only owes stores of the patch it is at, to sites of that patch.
TodoInv ==
  \A t \in Thread : \A s \in Site : \A c \in Cell : <<s, c>> \in todo[t] =>
    /\ pc[t] \in {"scan", "store"}
    /\ KindOf[s] = kind[t]
    /\ Applied(KindOf[s])
    /\ c \in DOMAIN Patched(KindOf[s])
    /\ InHand(s)

\* A site its pattern no longer matches has been begun.
MissInv ==
  \A s \in Site :
    Applied(KindOf[s]) /\ ~Fits(KindOf[s], mem[s]) => InHand(s)

\* So has one some thread is past, and once WinMain runs every one.
PastInv ==
  \A s \in Site : Applied(KindOf[s]) =>
    /\ \A t \in Thread : phase # "packed" /\ Past(t, s) => InHand(s)
    /\ phase = "running" => InHand(s)

\* Only the CRT start runs in a packed image.
PackedInv ==
  phase = "packed" => \A t \in Thread \ {Main} : pc[t] = "game"

IInv == TypeOK /\ OwnPatchOnly /\ TodoInv /\ MissInv /\ PastInv /\ PackedInv

(***************************************************************************)
(* And what more is true when the CRT start runs alone: nothing is patched *)
(* before it enters the detour from the unpacked image, everything after.  *)
(***************************************************************************)
Pristine(s) == \A c \in Cell : mem[s][c] = Image[s][c]

SoloInv ==
  /\ phase # "running" => \A t \in Thread \ {Main} : pc[t] = "game"
  /\ phase = "packed" => todo[Main] = {}
  /\ phase = "packed" \/ (phase = "unpacked" /\ pc[Main] \notin {"scan", "store", "chain"})
       => \A s \in Site : Pristine(s)
  /\ phase = "running" => \A s \in Site : Applied(KindOf[s]) => Settled(s)

\* What a thread in the body of a patched function has behind it.
BodyInv ==
  \A t \in Thread : pc[t] = "body" =>
    /\ phase # "packed" /\ at[t] \in Site /\ KindOf[at[t]] # IME
    /\ \/ head[t] = "patched" /\ Settled(at[t])
       \/ head[t] = "original" /\ Pristine(at[t])

SoloIInv == IInv /\ (Solo => SoloInv /\ BodyInv)
===============================================================================
