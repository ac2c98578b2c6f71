--------------------------------- MODULE Attach ---------------------------------
(***************************************************************************)
(* The life of the DLL in the game's process: the loader runs DllMain,     *)
(* which loads the real library, reads the settings, resolves the          *)
(* forwarded functions and installs one or two hooks; then the game runs   *)
(* and calls what is hooked and what is forwarded; and at the end the real *)
(* library is let go.  Every step may fail, and attaching goes on.         *)
(*                                                                         *)
(* The hooking library is its contract, HookApi, with the loader as the    *)
(* only caller.                                                            *)
(***************************************************************************)
EXTENDS BoundedStrings

CONSTANTS
  Windirs,      \* values the environment variable windir may have
  Unset,        \* ... or none
  Stacks,       \* what DllPath and the memory behind it may hold uninitialised
  Loader,       \* the thread that runs DllMain
  AllHooks,
  Forwarded,    \* functions of WSOCK32.dll the mod forwards
  Program,      \* programs the game may start by name
  GameGuardDes  \* the one the mod does not start

GetStartupInfoA == "GetStartupInfoA"
CreateProcessA  == "CreateProcessA"
Hooked == {GetStartupInfoA, CreateProcessA}

ASSUME ProgramAssumption == GameGuardDes \in Program
ASSUME HookedAssumption == AllHooks \notin Hooked
ASSUME WindirAssumption == Windirs \subseteq Seq(1 .. 255) /\ Unset \notin Windirs
ASSUME StackAssumption ==
  Stacks \subseteq [0 .. Top -> Byte] /\ \A m \in Stacks : \E p \in 0 .. Top : EndsAt(m, p)

VARIABLES
  live, hook, queued, call,   \* of HookApi
  pc,            \* where LoadDll is; "running" and "detached" after it
  windir,        \* the environment variable
  installed,     \* is the real library there and does it load?
  hDll,          \* "none", "real", or another library found instead
  gameguard,     \* Settings::DisableGameGuard
  resolved,      \* forwarded functions that have an address
  original,      \* hooked functions whose original the mod knows
  refused,       \* has any call of LoadDll failed? (history)
  started,       \* programs started (history)
  crashed        \* "no", or what was at address zero: a forwarded function, the
                 \* original of a hooked one, or the name of a program

Api == INSTANCE HookApi WITH Thread <- {Loader}, Target <- Hooked

env      == <<windir, installed>>
apivars  == <<live, hook, queued, call>>
gamevars == <<started, crashed>>
vars == <<strvars, env, apivars, pc, hDll, gameguard, resolved, original, refused, gamevars>>

Init ==
  /\ Api!Init /\ StrInit
  /\ windir \in Windirs \union {Unset} /\ installed \in BOOLEAN
  /\ pc = <<"GetEnvironmentVariable">>
  /\ hDll = "none"
  /\ gameguard = FALSE
  /\ resolved = {} /\ original = {}
  /\ refused = FALSE
  /\ started = {} /\ crashed = "no"

-------------------------------------------------------------------------------
(***************************************************************************)
(* DLL_PROCESS_ATTACH.                                                     *)
(***************************************************************************)
\* Can DllPath hold the variable?  If not, it stays as it is, or is undefined.
Readable == windir # Unset /\ Len(windir) < Size

\* What is in memory once m's start is overwritten with the variable.
Holding(m) ==
  [p \in 0 .. Top |-> IF p < Len(windir) THEN windir[p + 1]
                     ELSE IF p = Len(windir) THEN NUL ELSE m[p]]

GetEnvironmentVariable ==
  /\ pc = <<"GetEnvironmentVariable">>
  /\ \E m \in Stacks : buffer' = IF Readable THEN Holding(m) ELSE m
  /\ pc' = <<"strscat">>
  /\ UNCHANGED <<src, strpc, dest, res, count, max, env, apivars, hDll, gameguard, resolved,
                 original, refused, gamevars>>

BuildPath ==
  /\ pc = <<"strscat">>
  /\ (\E at \in 0 .. PageBytes - 1 : strscat(at)) \/ strscpy
  /\ UNCHANGED <<env, apivars, pc, hDll, gameguard, resolved, original, refused, gamevars>>

\* The path that is wanted, and what there is room for.
FullPath == windir \o Source
Fitting == IF Len(FullPath) < Size THEN Len(FullPath) ELSE Size - 1
IsPath(n) == EndsAt(buffer, n) /\ \A p \in 0 .. n - 1 : buffer[p] = FullPath[p + 1]

\* Any other path may not be there, or be that of another library.
LoadLibrary ==
  /\ pc = <<"strscat">> /\ strpc = "done"
  /\ IF windir # Unset /\ IsPath(Len(FullPath))
       THEN hDll' = IF installed THEN "real" ELSE "none"
       ELSE hDll' \in {"none", "real", "other"}
  /\ refused' = (hDll' = "none")
  /\ pc' = <<"Settings">>
  /\ buffer' = NoMemory /\ src' = 0 /\ strpc' = "ready"
  /\ dest' = 0 /\ res' = 0 /\ count' = 0 /\ max' = 0
  /\ UNCHANGED <<env, apivars, gameguard, resolved, original, gamevars>>

\* What lies behind DllPath has been overwritten: the process may end here.
Overrun ==
  /\ pc = <<"strscat">> /\ strpc = "done" /\ dest > Size
  /\ crashed' = "stack"
  /\ pc' = <<"detached">>
  /\ UNCHANGED <<strvars, env, apivars, hDll, gameguard, resolved, original, refused, started>>

SettingsInit ==
  /\ pc = <<"Settings">>
  /\ gameguard' \in BOOLEAN
  /\ pc' = <<"HookLibraryFunctions">>
  /\ UNCHANGED <<strvars, env, apivars, hDll, resolved, original, refused, gamevars>>

\* GetProcAddress fails for all of them without a library, and is not checked.
HookLibraryFunctions ==
  /\ pc = <<"HookLibraryFunctions">>
  /\ resolved' \in CASE hDll = "none" -> {{}} [] hDll = "real" -> {Forwarded}
                      [] OTHER -> SUBSET Forwarded
  /\ pc' = <<"Startup", "Initialize">>
  /\ UNCHANGED <<strvars, env, apivars, hDll, gameguard, original, refused, gamevars>>

(***************************************************************************)
(* Startup::Patch and GameGuard::PatchCreateProcess make the same three    *)
(* calls, each for its function, and return at the first that fails.       *)
(***************************************************************************)
Installs(stage) == IF stage = "Startup" THEN GetStartupInfoA ELSE CreateProcessA

InitializedFirstOnly(s) == s = "OK"
Initialized(s) == s \in {"OK", "ALREADY_INITIALIZED"}

AfterEnable(stage) ==
  IF stage = "Startup" /\ gameguard THEN <<"CreateProcess", "Initialize">> ELSE <<"running">>

\* Where LoadDll goes on when a call returns s.
AfterCarryOn(stage, op, s) ==
  CASE op = "Initialize" -> <<stage, "Create">>
    [] op = "Create"     -> <<stage, "Enable">>
    [] op = "Enable"     -> AfterEnable(stage)
After(stage, op, s) ==
  CASE op = "Initialize" -> IF Initialized(s) THEN <<stage, "Create">> ELSE <<"running">>
    [] op = "Create"     -> IF s = "OK" THEN <<stage, "Enable">> ELSE <<"running">>
    [] op = "Enable"     -> IF s = "OK" THEN AfterEnable(stage) ELSE <<"running">>

Stages == {"Startup", "CreateProcess"}
Calls  == {"Initialize", "Create", "Enable"}

CallLibrary(stage, op) ==
  /\ pc = <<stage, op>>
  /\ Api!Begin(Loader, op, IF op = "Initialize" THEN AllHooks ELSE Installs(stage))
  /\ UNCHANGED <<strvars, env, pc, hDll, gameguard, resolved, original, refused, gamevars>>

LibraryWorks ==
  /\ \/ Api!Initialize(Loader) \/ Api!Create(Loader)
     \/ Api!Switch(Loader) \/ Api!SwitchFails(Loader)
  /\ UNCHANGED <<strvars, env, pc, hDll, gameguard, resolved, original, refused, gamevars>>

\* ppOriginal is written by a call that creates the hook, before it returns.
StoredInFirst(stage, s) == IF s = "OK" THEN {GetStartupInfoA} ELSE {}
Stored(stage, s) == IF s = "OK" THEN {Installs(stage)} ELSE {}

LibraryReturns(stage, op) ==
  /\ pc = <<stage, op>>
  /\ Api!Return(Loader)
  /\ LET s == call[Loader].status IN
       /\ original' = original \union (IF op = "Create" THEN Stored(stage, s) ELSE {})
       /\ refused' = (refused \/ s \notin {"OK", "ALREADY_INITIALIZED"})
       /\ pc' = After(stage, op, s)
  /\ UNCHANGED <<strvars, env, hDll, gameguard, resolved, gamevars>>

-------------------------------------------------------------------------------
(***************************************************************************)
(* The game.                                                               *)
(***************************************************************************)
Running == pc = <<"running">> /\ crashed = "no"

\* _CreateProcessA; without a hook, and for any other program, the function itself.
StartProgram(p) ==
  /\ Running
  /\ IF hook[CreateProcessA] # "on" THEN started' = started \union {p} /\ UNCHANGED crashed
     ELSE IF p = GameGuardDes THEN UNCHANGED <<started, crashed>>
     ELSE IF CreateProcessA \in original THEN started' = started \union {p} /\ UNCHANGED crashed
     ELSE crashed' = "original" /\ UNCHANGED started
  /\ UNCHANGED <<strvars, env, apivars, pc, hDll, gameguard, resolved, original, refused>>

\* lpApplicationName may be NULL, with the program in the command line; the
\* detour compares it all the same.
StartCommandLine ==
  /\ Running
  /\ IF hook[CreateProcessA] = "on" THEN crashed' = "name" /\ UNCHANGED started
     ELSE \E p \in Program : started' = started \union {p} /\ UNCHANGED crashed
  /\ UNCHANGED <<strvars, env, apivars, pc, hDll, gameguard, resolved, original, refused>>

\* The detour ends with a call of the original; what it patches is CodePatch's.
StartUp ==
  /\ Running
  /\ crashed' = IF hook[GetStartupInfoA] = "on" /\ GetStartupInfoA \notin original
                  THEN "original" ELSE "no"
  /\ UNCHANGED <<strvars, env, apivars, pc, hDll, gameguard, resolved, original, refused, started>>

CallForwarded(f) ==
  /\ Running
  /\ crashed' = IF f \in resolved THEN "no" ELSE "forward"
  /\ UNCHANGED <<strvars, env, apivars, pc, hDll, gameguard, resolved, original, refused, started>>

\* DLL_PROCESS_DETACH: the hooks stay.
FreeLibrary ==
  /\ Running
  /\ pc' = <<"detached">>
  /\ hDll' = "none"
  /\ UNCHANGED <<strvars, env, apivars, gameguard, resolved, original, refused, gamevars>>

LoadDll ==
  \/ GetEnvironmentVariable \/ BuildPath \/ LoadLibrary \/ Overrun \/ SettingsInit \/ HookLibraryFunctions
  \/ \E stage \in Stages, op \in Calls : CallLibrary(stage, op) \/ LibraryReturns(stage, op)
  \/ LibraryWorks

Game ==
  \/ \E p \in Program : StartProgram(p)
  \/ StartCommandLine
  \/ StartUp
  \/ \E f \in Forwarded : CallForwarded(f)
  \/ FreeLibrary

Next == LoadDll \/ Game

Spec == Init /\ [][Next]_vars

-------------------------------------------------------------------------------
(***************************************************************************)
(* Properties.                                                             *)
(***************************************************************************)
(***************************************************************************)
(* Hooks go in one order, whatever fails: CreateProcessA is only diverted  *)
(* in a process whose GetStartupInfoA is, and only when the settings ask   *)
(* for it.  Otherwise the game would be told GameGuard has started while   *)
(* its own checks are not patched.                                         *)
(***************************************************************************)
NoLoneProcessHook ==
  hook[CreateProcessA] = "on" => hook[GetStartupInfoA] = "on" /\ gameguard

(***************************************************************************)
(* With GameGuard switched off and nothing refused, GameGuard is never     *)
(* started by name.  The second MH_Initialize finds the library            *)
(* initialised by the first, and has to go on.                             *)
(***************************************************************************)
GameGuardStaysOff ==
  gameguard /\ ~refused /\ pc = <<"running">> => GameGuardDes \notin started

(***************************************************************************)
(* An installation that stops half way leaves nothing behind that crashes  *)
(* the game later: no hook is on whose original is unknown.                *)
(***************************************************************************)
NoNullOriginal ==
  \A f \in Hooked : hook[f] = "on" => f \in original

(***************************************************************************)
(* strscpy reads four bytes at a time.  No such read reaches into a page   *)
(* the string has no byte of: that page need not be there.                 *)
(***************************************************************************)
WordReadsStay ==
  strpc = "words" /\ max >= WordBytes =>
    /\ res <= SrcLen
    /\ (src + res) \div PageBytes = (src + res + WordBytes - 1) \div PageBytes

(***************************************************************************)
(* If windir can be read, DllPath is the library's path or, when that is   *)
(* too long, as much of it as fits, and it is terminated either way; and   *)
(* strscpy knows how long what it copied is, whatever lies behind it.      *)
(***************************************************************************)
PathFits ==
  strpc = "done" /\ Readable =>
    IsPath(Fitting) /\ (Fitting = Len(FullPath) => res = SrcLen)

\* The string DllPath held ended inside it, whether that is windir or, when
\* windir cannot be read, whatever the stack held.
EndedInside == Readable \/ dest <= Size

(***************************************************************************)
(* The stack behind DllPath is written only if windir could not be read    *)
(* and what was in DllPath instead did not end inside it: the room left is *)
(* then taken for almost 2^32.                                             *)
(***************************************************************************)
StackIntact ==
  [][EndedInside /\ strpc \in {"words", "bytes"}
       => \A p \in Size .. Top : buffer'[p] = buffer[p]]_vars

(***************************************************************************)
(* LoadDll checks none of its calls.  A forwarded call crashes only if the *)
(* library is not there or its path could not be built, and else never:    *)
(* not when hooks failed, nor in whatever order the game calls.            *)
(***************************************************************************)
ForwardingWorks ==
  crashed = "forward" => ~(installed /\ windir # Unset /\ Len(FullPath) < Size)
===============================================================================
