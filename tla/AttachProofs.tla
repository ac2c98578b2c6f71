------------------------------ MODULE AttachProofs ------------------------------
(***************************************************************************)
(* Attaching, for any environment, any settings and any failures of the    *)
(* hooking library.                                                        *)
(***************************************************************************)
EXTENDS Attach, TLAPS

-------------------------------------------------------------------------------
(***************************************************************************)
(* The hooks.                                                              *)
(***************************************************************************)
Status ==
  {"none", "pending", "OK", "MEMORY_ALLOC", "MEMORY_PROTECT", "ALREADY_INITIALIZED",
   "ALREADY_CREATED", "NOT_CREATED", "NOT_EXECUTABLE", "UNSUPPORTED_FUNCTION", "ENABLED",
   "DISABLED"}
CallType == [op : Calls \union {"none"}, arg : Hooked \union {AllHooks}, status : Status]

Argument(stage, op) == IF op = "Initialize" THEN AllHooks ELSE Installs(stage)

\* A call is LoadDll's, for the function it is about to hook; only MH_Initialize
\* says that the library is initialised already.
CallInv ==
  /\ hook \in [Hooked -> {"none", "off", "on"}]
  /\ call \in [{Loader} -> CallType]
  /\ \/ call[Loader] = Api!NoCall
     \/ \E stage \in Stages, op \in Calls :
          /\ pc = <<stage, op>>
          /\ call[Loader].op = op
          /\ call[Loader].arg = Argument(stage, op)
          /\ op # "Initialize" => call[Loader].status # "ALREADY_INITIALIZED"
          /\ op = "Enable" /\ call[Loader].status = "OK" => hook[Installs(stage)] = "on"

\* The original is known before a hook is enabled; CreateProcessA is not touched
\* before GetStartupInfoA is diverted and the settings asked for it.
OrderInv ==
  /\ \A f \in Hooked : hook[f] = "on" => f \in original
  /\ \A stage \in Stages : pc = <<stage, "Enable">> => Installs(stage) \in original
  /\ \A op \in Calls : pc = <<"CreateProcess", op>> => hook[GetStartupInfoA] = "on" /\ gameguard
  /\ hook[CreateProcessA] = "on" => hook[GetStartupInfoA] = "on" /\ gameguard
  /\ pc \in {<<"GetEnvironmentVariable">>, <<"strscat">>, <<"Settings">>} =>
       hook[CreateProcessA] # "on"
  /\ crashed # "original"

\* Before the game runs nothing is started.
StartedInv ==
  /\ pc \notin {<<"running">>, <<"detached">>} => started = {}
  /\ pc = <<"running">> /\ gameguard /\ ~refused =>
       hook[CreateProcessA] = "on" /\ GameGuardDes \notin started

HooksInv == CallInv /\ OrderInv /\ StartedInv

-------------------------------------------------------------------------------
LEMMA Places == \A a, b, c : <<a>> # <<b, c>>
<1> SUFFICES ASSUME NEW a, NEW b, NEW c, <<a>> = <<b, c>> PROVE FALSE
  OBVIOUS
<1>1. Len(<<a>>) = 1 /\ Len(<<b, c>>) = 2
  OBVIOUS
<1> QED
  BY <1>1

LEMMA HookedFacts ==
  /\ GetStartupInfoA \in Hooked /\ CreateProcessA \in Hooked
  /\ GetStartupInfoA # CreateProcessA
  /\ \A stage \in Stages : Installs(stage) \in Hooked /\ Installs(stage) # AllHooks
  /\ Installs("Startup") = GetStartupInfoA /\ Installs("CreateProcess") = CreateProcessA
  BY HookedAssumption DEF Hooked, GetStartupInfoA, CreateProcessA, Installs, Stages

LEMMA InitHooks == Init => HooksInv
<1> SUFFICES ASSUME Init PROVE HooksInv
  OBVIOUS
<1>1. /\ hook = [f \in Hooked |-> "none"] /\ call = [t \in {Loader} |-> Api!NoCall]
      /\ pc = <<"GetEnvironmentVariable">> /\ started = {} /\ crashed = "no"
  BY DEF Init, Api!Init
<1>2. Api!NoCall \in CallType
  BY DEF Api!NoCall, CallType, Status
<1>3. CallInv
  <2>1. call[Loader] = Api!NoCall
    BY <1>1
  <2>2. hook \in [Hooked -> {"none", "off", "on"}]
    BY <1>1
  <2>3. call \in [{Loader} -> CallType]
    BY <1>1, <1>2
  <2> QED
    BY <2>1, <2>2, <2>3 DEF CallInv
<1>4. OrderInv
  BY <1>1, HookedFacts, Places DEF OrderInv
<1>5. StartedInv
  BY <1>1 DEF StartedInv
<1> QED
  BY <1>3, <1>4, <1>5 DEF HooksInv

\* Until the hooks, LoadDll makes no call, and nothing is started.
LEMMA BeforeHooks ==
  ASSUME HooksInv, NEW here, pc = <<here>>, NEW there, pc' = <<there>> \/ pc' = <<"Startup", "Initialize">>,
         there \notin {"running", "GetEnvironmentVariable"}, there \in {"strscat", "Settings"} => hook[CreateProcessA] # "on",
         UNCHANGED <<hook, call, original, started>>, here \notin {"running", "detached"},
         gameguard' = gameguard \/ here = "Settings",
         crashed' = crashed \/ crashed' = "stack"
  PROVE  HooksInv'
<1>1. call[Loader] = Api!NoCall /\ CallInv'
  BY Places DEF HooksInv, CallInv
<1>2. started' = {}
  BY DEF HooksInv, StartedInv
<1>3. \A op \in Calls : pc' # <<"CreateProcess", op>>
  BY Places
<1>4. \A stage \in Stages : pc' # <<stage, "Enable">>
  BY Places
<1>5. pc' # <<"running">>
  BY Places
<1>6. OrderInv'
  BY <1>3, <1>4, Places DEF HooksInv, OrderInv
<1>7. StartedInv'
  BY <1>2, <1>5 DEF StartedInv
<1> QED
  BY <1>1, <1>6, <1>7 DEF HooksInv

\* LoadDll up to its first hook.
LEMMA LoadStep ==
  ASSUME HooksInv,
         \/ GetEnvironmentVariable \/ BuildPath \/ LoadLibrary
         \/ SettingsInit \/ HookLibraryFunctions \/ Overrun
  PROVE  HooksInv'
<1>1. CASE GetEnvironmentVariable
  <2>1. pc = <<"GetEnvironmentVariable">> /\ pc' = <<"strscat">>
        /\ UNCHANGED <<hook, call, original, started, gameguard, crashed>>
    BY <1>1 DEF GetEnvironmentVariable, apivars, gamevars
  <2>2. hook[CreateProcessA] # "on"
    BY <2>1 DEF HooksInv, OrderInv
  <2> QED
    BY <2>1, <2>2, BeforeHooks
<1>2. CASE BuildPath
  <2>1. UNCHANGED <<pc, hook, call, original, started, gameguard, crashed, refused>>
    BY <1>2 DEF BuildPath, apivars, gamevars
  <2> QED
    BY <2>1 DEF HooksInv, CallInv, OrderInv, StartedInv
<1>3. CASE LoadLibrary
  <2>1. pc = <<"strscat">> /\ pc' = <<"Settings">>
        /\ UNCHANGED <<hook, call, original, started, gameguard, crashed>>
    BY <1>3 DEF LoadLibrary, apivars, gamevars
  <2>2. hook[CreateProcessA] # "on"
    BY <2>1 DEF HooksInv, OrderInv
  <2> QED
    BY <2>1, <2>2, BeforeHooks
<1>4. CASE Overrun
  <2>1. pc = <<"strscat">> /\ pc' = <<"detached">> /\ crashed' = "stack"
        /\ UNCHANGED <<hook, call, original, started, gameguard>>
    BY <1>4 DEF Overrun, apivars
  <2> QED
    BY <2>1, BeforeHooks
<1>5. CASE SettingsInit
  <2>1. pc = <<"Settings">> /\ pc' = <<"HookLibraryFunctions">>
        /\ UNCHANGED <<hook, call, original, started, crashed>>
    BY <1>5 DEF SettingsInit, apivars, gamevars
  <2> QED
    BY <2>1, BeforeHooks
<1>6. CASE HookLibraryFunctions
  <2>1. pc = <<"HookLibraryFunctions">> /\ pc' = <<"Startup", "Initialize">>
        /\ UNCHANGED <<hook, call, original, started, gameguard, crashed>>
    BY <1>6 DEF HookLibraryFunctions, apivars, gamevars
  <2> QED
    BY <2>1, BeforeHooks
<1> QED
  BY <1>1, <1>2, <1>3, <1>4, <1>5, <1>6

-------------------------------------------------------------------------------
\* LoadDll is at operation op of a stage, and a call of it is under way.
Under(stage, op) ==
  /\ stage \in Stages /\ op \in Calls /\ pc = <<stage, op>>
  /\ call[Loader].op = op /\ call[Loader].arg = Argument(stage, op)

LEMMA UnderWay ==
  ASSUME HooksInv, call[Loader].op # "none"
  PROVE  \E stage \in Stages, op \in Calls :
           /\ Under(stage, op)
           /\ op # "Initialize" => call[Loader].status # "ALREADY_INITIALIZED"
           /\ op = "Enable" /\ call[Loader].status = "OK" => hook[Installs(stage)] = "on"
  BY DEF HooksInv, CallInv, Under, Api!NoCall

LEMMA Begun ==
  ASSUME HooksInv, NEW stage \in Stages, NEW op \in Calls, CallLibrary(stage, op)
  PROVE  HooksInv'
<1>1. /\ pc = <<stage, op>>
      /\ call' = [call EXCEPT ![Loader] = [op |-> op, arg |-> Argument(stage, op), status |-> "pending"]]
      /\ UNCHANGED <<hook, pc, original, started, gameguard, crashed, refused>>
  BY DEF CallLibrary, Api!Begin, gamevars, Argument
<1>2. call'[Loader] = [op |-> op, arg |-> Argument(stage, op), status |-> "pending"]
  BY <1>1 DEF HooksInv, CallInv
<1>3. [op |-> op, arg |-> Argument(stage, op), status |-> "pending"] \in CallType
  BY HookedFacts DEF Argument, CallType, Status
<1>4. CallInv'
  <2>1. call' \in [{Loader} -> CallType]
    BY <1>1, <1>3 DEF HooksInv, CallInv
  <2>2. hook' \in [Hooked -> {"none", "off", "on"}]
    BY <1>1 DEF HooksInv, CallInv
  <2>3. /\ pc' = <<stage, op>> /\ call'[Loader].op = op
        /\ call'[Loader].arg = Argument(stage, op)
        /\ call'[Loader].status = "pending"
    BY <1>1, <1>2
  <2> QED
    BY <2>1, <2>2, <2>3 DEF CallInv
<1>5. OrderInv' /\ StartedInv'
  BY <1>1 DEF HooksInv, OrderInv, StartedInv
<1> QED
  BY <1>4, <1>5 DEF HooksInv

\* What the library may do to the hooks and the call.
LEMMA Worked ==
  ASSUME HooksInv, LibraryWorks
  PROVE  \E stage \in Stages, op \in Calls, s \in Status \ {"none", "pending"} :
           /\ Under(stage, op)
           /\ call' = [call EXCEPT ![Loader].status = s]
           /\ op # "Initialize" => s # "ALREADY_INITIALIZED"
           /\ op = "Enable" /\ s = "OK" => hook' = [hook EXCEPT ![Installs(stage)] = "on"]
           /\ op = "Create" /\ s = "OK" =>
                hook[Installs(stage)] = "none" /\ hook' = [hook EXCEPT ![Installs(stage)] = "off"]
           /\ ~(op \in {"Create", "Enable"} /\ s = "OK") => hook' = hook
<1>1. call[Loader].op # "none"
  BY DEF LibraryWorks, Api!Initialize, Api!Create, Api!Switch, Api!SwitchFails, Api!Switching,
         Api!Pending
<1>2. PICK stage \in Stages, op \in Calls : Under(stage, op)
  BY <1>1, UnderWay
<1>3. CASE Api!Initialize(Loader)
  <2>1. op = "Initialize" /\ hook' = hook
    BY <1>2, <1>3 DEF Api!Initialize, Api!Pending, Under
  <2>2. \E s \in {"OK", "MEMORY_ALLOC", "ALREADY_INITIALIZED"} :
          call' = [call EXCEPT ![Loader].status = s]
    BY <1>3 DEF Api!Initialize, Api!Answer
  <2> QED
    BY <2>1, <2>2, <1>2 DEF Status
<1>4. CASE Api!Create(Loader)
  <2>1. op = "Create" /\ call[Loader].arg = Installs(stage)
    BY <1>2, <1>4 DEF Api!Create, Api!Pending, Under, Argument
  <2>2. \/ /\ hook[Installs(stage)] = "none" /\ hook' = [hook EXCEPT ![Installs(stage)] = "off"]
           /\ call' = [call EXCEPT ![Loader].status = "OK"]
        \/ /\ hook' = hook
           /\ \E s \in {"ALREADY_CREATED", "NOT_EXECUTABLE", "MEMORY_ALLOC", "UNSUPPORTED_FUNCTION"} :
                call' = [call EXCEPT ![Loader].status = s]
    BY <2>1, <1>4 DEF Api!Create, Api!Answer
  <2> QED
    BY <2>1, <2>2, <1>2 DEF Status
<1>5. CASE Api!Switch(Loader)
  <2>1. op = "Enable" /\ call[Loader].arg = Installs(stage)
    BY <1>2, <1>5 DEF Api!Switch, Api!Pending, Under, Argument, Calls
  <2>2. \/ /\ hook' = [hook EXCEPT ![Installs(stage)] = "on"]
           /\ call' = [call EXCEPT ![Loader].status = "OK"]
        \/ /\ hook' = hook
           /\ \E s \in {"NOT_CREATED", "ENABLED"} : call' = [call EXCEPT ![Loader].status = s]
    BY <2>1, <1>2, <1>5 DEF Api!Switch, Api!SwitchTo, Api!Goal, Api!Answer, Under
  <2> QED
    BY <2>1, <2>2, <1>2 DEF Status
<1>6. CASE Api!SwitchFails(Loader)
  <2>1. /\ hook' = hook
        /\ \E s \in {"MEMORY_ALLOC", "MEMORY_PROTECT"} : call' = [call EXCEPT ![Loader].status = s]
    BY <1>6 DEF Api!SwitchFails, Api!Answer
  <2> QED
    BY <2>1, <1>2 DEF Status
<1> QED
  BY <1>3, <1>4, <1>5, <1>6 DEF LibraryWorks

LEMMA WorksStep ==
  ASSUME HooksInv, LibraryWorks
  PROVE  HooksInv'
<1>1. PICK stage \in Stages, op \in Calls, s \in Status \ {"none", "pending"} :
         /\ Under(stage, op)
         /\ call' = [call EXCEPT ![Loader].status = s]
         /\ op # "Initialize" => s # "ALREADY_INITIALIZED"
         /\ op = "Enable" /\ s = "OK" => hook' = [hook EXCEPT ![Installs(stage)] = "on"]
         /\ op = "Create" /\ s = "OK" =>
              hook[Installs(stage)] = "none" /\ hook' = [hook EXCEPT ![Installs(stage)] = "off"]
         /\ ~(op \in {"Create", "Enable"} /\ s = "OK") => hook' = hook
  BY Worked
<1>2. UNCHANGED <<pc, original, started, gameguard, crashed, refused>>
  BY DEF LibraryWorks, gamevars
<1>3. /\ hook \in [Hooked -> {"none", "off", "on"}] /\ call \in [{Loader} -> CallType]
      /\ pc = <<stage, op>> /\ call[Loader].op = op /\ call[Loader].arg = Argument(stage, op)
  BY <1>1 DEF HooksInv, CallInv, Under
<1>4. /\ hook' \in [Hooked -> {"none", "off", "on"}]
      /\ op = "Enable" /\ s = "OK" => hook'[Installs(stage)] = "on"
  BY <1>1, <1>3, HookedFacts
<1>5. CallInv'
  <2>1. /\ call' \in [{Loader} -> CallType] /\ call'[Loader].status = s
        /\ call'[Loader].op = op /\ call'[Loader].arg = Argument(stage, op)
    <3>1. call[Loader] \in CallType
      BY <1>3
    <3>2. call'[Loader] = [call[Loader] EXCEPT !.status = s]
      BY <1>1, <1>3
    <3>3. call'[Loader] \in CallType /\ call'[Loader].status = s
          /\ call'[Loader].op = op /\ call'[Loader].arg = Argument(stage, op)
      BY <3>1, <3>2, <1>3 DEF CallType
    <3> QED
      BY <3>3, <1>1, <1>3
  <2> QED
    BY <2>1, <1>1, <1>2, <1>3, <1>4 DEF CallInv
\* A hook goes on only if it is the one being installed.
<1>6. \A f \in Hooked :
        hook'[f] = "on" => \/ hook[f] = "on"
                           \/ f = Installs(stage) /\ op = "Enable"
  BY <1>1, <1>3, HookedFacts
<1>7. \A f \in Hooked : hook[f] = "on" => hook'[f] = "on"
  BY <1>1, <1>3, HookedFacts
<1>8. OrderInv'
  <2>1. \A f \in Hooked : hook'[f] = "on" => f \in original
    BY <1>3, <1>6 DEF HooksInv, OrderInv
  <2>2. \A o \in Calls : pc = <<"CreateProcess", o>> => hook'[GetStartupInfoA] = "on" /\ gameguard
    BY <1>7, HookedFacts DEF HooksInv, OrderInv
  <2>3. hook'[CreateProcessA] = "on" => hook'[GetStartupInfoA] = "on" /\ gameguard
    <3>1. CASE hook[CreateProcessA] = "on"
      BY <3>1, <1>7, HookedFacts DEF HooksInv, OrderInv
    <3>2. CASE Installs(stage) = CreateProcessA
      <4>1. stage = "CreateProcess"
        BY <3>2, HookedFacts DEF Stages
      <4> QED
        BY <4>1, <2>2, <1>3
    <3> QED
      BY <3>1, <3>2, <1>6, HookedFacts
  <2>4. pc \notin {<<"GetEnvironmentVariable">>, <<"strscat">>, <<"Settings">>}
    BY <1>3, Places
  <2> QED
    BY <2>1, <2>2, <2>3, <2>4, <1>2 DEF HooksInv, OrderInv
<1>9. StartedInv'
  <2>1. pc # <<"running">>
    BY <1>3, Places
  <2> QED
    BY <2>1, <1>2 DEF HooksInv, StartedInv
<1> QED
  BY <1>5, <1>8, <1>9 DEF HooksInv

LEMMA ReturnStep ==
  ASSUME HooksInv, NEW stage \in Stages, NEW op \in Calls, LibraryReturns(stage, op)
  PROVE  HooksInv'
<1> DEFINE s == call[Loader].status
<1>1. /\ pc = <<stage, op>> /\ s \notin {"pending", "none"} /\ hook' = hook
      /\ call' = [call EXCEPT ![Loader] = Api!NoCall]
      /\ original' = original \union (IF op = "Create" THEN Stored(stage, s) ELSE {})
      /\ refused' = (refused \/ s \notin {"OK", "ALREADY_INITIALIZED"})
      /\ pc' = After(stage, op, s)
      /\ UNCHANGED <<gameguard, started, crashed>>
  BY DEF LibraryReturns, Api!Return, gamevars
<1>2. /\ op # "Initialize" => s # "ALREADY_INITIALIZED"
      /\ op = "Enable" /\ s = "OK" => hook[Installs(stage)] = "on"
  BY <1>1 DEF HooksInv, CallInv, Api!NoCall
<1> HIDE DEF s
<1>3. CallInv'
  <2>1. Api!NoCall \in CallType
    BY DEF Api!NoCall, CallType, Status
  <2>2. call' \in [{Loader} -> CallType] /\ call'[Loader] = Api!NoCall
    BY <2>1, <1>1 DEF HooksInv, CallInv
  <2>3. hook' \in [Hooked -> {"none", "off", "on"}]
    BY <1>1 DEF HooksInv, CallInv
  <2> QED
    BY <2>2, <2>3 DEF CallInv
\* Where LoadDll goes on.
<1>4. \/ pc' = <<"running">> /\ (refused' \/ (op = "Enable" /\ s = "OK" /\ (stage = "CreateProcess" \/ ~gameguard)))
      \/ pc' = <<stage, "Create">> /\ op = "Initialize"
      \/ pc' = <<stage, "Enable">> /\ op = "Create" /\ s = "OK"
      \/ /\ pc' = <<"CreateProcess", "Initialize">> /\ stage = "Startup" /\ gameguard
         /\ op = "Enable" /\ s = "OK"
  <2>1. CASE op = "Initialize"
    BY <2>1, <1>1 DEF After, Initialized
  <2>2. CASE op = "Create"
    BY <2>2, <1>1, <1>2 DEF After
  <2>3. CASE op = "Enable"
    BY <2>3, <1>1, <1>2 DEF After, AfterEnable, Stages
  <2> QED
    BY <2>1, <2>2, <2>3 DEF Calls
<1>5. OrderInv'
  <2>1. original \subseteq original' /\ \A f \in Hooked : hook'[f] = "on" => f \in original'
    BY <1>1 DEF HooksInv, OrderInv
  <2>2. \A g \in Stages : pc' = <<g, "Enable">> => Installs(g) \in original'
    <3>1. SUFFICES ASSUME NEW g \in Stages, pc' = <<g, "Enable">>
                   PROVE  Installs(g) \in original'
      OBVIOUS
    <3>2. g = stage /\ op = "Create" /\ s = "OK"
      BY <3>1, <1>4, Places
    <3> QED
      BY <3>2, <1>1 DEF Stored
  <2>3. \A o \in Calls : pc' = <<"CreateProcess", o>> => hook'[GetStartupInfoA] = "on" /\ gameguard'
    <3>1. SUFFICES ASSUME NEW o \in Calls, pc' = <<"CreateProcess", o>>
                   PROVE  hook'[GetStartupInfoA] = "on" /\ gameguard'
      OBVIOUS
    <3>2. CASE stage = "CreateProcess"
      BY <3>2, <1>1 DEF HooksInv, OrderInv
    <3>3. CASE stage = "Startup" /\ gameguard /\ op = "Enable" /\ s = "OK"
      BY <3>3, <1>1, <1>2, HookedFacts
    <3> QED
      BY <3>1, <3>2, <3>3, <1>4, Places
  <2>4. pc' \notin {<<"GetEnvironmentVariable">>, <<"strscat">>, <<"Settings">>}
    BY <1>4, Places
  <2> QED
    BY <2>1, <2>2, <2>3, <2>4, <1>1 DEF HooksInv, OrderInv
<1>6. StartedInv'
  <2>1. started = {} /\ started' = {}
    BY <1>1, Places DEF HooksInv, StartedInv
  <2>2. ASSUME pc' = <<"running">>, gameguard', ~refused'
        PROVE  hook'[CreateProcessA] = "on"
    <3>1. op = "Enable" /\ s = "OK" /\ stage = "CreateProcess"
      BY <2>2, <1>1, <1>4, Places
    <3> QED
      BY <3>1, <1>1, <1>2, HookedFacts
  <2> QED
    BY <2>1, <2>2 DEF StartedInv
<1> QED
  BY <1>3, <1>5, <1>6 DEF HooksInv

-------------------------------------------------------------------------------
LEMMA GameStep ==
  ASSUME HooksInv, Game
  PROVE  HooksInv'
<1>1. CASE FreeLibrary
  <2>1. pc = <<"running">> /\ pc' = <<"detached">>
        /\ UNCHANGED <<hook, call, original, started, gameguard, crashed, refused>>
    BY <1>1 DEF FreeLibrary, Running, apivars, gamevars
  <2>2. call[Loader] = Api!NoCall
    BY <2>1, Places DEF HooksInv, CallInv
  <2>3. CallInv'
    BY <2>1, <2>2 DEF HooksInv, CallInv
  <2>4. OrderInv'
    BY <2>1, Places DEF HooksInv, OrderInv
  <2>5. StartedInv'
    BY <2>1 DEF HooksInv, StartedInv
  <2> QED
    BY <2>3, <2>4, <2>5 DEF HooksInv
<1>2. ASSUME pc = <<"running">>, UNCHANGED <<hook, call, original, pc, gameguard, refused>>,
             crashed' # "original",
             hook[CreateProcessA] = "on" /\ GameGuardDes \notin started => GameGuardDes \notin started'
      PROVE  HooksInv'
  <2>1. CallInv' /\ OrderInv'
    BY <1>2 DEF HooksInv, CallInv, OrderInv
  <2>2. StartedInv'
    BY <1>2 DEF HooksInv, StartedInv
  <2> QED
    BY <2>1, <2>2 DEF HooksInv
<1>3. \A f \in Hooked : hook[f] = "on" => f \in original
  BY DEF HooksInv, OrderInv
<1>4. crashed # "original"
  BY DEF HooksInv, OrderInv
<1>5. ASSUME NEW p \in Program, StartProgram(p)
      PROVE  HooksInv'
  <2>1. pc = <<"running">> /\ UNCHANGED <<hook, call, original, pc, gameguard, refused>>
    BY <1>5 DEF StartProgram, Running, apivars
  <2>2. hook[CreateProcessA] = "on" => CreateProcessA \in original
    BY <1>3, HookedFacts
  <2>3. crashed' # "original"
    BY <1>4, <1>5, <2>2 DEF StartProgram
  <2>4. hook[CreateProcessA] = "on" /\ GameGuardDes \notin started => GameGuardDes \notin started'
    BY <1>5, <2>2 DEF StartProgram
  <2> QED
    BY <2>1, <2>3, <2>4, <1>2
<1>6. CASE StartCommandLine
  <2>1. pc = <<"running">> /\ UNCHANGED <<hook, call, original, pc, gameguard, refused>>
    BY <1>6 DEF StartCommandLine, Running, apivars
  <2>2. crashed' # "original"
    BY <1>4, <1>6 DEF StartCommandLine
  <2>3. hook[CreateProcessA] = "on" => started' = started
    BY <1>6 DEF StartCommandLine
  <2> QED
    BY <2>1, <2>2, <2>3, <1>2
<1>7. CASE StartUp
  <2>1. pc = <<"running">> /\ UNCHANGED <<hook, call, original, pc, gameguard, refused, started>>
    BY <1>7 DEF StartUp, Running, apivars
  <2>2. crashed' # "original"
    BY <1>3, <1>7, HookedFacts DEF StartUp
  <2> QED
    BY <2>1, <2>2, <1>2
<1>8. ASSUME NEW f \in Forwarded, CallForwarded(f)
      PROVE  HooksInv'
  <2>1. pc = <<"running">> /\ UNCHANGED <<hook, call, original, pc, gameguard, refused, started>>
        /\ crashed' # "original"
    BY <1>8 DEF CallForwarded, Running, apivars
  <2> QED
    BY <2>1, <1>2
<1> QED
  BY <1>1, <1>5, <1>6, <1>7, <1>8 DEF Game

LEMMA NextHooks == HooksInv /\ [Next]_vars => HooksInv'
<1> SUFFICES ASSUME HooksInv, [Next]_vars PROVE HooksInv'
  OBVIOUS
<1>1. CASE LoadDll
  <2>1. ASSUME NEW stage \in Stages, NEW op \in Calls,
               CallLibrary(stage, op) \/ LibraryReturns(stage, op)
        PROVE  HooksInv'
    BY <2>1, Begun, ReturnStep
  <2> QED
    BY <2>1, <1>1, LoadStep, WorksStep DEF LoadDll
<1>2. CASE Game
  BY <1>2, GameStep
<1>3. CASE UNCHANGED vars
  BY <1>3 DEF vars, apivars, gamevars, HooksInv, CallInv, OrderInv, StartedInv
<1> QED
  BY <1>1, <1>2, <1>3 DEF Next

(***************************************************************************)
(* The order LoadDll keeps, whatever the library answers: a call is always *)
(* about the function whose turn it is, and its predecessor is diverted    *)
(* (LoadDll, main.cc; Startup::Patch, GameGuard::PatchCreateProcess).      *)
(***************************************************************************)
THEOREM HooksInvariant == Spec => []HooksInv
<1> QED
  BY InitHooks, NextHooks, PTL DEF Spec

(***************************************************************************)
(* CreateProcessA is diverted only where GetStartupInfoA is and the        *)
(* settings ask for it (LoadDll, main.cc).                                 *)
(***************************************************************************)
THEOREM ProcessHookNeverAlone == Spec => []NoLoneProcessHook
<1>1. HooksInv => NoLoneProcessHook
  BY DEF HooksInv, OrderInv, NoLoneProcessHook
<1> QED
  BY <1>1, HooksInvariant, PTL

(***************************************************************************)
(* No hook is on whose original is unknown, wherever an installation       *)
(* stopped (startup.cc, gameguard.cc).                                     *)
(***************************************************************************)
THEOREM OriginalsKnown == Spec => []NoNullOriginal
<1>1. HooksInv => NoNullOriginal
  BY DEF HooksInv, OrderInv, NoNullOriginal
<1> QED
  BY <1>1, HooksInvariant, PTL

(***************************************************************************)
(* With GameGuard switched off and no call refused, it is never started by *)
(* name (_CreateProcessA, gameguard.cc).                                   *)
(***************************************************************************)
THEOREM GameGuardNeverStarts == Spec => []GameGuardStaysOff
<1>1. HooksInv => GameGuardStaysOff
  BY DEF HooksInv, StartedInv, GameGuardStaysOff
<1> QED
  BY <1>1, HooksInvariant, PTL

-------------------------------------------------------------------------------
(***************************************************************************)
(* The path of the library.                                                *)
(***************************************************************************)
\* While words are copied, they begin in the string, and are aligned or end in its page.
WordsInv ==
  strpc = "words" =>
    /\ src \in 0 .. PageBytes - 1 /\ max \in Nat
    /\ res <= SrcLen /\ \E n \in Nat : res = WordBytes * n
    /\ (\E n \in Nat : src = WordBytes * n) \/ res + max <= PageBytes - src

\* What is still to be copied ends with the buffer.
RoomInv ==
  EndedInside /\ strpc \in {"words", "bytes"} =>
    /\ dest \in Nat /\ res \in Nat /\ count \in Nat
    /\ dest + res + count = Size
    /\ strpc = "words" => max <= count

LayoutInv ==
  /\ DOMAIN buffer = 0 .. Top
  /\ windir \in Windirs \union {Unset}
  /\ pc = <<"GetEnvironmentVariable">> => strpc = "ready"
  /\ strpc \in {"words", "bytes"} => pc = <<"strscat">>
  /\ pc = <<"strscat">> /\ strpc = "ready" /\ Readable => \E m \in Stacks : buffer = Holding(m)

PathInv == WordsInv /\ RoomInv /\ LayoutInv

LEMMA SizeFacts ==
  /\ Size \in Nat \ {0} /\ Top \in Nat \ {0} /\ SizeLimit \in Nat \ {0}
  /\ Size <= Top /\ Top < SizeLimit
  /\ SrcLen \in Nat
  BY SizeAssumption, SourceAssumption DEF SrcLen

LEMMA ModSmall ==
  ASSUME NEW m \in Nat, NEW n \in Nat \ {0}, m < n
  PROVE  m % n = m
OBVIOUS

LEMMA ModNat ==
  ASSUME NEW m \in Int, NEW n \in Nat \ {0}
  PROVE  m % n \in Nat
OBVIOUS

LEMMA Quotient ==
  ASSUME NEW n \in Nat \ {0}, NEW q \in Nat, NEW r \in Nat, r < n
  PROVE  (n * q + r) \div n = q
OBVIOUS

\* A word at a multiple of four ends in the page it starts in, if pages are words.
LEMMA AlignedWord ==
  ASSUME NEW m \in Nat, NEW n \in Nat \ {0}
  PROVE  (4 * m) \div (4 * n) = (4 * m + 3) \div (4 * n)
<1> DEFINE q == m \div n
           r == m % n
<1>1. m = n * q + r /\ q \in Nat /\ r \in 0 .. n - 1
  OBVIOUS
<1> HIDE DEF q, r
<1>2. 4 * m = (4 * n) * q + 4 * r /\ 4 * m + 3 = (4 * n) * q + (4 * r + 3)
  BY <1>1
<1>3. /\ 4 * n \in Nat \ {0} /\ 4 * r \in Nat /\ 4 * r + 3 \in Nat
      /\ 4 * r < 4 * n /\ 4 * r + 3 < 4 * n
  BY <1>1
<1> QED
  BY <1>1, <1>2, <1>3, Quotient

LEMMA Multiples ==
  ASSUME NEW m \in Nat, m % 4 = 0
  PROVE  \E n \in Nat : m = 4 * n
OBVIOUS

LEMMA Wrapped ==
  ASSUME NEW m \in Int, m < 0, m > 0 - 3
  PROVE  m % 256 >= 128
OBVIOUS

LEMMA ElementOf ==
  ASSUME NEW S, NEW s \in Seq(S), NEW k \in 1 .. Len(s)
  PROVE  s[k] \in S
OBVIOUS

\* The string in DllPath is windir, if that could be read.
LEMMA EndOfWindir ==
  ASSUME windir \in Windirs \union {Unset}, Readable, NEW m \in Stacks, buffer = Holding(m),
         NEW len \in 0 .. Top, EndsAt(buffer, len)
  PROVE  len = Len(windir) /\ len < Size
<1>1. windir \in Seq(1 .. 255) /\ Len(windir) \in Nat /\ Len(windir) < Size
  BY WindirAssumption DEF Readable
<1>2. \A p \in 0 .. Top : p < Len(windir) => buffer[p] # NUL
  <2>1. SUFFICES ASSUME NEW p \in 0 .. Top, p < Len(windir) PROVE buffer[p] # 0
    BY DEF NUL
  <2>2. p + 1 \in 1 .. Len(windir)
    BY <2>1, <1>1, SizeFacts
  <2>3. windir[p + 1] \in 1 .. 255
    BY <2>2, <1>1, ElementOf
  <2>4. buffer[p] = windir[p + 1]
    BY <2>1 DEF Holding
  <2> QED
    BY <2>3, <2>4
<1>3. buffer[Len(windir)] = NUL
  BY <1>1, SizeFacts DEF Holding
<1>4. ~(len < Len(windir))
  BY <1>1, <1>2 DEF EndsAt
<1>5. ~(Len(windir) < len)
  BY <1>1, <1>3, SizeFacts DEF EndsAt
<1> QED
  BY <1>1, <1>4, <1>5

\* A word without a flagged byte is one without a zero.
LEMMA NoZeros ==
  ASSUME NEW w, has_zero(w) = {}, NEW k \in 0 .. 3
  PROVE  w[k] # NUL
<1>1. SUFFICES ASSUME w[k] = 0 PROVE k \in has_zero(w)
  BY DEF NUL
<1>2. Borrow(w, k) \in {0, 1}
  BY DEF Borrow
<1>3. /\ w[k] - 1 - Borrow(w, k) \in Int
      /\ w[k] - 1 - Borrow(w, k) < 0 /\ w[k] - 1 - Borrow(w, k) > 0 - 3
  BY <1>1, <1>2
<1>4. (w[k] - 1 - Borrow(w, k)) % 256 >= 128
  BY <1>3, Wrapped
<1> QED
  BY <1>1, <1>4 DEF has_zero

LEMMA InitPath == Init => PathInv
<1> SUFFICES ASSUME Init PROVE PathInv
  OBVIOUS
<1>1. /\ strpc = "ready" /\ pc = <<"GetEnvironmentVariable">> /\ buffer = NoMemory
      /\ windir \in Windirs \union {Unset}
  BY DEF Init, StrInit
<1>2. pc # <<"strscat">>
  BY <1>1
<1> QED
  BY <1>1, <1>2 DEF PathInv, WordsInv, RoomInv, LayoutInv, NoMemory

LEMMA StrscatStep ==
  ASSUME PathInv, pc = <<"strscat">>, NEW at \in 0 .. PageBytes - 1, strscat(at),
         UNCHANGED <<pc, windir>>
  PROVE  PathInv'
<1>1. PICK len \in 0 .. Top :
        /\ EndsAt(buffer, len) /\ dest' = len /\ res' = 0
        /\ count' = Room(len) /\ max' = Limit(at, Room(len))
        /\ strpc' = IF Room(len) <= 0 THEN "done" ELSE "words"
  BY DEF strscat
<1>2. src' = at /\ buffer' = buffer /\ strpc = "ready"
  BY DEF strscat
<1>3. PageBytes \in Nat \ {0} /\ at \in Nat /\ at < PageBytes
  BY PageAssumption
<1>4. len \in Nat /\ Room(len) \in Nat
  BY SizeFacts, ModNat DEF Room
<1>5. Limit(at, Room(len)) \in Nat /\ Limit(at, Room(len)) <= Room(len)
  BY <1>3, <1>4 DEF Limit
<1>6. at % 4 = 0 \/ Limit(at, Room(len)) <= PageBytes - at
  BY <1>3, <1>4 DEF Limit, WordBytes
<1>7. WordsInv'
  <2>1. SUFFICES ASSUME strpc' = "words"
        PROVE  /\ src' \in 0 .. PageBytes - 1 /\ max' \in Nat
               /\ res' <= SrcLen /\ \E n \in Nat : res' = WordBytes * n
               /\ (\E n \in Nat : src' = WordBytes * n) \/ res' + max' <= PageBytes - src'
    BY DEF WordsInv
  <2>2. res' <= SrcLen
    BY <1>1, SizeFacts
  <2>3. res' = WordBytes * 0
    BY <1>1 DEF WordBytes
  <2>4. (\E n \in Nat : src' = WordBytes * n) \/ res' + max' <= PageBytes - src'
    <3>1. CASE at % 4 = 0
      BY <3>1, <1>2, <1>3, Multiples DEF WordBytes
    <3>2. CASE Limit(at, Room(len)) <= PageBytes - at
      BY <3>2, <1>1, <1>2, <1>3, <1>5
    <3> QED
      BY <3>1, <3>2, <1>6
  <2> QED
    BY <2>2, <2>3, <2>4, <1>1, <1>2, <1>5
<1>8. RoomInv'
  <2>1. SUFFICES ASSUME EndedInside', strpc' = "words"
        PROVE  /\ dest' \in Nat /\ res' \in Nat /\ count' \in Nat
               /\ dest' + res' + count' = Size /\ max' <= count'
    BY <1>1 DEF RoomInv
  <2>3. len <= Size
    <3>1. CASE Readable
      <4>1. PICK m \in Stacks : buffer = Holding(m)
        BY <3>1, <1>2 DEF PathInv, LayoutInv
      <4>2. len < Size
        BY <3>1, <4>1, <1>1, EndOfWindir DEF PathInv, LayoutInv
      <4> QED
        BY <4>2, <1>4, SizeFacts
    <3>2. CASE ~Readable
      BY <3>2, <2>1, <1>1 DEF EndedInside, Readable
    <3> QED
      BY <3>1, <3>2
  <2>4. Room(len) = Size - len
    <3>1. Size - len \in Nat /\ Size - len < SizeLimit
      BY <2>3, <1>4, SizeFacts
    <3> QED
      BY <3>1, SizeFacts, ModSmall DEF Room
  <2> QED
    BY <2>3, <2>4, <1>1, <1>4, <1>5, SizeFacts
<1>9. LayoutInv'
  BY <1>1, <1>2 DEF PathInv, LayoutInv, Readable
<1> QED
  BY <1>7, <1>8, <1>9 DEF PathInv

\* What a step of strscpy writes lies between the string and the buffer's end.
LEMMA CopyStep ==
  ASSUME PathInv, pc = <<"strscat">>, strscpy, UNCHANGED <<pc, windir>>
  PROVE  /\ PathInv'
         /\ EndedInside /\ strpc \in {"words", "bytes"} => \A p \in Size .. Top : buffer'[p] = buffer[p]
<1>1. Readable' = Readable /\ EndedInside' = EndedInside
  BY DEF EndedInside, Readable, strscpy, LastWord, CopyWord, EndOfWords, CopyByte, CutOff
<1>2. DOMAIN buffer = 0 .. Top /\ windir' \in Windirs \union {Unset}
  BY DEF PathInv, LayoutInv
<1>3. ASSUME NEW w, strpc = "words", max >= WordBytes, buffer' = WordStored(w)
      PROVE  /\ DOMAIN buffer' = 0 .. Top
             /\ EndedInside => \A p \in Size .. Top : buffer'[p] = buffer[p]
  <2>1. DOMAIN buffer' = 0 .. Top
    BY <1>3 DEF WordStored
  <2>2. ASSUME EndedInside, NEW p \in Size .. Top PROVE buffer'[p] = buffer[p]
    <3>1. /\ dest \in Nat /\ res \in Nat /\ count \in Nat
          /\ dest + res + count = Size /\ max <= count /\ max \in Nat
      BY <1>3, <2>2 DEF PathInv, RoomInv, WordsInv
    <3>2. p \in Nat /\ p >= Size /\ p \in 0 .. Top
      BY SizeFacts
    <3>3. max >= 4
      BY <1>3 DEF WordBytes
    <3>4. p - dest - res \notin 0 .. 3
      BY <3>1, <3>2, <3>3
    <3> QED
      BY <3>2, <3>4, <1>3 DEF WordStored
  <2> QED
    BY <2>1, <2>2
<1>4. ASSUME NEW c, NEW q \in Nat, buffer' = [buffer EXCEPT ![q] = c], q < Size
      PROVE  /\ DOMAIN buffer' = 0 .. Top
             /\ \A p \in Size .. Top : buffer'[p] = buffer[p]
  <2>1. DOMAIN buffer' = 0 .. Top
    BY <1>2, <1>4
  <2>2. ASSUME NEW p \in Size .. Top PROVE buffer'[p] = buffer[p]
    <3>1. p \in 0 .. Top /\ p # q
      BY <1>4, SizeFacts
    <3> QED
      BY <3>1, <1>2, <1>4
  <2> QED
    BY <2>1, <2>2
<1>5. CASE LastWord
  <2>1. strpc = "words" /\ max >= WordBytes /\ strpc' = "done"
    BY <1>5 DEF LastWord
  <2>2. \E w : buffer' = WordStored(w)
    BY <1>5 DEF LastWord
  <2>3. /\ DOMAIN buffer' = 0 .. Top
        /\ EndedInside => \A p \in Size .. Top : buffer'[p] = buffer[p]
    BY <1>3, <2>1, <2>2
  <2> QED
    BY <2>1, <2>3, <1>1, <1>2 DEF PathInv, WordsInv, RoomInv, LayoutInv
<1>6. CASE CopyWord
  <2>1. PICK b \in [0 .. 3 -> Beyond] : has_zero(Word(b)) = {} /\ buffer' = WordStored(Word(b))
    BY <1>6 DEF CopyWord
  <2>2. /\ strpc = "words" /\ max >= 4 /\ strpc' = "words" /\ src' = src /\ dest' = dest
        /\ res' = res + 4 /\ count' = count - 4 /\ max' = max - 4
    BY <1>6 DEF CopyWord, WordBytes
  <2>3. /\ DOMAIN buffer' = 0 .. Top
        /\ EndedInside => \A p \in Size .. Top : buffer'[p] = buffer[p]
    BY <1>3, <2>1, <2>2 DEF WordBytes
  <2>4. /\ src \in 0 .. PageBytes - 1 /\ max \in Nat /\ res <= SrcLen
        /\ \E n \in Nat : res = 4 * n
        /\ (\E n \in Nat : src = 4 * n) \/ res + max <= PageBytes - src
    BY <2>2 DEF PathInv, WordsInv, WordBytes
  <2>5. \E n \in Nat : res' = 4 * n
    <3>1. PICK n \in Nat : res = 4 * n
      BY <2>4
    <3>2. res' = 4 * (n + 1) /\ n + 1 \in Nat
      BY <3>1, <2>2
    <3> QED
      BY <3>2
  <2>6. res \in Nat
    BY <2>4
  <2>7. res' <= SrcLen
    <3>1. SUFFICES ASSUME SrcLen - res \in 0 .. 3 PROVE FALSE
      BY <2>2, <2>4, <2>6, SizeFacts
    <3>2. Word(b)[SrcLen - res] = NUL
      BY <3>1, <2>6, SizeFacts DEF Word
    <3> QED
      BY <3>1, <3>2, <2>1, NoZeros
  <2>8. WordsInv'
    <3>1. max' \in Nat
      BY <2>2, <2>4
    <3>2. (\E n \in Nat : src = 4 * n) \/ res' + max' <= PageBytes - src
      BY <2>2, <2>4, <2>6, PageAssumption
    <3> QED
      BY <3>1, <3>2, <2>2, <2>4, <2>5, <2>7 DEF WordsInv, WordBytes
  <2>9. RoomInv'
    <3>1. SUFFICES ASSUME EndedInside
          PROVE  /\ dest' \in Nat /\ res' \in Nat /\ count' \in Nat
                 /\ dest' + res' + count' = Size /\ max' <= count'
      BY <1>1, <2>2 DEF RoomInv
    <3>2. /\ dest \in Nat /\ count \in Nat /\ dest + res + count = Size /\ max <= count
      BY <3>1, <2>2 DEF PathInv, RoomInv
    <3> QED
      BY <3>2, <2>2, <2>4, <2>6, SizeFacts
  <2>10. LayoutInv'
    BY <2>2, <2>3, <1>1, <1>2 DEF PathInv, LayoutInv
  <2> QED
    BY <2>3, <2>8, <2>9, <2>10 DEF PathInv
<1>7. CASE EndOfWords
  <2>1. /\ strpc = "words" /\ strpc' = "bytes" /\ UNCHANGED <<buffer, src, dest, res, count, max>>
    BY <1>7 DEF EndOfWords
  <2> QED
    BY <2>1, <1>1, <1>2 DEF PathInv, WordsInv, RoomInv, LayoutInv
<1>8. CASE CopyByte
  <2>1. PICK c : buffer' = [buffer EXCEPT ![dest + res] = c]
    BY <1>8 DEF CopyByte
  <2>2. /\ strpc = "bytes" /\ count > 0 /\ dest' = dest
        /\ \/ strpc' = "done"
           \/ strpc' = "bytes" /\ res' = res + 1 /\ count' = count - 1
    BY <1>8 DEF CopyByte
  <2>3. DOMAIN buffer' = 0 .. Top
    BY <2>1, <1>2
  <2>4. ASSUME EndedInside
        PROVE  /\ dest \in Nat /\ res \in Nat /\ count \in Nat /\ dest + res + count = Size
               /\ dest + res \in Nat /\ dest + res < Size
    <3>1. dest \in Nat /\ res \in Nat /\ count \in Nat /\ dest + res + count = Size
      BY <2>2, <2>4 DEF PathInv, RoomInv
    <3> QED
      BY <3>1, <2>2, SizeFacts
  <2>5. EndedInside => \A p \in Size .. Top : buffer'[p] = buffer[p]
    BY <2>1, <2>4, <1>4
  <2>6. RoomInv'
    BY <2>2, <2>4, <1>1 DEF RoomInv
  <2>7. WordsInv' /\ LayoutInv'
    BY <2>2, <2>3, <1>1, <1>2 DEF PathInv, WordsInv, LayoutInv
  <2> QED
    BY <2>5, <2>6, <2>7 DEF PathInv
<1>9. CASE CutOff
  <2>1. /\ strpc = "bytes" /\ count = 0 /\ strpc' = "done"
        /\ buffer' = IF res > 0 THEN [buffer EXCEPT ![dest + res - 1] = NUL] ELSE buffer
    BY <1>9 DEF CutOff
  <2>2. DOMAIN buffer' = 0 .. Top
    BY <2>1, <1>2
  <2>3. EndedInside => \A p \in Size .. Top : buffer'[p] = buffer[p]
    <3>1. SUFFICES ASSUME EndedInside, res > 0 PROVE \A p \in Size .. Top : buffer'[p] = buffer[p]
      BY <2>1
    <3>2. dest \in Nat /\ res \in Nat /\ dest + res = Size
      BY <3>1, <2>1 DEF PathInv, RoomInv
    <3>3. dest + res - 1 \in Nat /\ dest + res - 1 < Size
      BY <3>1, <3>2
    <3> QED
      BY <3>1, <3>3, <2>1, <1>4
  <2> QED
    BY <2>1, <2>2, <2>3, <1>1, <1>2 DEF PathInv, WordsInv, RoomInv, LayoutInv
<1> QED
  BY <1>5, <1>6, <1>7, <1>8, <1>9 DEF strscpy

\* Everything else leaves the buffer alone, or DllPath is not being built yet or any more.
LEMMA OtherSteps ==
  ASSUME PathInv, [Next]_vars, ~BuildPath
  PROVE  /\ PathInv'
         /\ strpc \in {"words", "bytes"} => buffer' = buffer
<1>1. windir' = windir
  BY DEF Next, LoadDll, Game, GetEnvironmentVariable, LoadLibrary, Overrun, SettingsInit,
         HookLibraryFunctions, CallLibrary, LibraryWorks, LibraryReturns, StartProgram,
         StartCommandLine, StartUp, CallForwarded, FreeLibrary, env, vars
<1>2. Readable' = Readable
  BY <1>1 DEF Readable
<1>3. CASE GetEnvironmentVariable
  <2>1. /\ pc = <<"GetEnvironmentVariable">> /\ pc' = <<"strscat">> /\ strpc' = strpc
        /\ \E m \in Stacks : buffer' = IF Readable THEN Holding(m) ELSE m
    BY <1>3 DEF GetEnvironmentVariable
  <2>2. strpc = "ready"
    BY <2>1 DEF PathInv, LayoutInv
  <2>3. DOMAIN buffer' = 0 .. Top
    BY <2>1, StackAssumption DEF Holding
  <2>4. Readable => \E m \in Stacks : buffer' = Holding(m)'
    BY <2>1, <1>1 DEF Holding
  <2>5. WordsInv' /\ RoomInv'
    BY <2>1, <2>2 DEF WordsInv, RoomInv
  <2>6. pc' # <<"GetEnvironmentVariable">>
    BY <2>1
  <2>7. LayoutInv'
    BY <2>1, <2>2, <2>3, <2>4, <2>6, <1>1, <1>2 DEF PathInv, LayoutInv
  <2> QED
    BY <2>2, <2>5, <2>7 DEF PathInv
<1>4. CASE LoadLibrary
  <2>1. strpc = "done" /\ strpc' = "ready" /\ pc' = <<"Settings">> /\ buffer' = NoMemory
    BY <1>4 DEF LoadLibrary
  <2>2. pc' # <<"strscat">> /\ pc' # <<"GetEnvironmentVariable">>
    BY <2>1
  <2> QED
    BY <2>1, <2>2, <1>1 DEF PathInv, WordsInv, RoomInv, LayoutInv, NoMemory
<1>5. ASSUME UNCHANGED strvars,
             \/ UNCHANGED pc
             \/ /\ pc # <<"strscat">> \/ strpc = "done"
                /\ pc' # <<"strscat">> /\ pc' # <<"GetEnvironmentVariable">>
      PROVE  PathInv' /\ buffer' = buffer
  <2>1. UNCHANGED <<buffer, src, strpc, dest, res, count, max>>
    BY <1>5 DEF strvars
  <2>2. WordsInv' /\ RoomInv'
    BY <2>1, <1>2 DEF PathInv, WordsInv, RoomInv, EndedInside
  <2>3. LayoutInv'
    <3>1. CASE UNCHANGED pc
      BY <3>1, <2>1, <1>1 DEF PathInv, LayoutInv, Readable, Holding
    <3>2. CASE ~UNCHANGED pc
      BY <3>2, <2>1, <1>1, <1>5 DEF PathInv, LayoutInv
    <3> QED
      BY <3>1, <3>2
  <2> QED
    BY <2>1, <2>2, <2>3 DEF PathInv
<1>6. CASE Overrun
  <2>1. UNCHANGED strvars /\ strpc = "done" /\ pc' = <<"detached">>
    BY <1>6 DEF Overrun
  <2>2. pc' # <<"strscat">> /\ pc' # <<"GetEnvironmentVariable">>
    BY <2>1
  <2> QED
    BY <2>1, <2>2, <1>5
<1>7. CASE SettingsInit
  <2>1. UNCHANGED strvars /\ pc = <<"Settings">> /\ pc' = <<"HookLibraryFunctions">>
    BY <1>7 DEF SettingsInit
  <2>2. pc # <<"strscat">> /\ pc' # <<"strscat">> /\ pc' # <<"GetEnvironmentVariable">>
    BY <2>1
  <2> QED
    BY <2>1, <2>2, <1>5
<1>8. CASE HookLibraryFunctions
  <2>1. UNCHANGED strvars /\ pc = <<"HookLibraryFunctions">> /\ pc' = <<"Startup", "Initialize">>
    BY <1>8 DEF HookLibraryFunctions
  <2>2. pc # <<"strscat">> /\ pc' # <<"strscat">> /\ pc' # <<"GetEnvironmentVariable">>
    BY <2>1, Places
  <2> QED
    BY <2>1, <2>2, <1>5
<1>9. ASSUME NEW stage \in Stages, NEW op \in Calls, CallLibrary(stage, op)
      PROVE  PathInv' /\ buffer' = buffer
  BY <1>5, <1>9 DEF CallLibrary
<1>10. ASSUME NEW stage \in Stages, NEW op \in Calls, LibraryReturns(stage, op)
       PROVE  PathInv' /\ buffer' = buffer
  <2>1. UNCHANGED strvars /\ pc = <<stage, op>> /\ pc' = After(stage, op, call[Loader].status)
    BY <1>10 DEF LibraryReturns
  <2>2. \/ pc' = <<"running">> \/ \E g, o : pc' = <<g, o>>
    BY <2>1 DEF After, AfterEnable, Calls
  <2>3. pc # <<"strscat">> /\ pc' # <<"strscat">> /\ pc' # <<"GetEnvironmentVariable">>
    BY <2>1, <2>2, Places
  <2> QED
    BY <2>1, <2>3, <1>5
<1>11. CASE LibraryWorks
  BY <1>5, <1>11 DEF LibraryWorks
<1>12. CASE Game
  <2>1. CASE FreeLibrary
    <3>1. UNCHANGED strvars /\ pc = <<"running">> /\ pc' = <<"detached">>
      BY <2>1 DEF FreeLibrary, Running
    <3>2. pc # <<"strscat">> /\ pc' # <<"strscat">> /\ pc' # <<"GetEnvironmentVariable">>
      BY <3>1
    <3> QED
      BY <3>1, <3>2, <1>5
  <2>2. CASE ~FreeLibrary
    <3>1. UNCHANGED strvars /\ UNCHANGED pc
      BY <2>2, <1>12 DEF Game, StartProgram, StartCommandLine, StartUp, CallForwarded
    <3> QED
      BY <3>1, <1>5
  <2> QED
    BY <2>1, <2>2
<1>13. CASE UNCHANGED vars
  BY <1>5, <1>13 DEF vars
<1>14. strpc = "ready" => strpc \notin {"words", "bytes"}
  OBVIOUS
<1>15. GetEnvironmentVariable => strpc = "ready"
  BY DEF GetEnvironmentVariable, PathInv, LayoutInv
<1>16. LoadLibrary => strpc = "done"
  BY DEF LoadLibrary
<1> QED
  BY <1>3, <1>4, <1>6, <1>7, <1>8, <1>9, <1>10, <1>11, <1>12, <1>13, <1>14, <1>15, <1>16,
     <1>5 DEF Next, LoadDll, Overrun, SettingsInit, HookLibraryFunctions, strvars

LEMMA PathStep ==
  ASSUME PathInv, [Next]_vars
  PROVE  /\ PathInv'
         /\ EndedInside /\ strpc \in {"words", "bytes"} => \A p \in Size .. Top : buffer'[p] = buffer[p]
<1>1. CASE BuildPath
  <2>1. /\ pc = <<"strscat">> /\ UNCHANGED <<pc, windir>>
        /\ (\E at \in 0 .. PageBytes - 1 : strscat(at)) \/ strscpy
    BY <1>1 DEF BuildPath, env
  <2>2. ASSUME NEW at \in 0 .. PageBytes - 1, strscat(at)
        PROVE  PathInv' /\ strpc = "ready"
    BY <2>1, <2>2, StrscatStep DEF strscat
  <2> QED
    BY <2>1, <2>2, CopyStep
<1>2. CASE ~BuildPath
  BY <1>2, OtherSteps
<1> QED
  BY <1>1, <1>2

(***************************************************************************)
(* What strscpy still has to copy always ends with the buffer, and its     *)
(* words begin inside the string (format.cc).                              *)
(***************************************************************************)
THEOREM PathInvariant == Spec => []PathInv
<1>1. PathInv /\ [Next]_vars => PathInv'
  BY PathStep
<1> QED
  BY <1>1, InitPath, PTL DEF Spec

(***************************************************************************)
(* However long windir and the library's name are, and however large the   *)
(* buffer, strscat writes nothing behind it if windir could be read, or if *)
(* what the buffer held uninitialised ended inside it.                     *)
(***************************************************************************)
THEOREM NothingBehindDllPath == Spec => StackIntact
<1>1. PathInv /\ [Next]_vars =>
        [EndedInside /\ strpc \in {"words", "bytes"}
           => \A p \in Size .. Top : buffer'[p] = buffer[p]]_vars
  BY PathStep
<1> QED
  BY <1>1, PathInvariant, PTL DEF Spec, StackIntact

(***************************************************************************)
(* Wherever the string lies, no four bytes strscpy reads at once reach     *)
(* into a page that holds none of it (format.cc).                          *)
(***************************************************************************)
THEOREM NoReadPastThePage == Spec => []WordReadsStay
<1>1. PathInv => WordReadsStay
  <2>1. SUFFICES ASSUME PathInv, strpc = "words", max >= 4
                 PROVE  /\ res <= SrcLen
                        /\ (src + res) \div PageBytes = (src + res + 3) \div PageBytes
    BY DEF WordReadsStay, WordBytes
  <2>2. /\ src \in 0 .. PageBytes - 1 /\ max \in Nat /\ res <= SrcLen
        /\ \E n \in Nat : res = 4 * n
        /\ (\E n \in Nat : src = 4 * n) \/ res + max <= PageBytes - src
    BY <2>1 DEF PathInv, WordsInv, WordBytes
  <2>3. PageBytes \in Nat \ {0} /\ \E k \in Nat : PageBytes = 4 * k
    BY PageAssumption, Multiples DEF WordBytes
  <2>4. PICK m \in Nat : res = 4 * m
    BY <2>2
  <2>5. CASE res + max <= PageBytes - src
    <3>1. /\ src + res \in Nat /\ src + res + 3 \in Nat /\ src + res < PageBytes
          /\ src + res + 3 < PageBytes
      BY <2>1, <2>2, <2>3, <2>4, <2>5
    <3>2. \A x \in Nat : x < PageBytes => x \div PageBytes = 0
      BY <2>3
    <3> QED
      BY <3>1, <3>2, <2>2
  <2>6. ASSUME NEW n \in Nat, src = 4 * n
        PROVE  (src + res) \div PageBytes = (src + res + 3) \div PageBytes
    <3>1. PICK k \in Nat \ {0} : PageBytes = 4 * k
      BY <2>3
    <3>2. src + res = 4 * (n + m) /\ n + m \in Nat
      BY <2>4, <2>6
    <3> QED
      BY <3>1, <3>2, AlignedWord
  <2> QED
    BY <2>2, <2>5, <2>6
<1> QED
  BY <1>1, PathInvariant, PTL

-------------------------------------------------------------------------------
(***************************************************************************)
(* What is copied.                                                         *)
(***************************************************************************)
\* What has been copied is the path, as far as it goes; at the end it is all
\* of it, or as much as fits.
CopiedInv ==
  Readable =>
    /\ strpc \in {"words", "bytes"} =>
         /\ dest = Len(windir) /\ res <= SrcLen
         /\ \A p \in 0 .. dest + res - 1 : buffer[p] = FullPath[p + 1]
    /\ strpc = "done" => IsPath(Fitting) /\ (Fitting = Len(FullPath) => res = SrcLen)

LEMMA CountedBytes ==
  ASSUME NEW k \in 0 .. 3
  PROVE  count_masked_bytes(create_zero_mask(k)) = k
<1>1. CASE k = 0
  BY <1>1 DEF create_zero_mask, count_masked_bytes
<1>2. CASE k = 1
  BY <1>2 DEF create_zero_mask, count_masked_bytes
<1>3. CASE k = 2
  BY <1>3 DEF create_zero_mask, count_masked_bytes
<1>4. CASE k = 3
  BY <1>4 DEF create_zero_mask, count_masked_bytes
<1> QED
  BY <1>1, <1>2, <1>3, <1>4

LEMMA Flagged ==
  ASSUME NEW m \in 0 .. 127, (m - 1) % 256 >= 128
  PROVE  m = 0
OBVIOUS

LEMMA ZeroFlagged ==
  ASSUME NEW w, NEW k \in 0 .. 3, w[k] = NUL
  PROVE  k \in has_zero(w)
<1>1. Borrow(w, k) \in {0, 1}
  BY DEF Borrow
<1>2. /\ w[k] - 1 - Borrow(w, k) \in Int
      /\ w[k] - 1 - Borrow(w, k) < 0 /\ w[k] - 1 - Borrow(w, k) > 0 - 3
  BY <1>1 DEF NUL
<1>3. (w[k] - 1 - Borrow(w, k)) % 256 >= 128
  BY <1>2, Wrapped
<1> QED
  BY <1>3 DEF has_zero, NUL

\* The first byte has_zero flags is the first zero, whatever is flagged after it.
LEMMA FirstFlagIsZero ==
  ASSUME NEW w, \A j \in 0 .. 3 : w[j] \in Byte,
         NEW k \in 0 .. 3, IsFirstFlag(has_zero(w), k)
  PROVE  w[k] = NUL /\ \A j \in 0 .. k - 1 : w[j] # NUL
<1>1. k \in has_zero(w) /\ \A j \in has_zero(w) : k <= j
  BY DEF IsFirstFlag
<1>2. \A j \in 0 .. k - 1 : w[j] # NUL
  <2>1. SUFFICES ASSUME NEW j \in 0 .. k - 1, w[j] = NUL PROVE FALSE
    OBVIOUS
  <2>2. j \in 0 .. 3 /\ j < k
    OBVIOUS
  <2> QED
    BY <1>1, <2>1, <2>2, ZeroFlagged
<1>3. Borrow(w, k) = 0
  BY <1>2 DEF Borrow
<1>4. w[k] \in 0 .. 127 /\ (w[k] - 1) % 256 >= 128
  BY <1>1, <1>3 DEF has_zero, Byte
<1> QED
  BY <1>2, <1>4, Flagged DEF NUL

LEMMA PathFacts ==
  ASSUME windir \in Windirs \union {Unset}, windir # Unset
  PROVE  /\ windir \in Seq(1 .. 255) /\ Len(windir) \in Nat
         /\ Len(FullPath) = Len(windir) + SrcLen
         /\ \A p \in 1 .. Len(windir) : FullPath[p] = windir[p]
         /\ \A k \in 1 .. SrcLen : FullPath[Len(windir) + k] = Source[k]
         /\ \A p \in 1 .. Len(FullPath) : FullPath[p] \in 1 .. 255
<1>1. windir \in Seq(1 .. 255) /\ Source \in Seq(1 .. 255)
  BY WindirAssumption, SourceAssumption
<1>2. FullPath \in Seq(1 .. 255)
  BY <1>1 DEF FullPath
<1>3. \A p \in 1 .. Len(FullPath) : FullPath[p] \in 1 .. 255
  BY <1>2, ElementOf
<1>4. Len(windir) \in Nat /\ Len(Source) \in Nat
  BY <1>1
<1>5. Len(FullPath) = Len(windir) + SrcLen
  BY <1>1 DEF FullPath, SrcLen
<1>6. \A p \in 1 .. Len(windir) : FullPath[p] = windir[p]
  BY <1>1, <1>4 DEF FullPath
<1>7. ASSUME NEW k \in 1 .. SrcLen PROVE FullPath[Len(windir) + k] = Source[k]
  <2>1. /\ Len(windir) + k \in 1 .. Len(windir) + Len(Source)
        /\ ~(Len(windir) + k <= Len(windir)) /\ (Len(windir) + k) - Len(windir) = k
    BY <1>4 DEF SrcLen
  <2> QED
    BY <2>1, <1>1, <1>4 DEF FullPath
<1> QED
  BY <1>1, <1>3, <1>4, <1>5, <1>6, <1>7

\* The word at res is the source's, and zero where the source ends.
LEMMA WordFacts ==
  ASSUME NEW b \in [0 .. 3 -> Beyond], res \in Nat, NEW k \in 0 .. 3
  PROVE  /\ Word(b)[k] \in Byte
         /\ res + k < SrcLen => Word(b)[k] = Source[res + k + 1] /\ Word(b)[k] \in 1 .. 255
         /\ res + k = SrcLen => Word(b)[k] = NUL
<1>1. res + k < SrcLen => Source[res + k + 1] \in 1 .. 255
  <2>1. SUFFICES ASSUME res + k < SrcLen PROVE Source[res + k + 1] \in 1 .. 255
    OBVIOUS
  <2>2. res + k + 1 \in 1 .. Len(Source) /\ Source \in Seq(1 .. 255)
    BY <2>1, SourceAssumption DEF SrcLen
  <2> QED
    BY <2>2, ElementOf
<1>2. b[k] \in Byte
  BY BeyondAssumption
<1> QED
  BY <1>1, <1>2 DEF Word, NUL, Byte

LEMMA CopiedByStrscat ==
  ASSUME PathInv, pc = <<"strscat">>, NEW at \in 0 .. PageBytes - 1, strscat(at), UNCHANGED <<pc, windir>>
  PROVE  CopiedInv'
<1>1. SUFFICES ASSUME Readable
      PROVE  /\ strpc' = "words" /\ dest' = Len(windir) /\ res' = 0
             /\ \A p \in 0 .. dest' + res' - 1 : buffer'[p] = FullPath[p + 1]
  <2>1. Readable' = Readable /\ FullPath' = FullPath /\ windir' = windir
    BY DEF Readable, FullPath
  <2>2. 0 <= SrcLen
    BY SizeFacts
  <2> QED
    BY <1>1, <2>1, <2>2 DEF CopiedInv
<1>2. PICK len \in 0 .. Top :
        /\ EndsAt(buffer, len) /\ dest' = len /\ res' = 0
        /\ strpc' = IF Room(len) <= 0 THEN "done" ELSE "words"
  BY DEF strscat
<1>3. buffer' = buffer /\ strpc = "ready"
  BY DEF strscat
<1>4. PICK m \in Stacks : buffer = Holding(m)
  BY <1>1, <1>3 DEF PathInv, LayoutInv
<1>5. len = Len(windir) /\ len < Size
  BY <1>1, <1>2, <1>4, EndOfWindir DEF PathInv, LayoutInv
<1>6. Room(len) \in Nat /\ Room(len) > 0
  <2>1. Size - len \in Nat /\ Size - len < SizeLimit /\ Size - len > 0
    BY <1>5, SizeFacts
  <2> QED
    BY <2>1, SizeFacts, ModSmall DEF Room
<1>7. windir \in Windirs \union {Unset} /\ windir # Unset
  BY <1>1 DEF PathInv, LayoutInv, Readable
<1>8. ASSUME NEW p \in 0 .. len - 1 PROVE buffer[p] = FullPath[p + 1]
  <2>1. p \in 0 .. Top /\ p < Len(windir) /\ p + 1 \in 1 .. Len(windir)
    BY <1>5, SizeFacts
  <2> QED
    BY <2>1, <1>4, <1>7, PathFacts DEF Holding
<1> QED
  <2>1. strpc' = "words" /\ dest' = Len(windir) /\ res' = 0
    BY <1>2, <1>5, <1>6, SizeFacts
  <2>2. len \in Nat
    BY SizeFacts
  <2>3. dest' + res' - 1 = len - 1
    BY <2>1, <2>2, <1>5
  <2> QED
    BY <2>1, <2>3, <1>3, <1>8

LEMMA NotZero == \A c \in 1 .. 255 : c # NUL
  BY DEF NUL

\* Memory in which path stands, and a zero behind it.
LEMMA PathStands ==
  ASSUME windir \in Windirs \union {Unset}, windir # Unset, NEW n \in 0 .. Len(FullPath),
         buffer'[n] = NUL, \A p \in 0 .. n - 1 : buffer'[p] = FullPath[p + 1], UNCHANGED windir
  PROVE  IsPath(n)'
<1>1. FullPath' = FullPath
  BY DEF FullPath
<1>2. ASSUME NEW p \in 0 .. n - 1 PROVE buffer'[p] # NUL
  <2>1. Len(FullPath) \in Nat
    BY PathFacts, SizeFacts
  <2>2. p + 1 \in 1 .. Len(FullPath)
    BY <2>1
  <2>3. FullPath[p + 1] \in 1 .. 255
    BY <2>2, PathFacts
  <2>4. buffer'[p] = FullPath[p + 1]
    OBVIOUS
  <2>5. FullPath[p + 1] # NUL
    BY <2>3, NotZero
  <2> QED
    BY <2>4, <2>5
<1> QED
  BY <1>1, <1>2 DEF IsPath, EndsAt

LEMMA CopiedByStrscpy ==
  ASSUME PathInv, CopiedInv, pc = <<"strscat">>, strscpy, UNCHANGED <<pc, windir>>
  PROVE  CopiedInv'
<1>1. SUFFICES ASSUME Readable PROVE CopiedInv'
  BY DEF CopiedInv, Readable
<1>2. /\ FullPath' = FullPath /\ Readable' = Readable /\ windir' = windir
      /\ windir \in Windirs \union {Unset} /\ windir # Unset /\ Len(windir) < Size
      /\ Fitting' = Fitting
  BY <1>1 DEF FullPath, Readable, PathInv, LayoutInv, Fitting
<1>3. /\ strpc \in {"words", "bytes"}
      /\ dest \in Nat /\ res \in Nat /\ count \in Nat
      /\ dest + res + count = Size
      /\ strpc = "words" => max <= count /\ max \in Nat
      /\ dest = Len(windir) /\ res <= SrcLen /\ dest < Size
  <2>1. strpc \in {"words", "bytes"}
    BY DEF strscpy, LastWord, CopyWord, EndOfWords, CopyByte, CutOff
  <2> QED
    BY <2>1, <1>1, <1>2 DEF PathInv, RoomInv, WordsInv, CopiedInv, EndedInside
<1>0. \A p \in 0 .. dest + res - 1 : buffer[p] = FullPath[p + 1]
  BY <1>1, <1>3 DEF CopiedInv
<1>4. /\ DOMAIN buffer = 0 .. Top /\ Len(FullPath) = dest + SrcLen
      /\ \A k \in 1 .. SrcLen : FullPath[dest + k] = Source[k]
  BY <1>2, <1>3, PathFacts DEF PathInv, LayoutInv
<1>5. CASE LastWord
  <2>1. PICK b \in [0 .. 3 -> Beyond], k \in 0 .. 3 :
          /\ IsFirstFlag(has_zero(Word(b)), k)
          /\ buffer' = WordStored([i \in 0 .. 3 |-> IF i < k THEN Word(b)[i] ELSE NUL])
          /\ res' = res + count_masked_bytes(create_zero_mask(k))
    BY <1>5 DEF LastWord
  <2>2. strpc = "words" /\ strpc' = "done" /\ dest' = dest /\ max >= 4
    BY <1>5 DEF LastWord, WordBytes
  <2>3. \A j \in 0 .. 3 : Word(b)[j] \in Byte
    BY <1>3, WordFacts
  <2>4. Word(b)[k] = NUL /\ \A j \in 0 .. k - 1 : Word(b)[j] # NUL
    BY <2>1, <2>3, FirstFlagIsZero
  <2>5. res + k = SrcLen
    <3>1. ASSUME res + k < SrcLen PROVE FALSE
      <4>1. Word(b)[k] \in 1 .. 255
        BY <3>1, <1>3, WordFacts
      <4> QED
        BY <4>1, <2>4 DEF NUL
    <3>2. ASSUME res + k > SrcLen PROVE FALSE
      <4>1. SrcLen - res \in 0 .. 3 /\ SrcLen - res \in 0 .. k - 1 /\ res + (SrcLen - res) = SrcLen
        BY <3>2, <1>3, SizeFacts
      <4>2. Word(b)[SrcLen - res] = NUL
        BY <4>1, <1>3, WordFacts
      <4> QED
        BY <4>1, <4>2, <2>4
    <3> QED
      BY <3>1, <3>2, <1>3, SizeFacts
  <2>6. res' = SrcLen
    BY <2>1, <2>5, CountedBytes
  <2>7. dest + SrcLen < Size /\ dest + SrcLen \in Nat /\ dest + SrcLen <= Top
    BY <2>2, <2>5, <1>3, SizeFacts
  <2> DEFINE w == [i \in 0 .. 3 |-> IF i < k THEN Word(b)[i] ELSE NUL]
  <2>8. buffer'[dest + SrcLen] = NUL
    <3>1. PICK p \in 0 .. Top : p = dest + SrcLen
      BY <2>7
    <3>2. p - dest - res = k
      BY <3>1, <2>5, <1>3, SizeFacts
    <3>3. buffer'[p] = w[k]
      BY <3>2, <2>1 DEF WordStored
    <3>4. w[k] = NUL
      OBVIOUS
    <3> QED
      BY <3>1, <3>3, <3>4
  <2>9. ASSUME NEW p \in 0 .. dest + SrcLen - 1 PROVE buffer'[p] = FullPath[p + 1]
    <3>1. p \in 0 .. Top
      BY <2>7, <1>3, SizeFacts
    <3>2. CASE p < dest + res
      <4>1. p - dest - res \notin 0 .. 3 /\ p \in 0 .. dest + res - 1
        BY <3>2, <1>3
      <4> QED
        BY <4>1, <3>1, <2>1, <1>0, <1>3 DEF WordStored
    <3>3. CASE ~(p < dest + res)
      <4> DEFINE j == p - dest - res
      <4>1. j \in 0 .. 3 /\ j < k /\ res + j < SrcLen /\ res + j + 1 \in 1 .. SrcLen
            /\ dest + (res + j + 1) = p + 1
        BY <3>3, <2>5, <1>3, SizeFacts
      <4>2. buffer'[p] = w[j]
        BY <4>1, <3>1, <2>1 DEF WordStored
      <4>3. w[j] = Word(b)[j]
        BY <4>1
      <4>4. Word(b)[j] = Source[res + j + 1]
        BY <4>1, <1>3, WordFacts
      <4> HIDE DEF j
      <4>5. FullPath[dest + (res + j + 1)] = Source[res + j + 1]
        BY <4>1, <1>4
      <4> QED
        BY <4>1, <4>2, <4>3, <4>4, <4>5
    <3> QED
      BY <3>2, <3>3
  <2>10. Fitting = dest + SrcLen /\ Fitting \in 0 .. Len(FullPath)
    BY <2>7, <1>3, <1>4, SizeFacts DEF Fitting
  <2>11. IsPath(dest + SrcLen)'
    <3> HIDE DEF w
    <3>1. PICK n \in 0 .. Len(FullPath) : n = dest + SrcLen
      BY <2>10
    <3>2. buffer'[n] = NUL
      BY <3>1, <2>8
    <3>4. \A p \in 0 .. n - 1 : buffer'[p] = FullPath[p + 1]
      <4>1. SUFFICES ASSUME NEW p \in 0 .. n - 1 PROVE buffer'[p] = FullPath[p + 1]
        OBVIOUS
      <4>2. p \in 0 .. dest + SrcLen - 1
        BY <3>1, <1>3, SizeFacts
      <4> QED
        BY <4>2, <2>9
    <3>3. IsPath(n)'
      BY <3>2, <3>4, <1>2, PathStands
    <3> QED
      BY <3>1, <3>3, <2>2 DEF SrcLen
  <2>12. IsPath(Fitting)'
    BY <2>10, <2>11, <2>2, <1>2 DEF SrcLen
  <2> QED
    BY <2>2, <2>6, <2>12, <1>2 DEF CopiedInv, SrcLen
<1>6. CASE CopyWord
  <2>1. PICK b \in [0 .. 3 -> Beyond] : has_zero(Word(b)) = {} /\ buffer' = WordStored(Word(b))
    BY <1>6 DEF CopyWord
  <2>2. strpc = "words" /\ max >= 4 /\ strpc' = "words" /\ dest' = dest /\ res' = res + 4
    BY <1>6 DEF CopyWord, WordBytes
  <2>3. ~(SrcLen - res \in 0 .. 3)
    <3>1. SUFFICES ASSUME SrcLen - res \in 0 .. 3 PROVE FALSE
      OBVIOUS
    <3>2. res + (SrcLen - res) = SrcLen
      BY <1>3, SizeFacts
    <3>3. Word(b)[SrcLen - res] = NUL
      BY <3>1, <3>2, <1>3, WordFacts
    <3> QED
      BY <3>1, <3>3, <2>1, NoZeros
  <2>4. res + 4 <= SrcLen
    BY <2>3, <1>3, SizeFacts
  <2>5. ASSUME NEW p \in 0 .. dest + res + 3 PROVE buffer'[p] = FullPath[p + 1]
    <3>1. p \in 0 .. Top
      BY <2>2, <1>3, SizeFacts
    <3>2. CASE p < dest + res
      <4>1. p - dest - res \notin 0 .. 3 /\ p \in 0 .. dest + res - 1
        BY <3>2, <1>3
      <4> QED
        BY <4>1, <3>1, <2>1, <1>0, <1>3 DEF WordStored
    <3>3. CASE ~(p < dest + res)
      <4> DEFINE j == p - dest - res
      <4>1. j \in 0 .. 3 /\ res + j < SrcLen /\ res + j + 1 \in 1 .. SrcLen
            /\ dest + (res + j + 1) = p + 1
        BY <3>3, <2>4, <1>3, SizeFacts
      <4>2. buffer'[p] = Word(b)[j]
        BY <4>1, <3>1, <2>1 DEF WordStored
      <4>3. Word(b)[j] = Source[res + j + 1]
        BY <4>1, <1>3, WordFacts
      <4> HIDE DEF j
      <4>4. FullPath[dest + (res + j + 1)] = Source[res + j + 1]
        BY <4>1, <1>4
      <4> QED
        BY <4>1, <4>2, <4>3, <4>4
    <3> QED
      BY <3>2, <3>3
  <2>6. dest' + res' - 1 = dest + res + 3
    BY <2>2, <1>3
  <2> QED
    BY <2>2, <2>4, <2>5, <2>6, <1>2, <1>0, <1>3 DEF CopiedInv, SrcLen
<1>7. CASE EndOfWords
  <2>1. strpc' = "bytes" /\ UNCHANGED <<buffer, dest, res>>
    BY <1>7 DEF EndOfWords
  <2> QED
    BY <2>1, <1>0, <1>2, <1>3 DEF CopiedInv, SrcLen
<1>8. CASE CopyByte
  <2>1. /\ strpc = "bytes" /\ count > 0 /\ dest' = dest
        /\ buffer' = [buffer EXCEPT ![dest + res] = IF res < SrcLen THEN Source[res + 1] ELSE NUL]
    BY <1>8 DEF CopyByte
  <2>2. /\ dest + res \in 0 .. Top
        /\ buffer'[dest + res] = IF res < SrcLen THEN Source[res + 1] ELSE NUL
    BY <2>1, <1>3, <1>4, SizeFacts
  <2>3. ASSUME NEW p \in 0 .. dest + res - 1 PROVE buffer'[p] = FullPath[p + 1]
    <3>1. p \in 0 .. Top /\ p # dest + res
      BY <2>2, <1>3, SizeFacts
    <3> QED
      BY <3>1, <2>1, <1>0, <1>4
  <2>4. CASE res < SrcLen
    <3>1. res + 1 \in 1 .. SrcLen
      BY <2>4, <1>3, SizeFacts
    <3>2. Source[res + 1] \in 1 .. 255
      BY <3>1, SourceAssumption, ElementOf DEF SrcLen
    <3>3. strpc' = "bytes" /\ res' = res + 1
      BY <3>2, <2>1, <2>4, <1>8 DEF CopyByte, NUL
    <3>4. FullPath[dest + res + 1] = Source[res + 1]
      <4>1. FullPath[dest + (res + 1)] = Source[res + 1]
        BY <3>1, <1>4
      <4>2. dest + (res + 1) = dest + res + 1
        BY <1>3
      <4> QED
        BY <4>1, <4>2
    <3>5. ASSUME NEW p \in 0 .. dest' + res' - 1 PROVE buffer'[p] = FullPath[p + 1]
      <4>1. p \in 0 .. dest + res - 1 \/ p = dest + res
        BY <3>3, <2>1, <1>3, SizeFacts
      <4> QED
        BY <4>1, <3>4, <2>2, <2>3, <2>4
    <3>6. res' <= SrcLen
      BY <3>1, <3>3
    <3> QED
      BY <3>3, <3>5, <3>6, <2>1, <1>2, <1>3 DEF CopiedInv, SrcLen
  <2>5. CASE ~(res < SrcLen)
    <3>1. res = SrcLen /\ strpc' = "done" /\ res' = res /\ buffer'[dest + res] = NUL
      BY <2>2, <2>5, <1>3, <1>8, SizeFacts DEF CopyByte
    <3>2. Fitting = dest + res /\ dest + res \in 0 .. Len(FullPath)
      BY <3>1, <2>1, <1>3, <1>4, SizeFacts DEF Fitting
    <3>3. PICK n \in 0 .. Len(FullPath) : n = dest + res
      BY <3>2
    <3>6. buffer'[n] = NUL
      BY <3>1, <3>3
    <3>7. \A p \in 0 .. n - 1 : buffer'[p] = FullPath[p + 1]
      <4>1. SUFFICES ASSUME NEW p \in 0 .. n - 1 PROVE buffer'[p] = FullPath[p + 1]
        OBVIOUS
      <4>2. p \in 0 .. dest + res - 1
        BY <3>3, <1>3
      <4> QED
        BY <4>2, <2>3
    <3>4. IsPath(n)'
      BY <3>6, <3>7, <1>2, PathStands
    <3>5. IsPath(Fitting)'
      BY <3>1, <3>2, <3>3, <3>4, <2>1, <1>2
    <3> QED
      BY <3>1, <3>5, <1>2 DEF CopiedInv, SrcLen
  <2> QED
    BY <2>4, <2>5
<1>9. CASE CutOff
  <2>1. /\ count = 0 /\ strpc' = "done"
        /\ buffer' = IF res > 0 THEN [buffer EXCEPT ![dest + res - 1] = NUL] ELSE buffer
    BY <1>9 DEF CutOff
  <2>2. dest + res = Size /\ res > 0 /\ Len(FullPath) >= Size
    BY <2>1, <1>3, <1>4, SizeFacts
  <2>3. /\ Size - 1 \in 0 .. Top /\ Size - 1 \in 0 .. Len(FullPath)
        /\ Fitting = Size - 1 /\ Fitting # Len(FullPath)
    BY <2>2, <1>3, <1>4, SizeFacts DEF Fitting
  <2>4. buffer' = [buffer EXCEPT ![Size - 1] = NUL]
    <3>1. dest + res - 1 = Size - 1
      BY <2>2, <1>3, SizeFacts
    <3> QED
      BY <3>1, <2>1, <2>2
  <2>5. buffer'[Size - 1] = NUL
    BY <2>3, <2>4, <1>4
  <2>6. ASSUME NEW p \in 0 .. (Size - 1) - 1 PROVE buffer'[p] = FullPath[p + 1]
    <3>1. p \in 0 .. dest + res - 1 /\ p # Size - 1 /\ p \in 0 .. Top
      BY <2>2, <1>3, SizeFacts
    <3> QED
      BY <3>1, <2>4, <1>0, <1>4
  <2>7. PICK n \in 0 .. Len(FullPath) : n = Size - 1
    BY <2>3
  <2>10. buffer'[n] = NUL /\ \A p \in 0 .. n - 1 : buffer'[p] = FullPath[p + 1]
    BY <2>5, <2>6, <2>7
  <2>8. IsPath(n)'
    BY <2>10, <1>2, PathStands
  <2>9. IsPath(Fitting)'
    BY <2>3, <2>7, <2>8, <1>2
  <2> QED
    BY <2>1, <2>3, <2>9, <1>2 DEF CopiedInv
<1> QED
  BY <1>5, <1>6, <1>7, <1>8, <1>9 DEF strscpy

\* Nothing else touches what was copied, or DllPath is not finished.
LEMMA CopiedStep ==
  ASSUME PathInv, CopiedInv, [Next]_vars
  PROVE  CopiedInv'
<1>1. windir' = windir
  BY DEF Next, LoadDll, Game, GetEnvironmentVariable, BuildPath, LoadLibrary, Overrun, SettingsInit,
         HookLibraryFunctions, CallLibrary, LibraryWorks, LibraryReturns, StartProgram,
         StartCommandLine, StartUp, CallForwarded, FreeLibrary, env, vars
<1>2. CASE BuildPath
  <2>1. /\ pc = <<"strscat">> /\ UNCHANGED <<pc, windir>>
        /\ (\E at \in 0 .. PageBytes - 1 : strscat(at)) \/ strscpy
    BY <1>2 DEF BuildPath, env
  <2> QED
    BY <2>1, CopiedByStrscat, CopiedByStrscpy
<1>3. CASE strpc' = "ready"
  BY <1>3 DEF CopiedInv
<1>4. CASE UNCHANGED strvars
  <2>1. /\ Readable' = Readable /\ FullPath' = FullPath /\ Fitting' = Fitting
        /\ UNCHANGED <<buffer, strpc, dest, res>>
    BY <1>1, <1>4 DEF Readable, FullPath, Fitting, strvars
  <2>2. IsPath(Fitting)' = IsPath(Fitting)
    BY <2>1 DEF IsPath, EndsAt
  <2> QED
    BY <2>1, <2>2, <1>1 DEF CopiedInv
<1>5. GetEnvironmentVariable \/ LoadLibrary => strpc' = "ready"
  BY DEF GetEnvironmentVariable, LoadLibrary, PathInv, LayoutInv
<1>6. Overrun \/ SettingsInit \/ HookLibraryFunctions \/ LibraryWorks => UNCHANGED strvars
  BY DEF Overrun, SettingsInit, HookLibraryFunctions, LibraryWorks
<1>7. \A stage \in Stages, op \in Calls :
        CallLibrary(stage, op) \/ LibraryReturns(stage, op) => UNCHANGED strvars
  BY DEF CallLibrary, LibraryReturns
<1>8. Game => UNCHANGED strvars
  BY DEF Game, StartProgram, StartCommandLine, StartUp, CallForwarded, FreeLibrary
<1>9. UNCHANGED vars => UNCHANGED strvars
  BY DEF vars
<1> QED
  BY <1>2, <1>3, <1>4, <1>5, <1>6, <1>7, <1>8, <1>9 DEF Next, LoadDll

LEMMA InitCopied == Init => CopiedInv
<1>1. Init => strpc = "ready"
  BY DEF Init, StrInit
<1> QED
  BY <1>1 DEF CopiedInv

(***************************************************************************)
(* DllPath holds as much of windir and the library's name as it has room   *)
(* for, and ends there: the first byte has_zero flags is the string's end, *)
(* whatever lies behind it, count_masked_bytes counts up to it, and what   *)
(* is cut off is cut off at the last byte (strscpy, format.cc).            *)
(***************************************************************************)
THEOREM PathAlwaysFits == Spec => []PathFits
<1>1. PathInv /\ CopiedInv /\ [Next]_vars => CopiedInv'
  BY CopiedStep
<1>2. CopiedInv => PathFits
  BY DEF CopiedInv, PathFits
<1> QED
  BY <1>1, <1>2, InitCopied, PathInvariant, PTL DEF Spec

-------------------------------------------------------------------------------
(***************************************************************************)
(* The forwarded functions.                                                *)
(***************************************************************************)
\* The library is there and its path has room.
Located == installed /\ windir # Unset /\ Len(FullPath) < Size

Building == {<<"GetEnvironmentVariable">>, <<"strscat">>}
Resolving == {<<"Settings">>, <<"HookLibraryFunctions">>}

\* From LoadLibrary to the end it is the one that is loaded, and from
\* HookLibraryFunctions on each function has its address.
ForwardInv ==
  Located =>
    /\ pc \notin Building \union {<<"detached">>} => hDll = "real"
    /\ pc \notin Building \union Resolving \union {<<"detached">>} => resolved = Forwarded
    /\ crashed # "forward"

LEMMA ForwardStep ==
  ASSUME PathInv, CopiedInv, ForwardInv, [Next]_vars
  PROVE  ForwardInv'
<1> SUFFICES ASSUME Located
             PROVE  /\ pc' \notin Building \union {<<"detached">>} => hDll' = "real"
                    /\ pc' \notin Building \union Resolving \union {<<"detached">>} =>
                         resolved' = Forwarded
                    /\ crashed' # "forward"
  <2>1. windir' = windir /\ installed' = installed
    BY DEF Next, LoadDll, Game, GetEnvironmentVariable, BuildPath, LoadLibrary, Overrun, SettingsInit,
           HookLibraryFunctions, CallLibrary, LibraryWorks, LibraryReturns, StartProgram,
           StartCommandLine, StartUp, CallForwarded, FreeLibrary, env, vars
  <2>2. Located' = Located
    BY <2>1 DEF Located, FullPath
  <2> QED
    BY <2>2 DEF ForwardInv
<1>1. /\ pc \notin Building \union {<<"detached">>} => hDll = "real"
      /\ pc \notin Building \union Resolving \union {<<"detached">>} => resolved = Forwarded
      /\ crashed # "forward"
  BY DEF ForwardInv
<1>2. CASE GetEnvironmentVariable \/ BuildPath
  BY <1>1, <1>2 DEF GetEnvironmentVariable, BuildPath, Building, gamevars
<1>3. CASE LoadLibrary
  <2>1. windir \in Windirs \union {Unset} /\ windir # Unset /\ strpc = "done"
    BY <1>3 DEF LoadLibrary, PathInv, LayoutInv, Located
  <2>2. Readable /\ Fitting = Len(FullPath)
    BY <2>1, PathFacts, SizeFacts DEF Readable, Fitting, Located
  <2>3. IsPath(Len(FullPath))
    BY <2>1, <2>2 DEF CopiedInv
  <2>4. hDll' = "real" /\ pc' = <<"Settings">> /\ crashed' = crashed
    BY <2>1, <2>3, <1>3 DEF LoadLibrary, Located, gamevars
  <2> QED
    BY <2>4, <1>1 DEF Resolving
<1>4. CASE Overrun
  BY <1>1, <1>4 DEF Overrun
<1>5. CASE SettingsInit
  <2>1. pc = <<"Settings">> /\ pc' = <<"HookLibraryFunctions">> /\ UNCHANGED <<hDll, crashed>>
    BY <1>5 DEF SettingsInit, gamevars
  <2>2. hDll = "real"
    BY <2>1, <1>1 DEF Building
  <2> QED
    BY <2>1, <2>2, <1>1 DEF Resolving
<1>6. CASE HookLibraryFunctions
  <2>1. pc = <<"HookLibraryFunctions">> /\ UNCHANGED <<hDll, crashed>>
    BY <1>6 DEF HookLibraryFunctions, gamevars
  <2>2. hDll = "real"
    BY <2>1, <1>1 DEF Building
  <2>3. resolved' = Forwarded
    BY <2>2, <1>6 DEF HookLibraryFunctions
  <2> QED
    BY <2>1, <2>2, <2>3, <1>1
<1>7. ASSUME NEW stage \in Stages, NEW op \in Calls, CallLibrary(stage, op)
      PROVE  UNCHANGED <<pc, hDll, resolved, crashed>>
  BY <1>7 DEF CallLibrary, gamevars
<1>8. ASSUME NEW stage \in Stages, NEW op \in Calls, LibraryReturns(stage, op)
      PROVE  hDll' = "real" /\ resolved' = Forwarded /\ crashed' # "forward"
  <2>1. pc = <<stage, op>> /\ UNCHANGED <<hDll, resolved, crashed>>
    BY <1>8 DEF LibraryReturns, gamevars
  <2>2. pc \notin Building \union Resolving \union {<<"detached">>}
    BY <2>1, Places DEF Building, Resolving
  <2> QED
    BY <2>1, <2>2, <1>1
<1>9. CASE LibraryWorks
  BY <1>1, <1>9 DEF LibraryWorks, gamevars
<1>10. CASE Game
  <2>1. pc = <<"running">>
    BY <1>10 DEF Game, Running, StartProgram, StartCommandLine, StartUp, CallForwarded, FreeLibrary
  <2>2. pc \notin Building \union Resolving \union {<<"detached">>}
    BY <2>1 DEF Building, Resolving
  <2>3. hDll = "real" /\ resolved = Forwarded
    BY <2>2, <1>1
  <2>4. CASE FreeLibrary
    BY <2>4, <1>1 DEF FreeLibrary, gamevars
  <2>5. CASE ~FreeLibrary
    <3>1. UNCHANGED <<pc, hDll, resolved>>
      BY <2>5, <1>10 DEF Game, StartProgram, StartCommandLine, StartUp, CallForwarded
    <3>2. ASSUME NEW f \in Forwarded, CallForwarded(f) PROVE crashed' # "forward"
      BY <3>2, <2>3 DEF CallForwarded
    <3>3. ASSUME NEW p \in Program, StartProgram(p) PROVE crashed' # "forward"
      BY <3>3, <1>1 DEF StartProgram
    <3>4. StartCommandLine \/ StartUp => crashed' # "forward"
      BY <1>1 DEF StartCommandLine, StartUp
    <3> QED
      BY <3>1, <3>2, <3>3, <3>4, <2>3, <2>5, <1>10 DEF Game
  <2> QED
    BY <2>4, <2>5
<1>11. CASE UNCHANGED vars
  BY <1>1, <1>11 DEF vars, gamevars
<1> QED
  BY <1>1, <1>2, <1>3, <1>4, <1>5, <1>6, <1>7, <1>8, <1>9, <1>10, <1>11 DEF Next, LoadDll

(***************************************************************************)
(* A forwarded call works in every process whose windir leaves room for    *)
(* the library's name and whose library loads, whatever else of LoadDll    *)
(* fails and whatever the game does (LoadDll and HookLibraryFunctions).    *)
(***************************************************************************)
THEOREM ForwardingAlwaysWorks == Spec => []ForwardingWorks
<1>1. Init => ForwardInv
  BY DEF Init, ForwardInv, Building
<1>2. PathInv /\ CopiedInv /\ [Next]_vars => CopiedInv'
  BY CopiedStep
<1>3. PathInv /\ CopiedInv /\ ForwardInv /\ [Next]_vars => ForwardInv'
  BY ForwardStep
<1>4. ForwardInv => ForwardingWorks
  BY DEF ForwardInv, ForwardingWorks, Located
<1> QED
  BY <1>1, <1>2, <1>3, <1>4, InitCopied, PathInvariant, PTL DEF Spec
===============================================================================
