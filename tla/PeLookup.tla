-------------------------------- MODULE PeLookup --------------------------------
(***************************************************************************)
(* WinNT (nt.cc): the address of an exported function, and the slot of the *)
(* import table through which a module calls another.                      *)
(*                                                                         *)
(* A function is asked for as [by |-> "name" or "ordinal", of |-> n]; names *)
(* are numbers in the order of strcmp, whose answer is one of -1, 0 and 1  *)
(* in the C library of the build.  An export table is                      *)
(*   [base, names, ordinals, functions],                                   *)
(* its names ascending, with the index of each one's function, counted     *)
(* from 0.  A function is Nowhere, code, or forwarded to another module.   *)
(* An import has, besides, the rva of its name.                            *)
(*                                                                         *)
(* Windows loads the module a forward leads to; InternalGetProcAddress     *)
(* only looks among those that are loaded already.                         *)
(***************************************************************************)
EXTENDS Integers, Sequences

CONSTANTS
  Dll,          \* the modules there are
  AtStart,      \* those of them that are loaded when the lookups begin
  Missing,      \* one that there is not
  ExportTables, \* what [Dll -> tables] may be
  ImportTables, \* what the import table of the module itself may be
  Requests      \* what may be asked for

Nowhere == [is |-> "nowhere"]
Code(a) == [is |-> "code", at |-> a]
Forward(d, w) == [is |-> "forward", dll |-> d, want |-> w]
NULL == <<>>

ASSUME DllAssumption == AtStart \subseteq Dll /\ Missing \notin Dll
ASSUME TableAssumption ==
  \A t \in ExportTables : \A d \in Dll :
    /\ t[d].names \in Seq(Int) /\ t[d].ordinals \in Seq(Int) /\ t[d].base \in Int
    /\ Len(t[d].functions) \in Nat /\ DOMAIN t[d].functions = 1 .. Len(t[d].functions)
    /\ \A j, k \in DOMAIN t[d].names : j < k => t[d].names[j] < t[d].names[k]
    /\ Len(t[d].ordinals) = Len(t[d].names)
    /\ \A k \in DOMAIN t[d].functions :
         t[d].functions[k].is = "forward" => t[d].functions[k].want.of \in Int
ASSUME ImportAssumption ==
  \A im \in ImportTables :
    /\ Len(im) \in Nat /\ DOMAIN im = 1 .. Len(im)
    /\ \A k \in DOMAIN im :
         Len(im[k].thunks) \in Nat /\ DOMAIN im[k].thunks = 1 .. Len(im[k].thunks)
ASSUME RequestAssumption == \A r \in Requests : r.of \in Int

VARIABLES
  exports, imports,
  loaded,           \* the modules that are loaded
  request,            \* what was asked for: [op, dll, want] (history)
  pepc,             \* "idle", "search", "resolve", "walk", "done"
  dll, want,        \* of InternalGetProcAddress, which calls itself for a forward
  left_index, right_index, ordinal_index,
  target, descriptor, thunk,   \* of get_iat_entry
  result

pevars == <<exports, imports, loaded, request, pepc, dll, want, left_index, right_index,
            ordinal_index, target, descriptor, thunk, result>>
searchvars == <<dll, want, left_index, right_index, ordinal_index>>
walkvars   == <<target, descriptor, thunk>>

NoRequest == [by |-> "name", of |-> 0]

PeInit ==
  /\ exports \in ExportTables /\ imports \in ImportTables /\ loaded = AtStart
  /\ request = [op |-> "none", dll |-> Missing, want |-> NoRequest]
  /\ pepc = "idle" /\ dll = Missing /\ want = NoRequest
  /\ left_index = 0 /\ right_index = 0 /\ ordinal_index = -1
  /\ target = NULL /\ descriptor = 1 /\ thunk = 1 /\ result = NULL

-------------------------------------------------------------------------------
(***************************************************************************)
(* What GetProcAddress of Windows answers: the code at the end of the      *)
(* forwards, if they end.  Ordinal 0 is the name NULL, and refused.        *)
(***************************************************************************)
Entry(d, w) ==
  LET t == exports[d]
      at(index) == IF index \in 0 .. Len(t.functions) - 1 THEN t.functions[index + 1] ELSE Nowhere
  IN IF d \notin Dll THEN Nowhere
     ELSE IF w.by = "ordinal" THEN IF w.of = 0 THEN Nowhere ELSE at(w.of - t.base)
     ELSE IF \E k \in DOMAIN t.names : t.names[k] = w.of
       THEN at(t.ordinals[CHOOSE k \in DOMAIN t.names : t.names[k] = w.of])
       ELSE Nowhere

\* The forwards that are followed are the least set of them that goes on with the
\* forward that one of them leads to.
Forwards ==
  {e \in UNION {{exports[d].functions[k] : k \in DOMAIN exports[d].functions} : d \in Dll} :
     e.is = "forward"}
Followed(d, w) ==
  LET forwards == Forwards
      sets == {S \in SUBSET forwards :
                 /\ Entry(d, w) \in forwards => Entry(d, w) \in S
                 /\ \A f \in S : Entry(f.dll, f.want) \in forwards => Entry(f.dll, f.want) \in S}
  IN {f \in forwards : \A S \in sets : f \in S}
Reached(d, w) == {Entry(d, w)} \union {Entry(f.dll, f.want) : f \in Followed(d, w)}

GetProcAddress(d, w) ==
  LET code == {e \in Reached(d, w) : e.is = "code"}
  IN IF code = {} THEN NULL ELSE <<(CHOOSE e \in code : TRUE).at>>

\* The modules it has loaded by then.
Loading(d, w) == {f.dll : f \in Followed(d, w)} \intersect Dll

-------------------------------------------------------------------------------
(***************************************************************************)
(* InternalGetProcAddress.                                                 *)
(***************************************************************************)
\* A call: an ordinal is looked up at once, a name is searched for, and NULL, the
\* ordinal 0, is not found.
Called(d, w) ==
  /\ dll' = d /\ want' = w
  /\ left_index' = 0 /\ right_index' = Len(exports[d].names) - 1
  /\ IF w.by = "ordinal"
       THEN pepc' = "resolve" /\ ordinal_index' = IF w.of = 0 THEN -1 ELSE w.of - exports[d].base
       ELSE pepc' = "search" /\ ordinal_index' = -1

InternalGetProcAddress(d, w) ==
  /\ pepc \in {"idle", "done"}
  /\ request' = [op |-> "proc", dll |-> d, want |-> w]
  /\ Called(d, w)
  /\ target' = NULL /\ descriptor' = 1 /\ thunk' = 1 /\ result' = NULL
  /\ UNCHANGED <<exports, imports, loaded>>

MoreNamesStrict == left_index < right_index
MoreNames == left_index <= right_index

AboveStuck(cur) == cur
Above(cur) == cur + 1

CompareName ==
  /\ pepc = "search" /\ MoreNames
  /\ LET cur == (left_index + right_index) \div 2
         name == exports[dll].names[cur + 1]
     IN \/ /\ name = want.of
           /\ ordinal_index' = exports[dll].ordinals[cur + 1]
           /\ left_index' = right_index + 1 /\ UNCHANGED right_index
        \/ name > want.of /\ right_index' = cur - 1 /\ UNCHANGED <<left_index, ordinal_index>>
        \/ name < want.of /\ left_index' = Above(cur) /\ UNCHANGED <<right_index, ordinal_index>>
  /\ UNCHANGED <<exports, imports, loaded, request, pepc, dll, want, walkvars, result>>

NameSearched ==
  /\ pepc = "search" /\ ~MoreNames
  /\ pepc' = "resolve"
  /\ UNCHANGED <<exports, imports, loaded, request, searchvars, walkvars, result>>

\* ordinal_index is unsigned: below the first it is far behind the last.
Resolved ==
  LET fs == exports[dll].functions
  IN IF ordinal_index \in 0 .. Len(fs) - 1 THEN fs[ordinal_index + 1] ELSE Nowhere

ReturnAddress ==
  /\ pepc = "resolve" /\ (Resolved.is = "forward" => Resolved.dll \notin loaded)
  /\ result' = IF Resolved.is = "code" THEN <<Resolved.at>> ELSE NULL
  /\ pepc' = "done"
  /\ UNCHANGED <<exports, imports, loaded, request, searchvars, walkvars>>

FollowForward ==
  /\ pepc = "resolve" /\ Resolved.is = "forward" /\ Resolved.dll \in loaded
  /\ Called(Resolved.dll, Resolved.want)
  /\ UNCHANGED <<exports, imports, loaded, request, walkvars, result>>

-------------------------------------------------------------------------------
(***************************************************************************)
(* get_iat_entry: the imports of each descriptor with the module's name.   *)
(* It asks Windows, which loads what the function is forwarded to.         *)
(***************************************************************************)
get_iat_entry(d, w) ==
  /\ pepc \in {"idle", "done"}
  /\ request' = [op |-> "iat", dll |-> d, want |-> w]
  /\ IF d \notin loaded
       THEN pepc' = "done" /\ target' = NULL /\ UNCHANGED loaded
       ELSE /\ target' = GetProcAddress(d, w)
            /\ loaded' = loaded \union Loading(d, w)
            /\ pepc' = IF GetProcAddress(d, w) = NULL THEN "done" ELSE "walk"
  /\ descriptor' = 1 /\ thunk' = 1 /\ result' = NULL
  /\ dll' = Missing /\ want' = NoRequest
  /\ left_index' = 0 /\ right_index' = 0 /\ ordinal_index' = -1
  /\ UNCHANGED <<exports, imports>>

NextThunkKept == thunk
NextThunk == 1

NextDescriptor ==
  /\ pepc = "walk" /\ descriptor <= Len(imports)
  /\ imports[descriptor].dll # request.dll \/ thunk > Len(imports[descriptor].thunks)
  /\ descriptor' = descriptor + 1 /\ thunk' = NextThunk
  /\ UNCHANGED <<exports, imports, loaded, request, pepc, searchvars, target, result>>

\* An import by name is taken for one by ordinal: the number is its name's rva,
\* and with a number too large for an ordinal the loop stays where it is.
ordinal_number(x) == IF x.by = "ordinal" THEN x.of ELSE x.rva

CompareThunk ==
  /\ pepc = "walk" /\ descriptor <= Len(imports)
  /\ imports[descriptor].dll = request.dll /\ thunk <= Len(imports[descriptor].thunks)
  /\ LET n == ordinal_number(imports[descriptor].thunks[thunk])
         w == [by |-> "ordinal", of |-> n]
         found == GetProcAddress(request.dll, w) = target
     IN \/ n > 65535 /\ UNCHANGED <<pepc, result, thunk, loaded>>
        \/ /\ n <= 65535 /\ loaded' = loaded \union Loading(request.dll, w)
           /\ \/ found /\ pepc' = "done" /\ result' = <<descriptor, thunk>> /\ UNCHANGED thunk
              \/ ~found /\ thunk' = thunk + 1 /\ UNCHANGED <<pepc, result>>
  /\ UNCHANGED <<exports, imports, request, searchvars, target, descriptor>>

EndOfImports ==
  /\ pepc = "walk" /\ descriptor > Len(imports)
  /\ pepc' = "done"
  /\ UNCHANGED <<exports, imports, loaded, request, searchvars, walkvars, result>>

Lookup ==
  \/ CompareName \/ NameSearched \/ ReturnAddress \/ FollowForward
  \/ NextDescriptor \/ CompareThunk \/ EndOfImports

PeNext ==
  \/ \E d \in loaded, w \in Requests : InternalGetProcAddress(d, w)
  \/ \E d \in Dll \union {Missing}, w \in {r \in Requests : r.by = "name"} : get_iat_entry(d, w)
  \/ Lookup

PeSpec == PeInit /\ [][PeNext]_pevars

-------------------------------------------------------------------------------
(***************************************************************************)
(* A function is found by name or ordinal exactly if Windows finds it, at  *)
(* the same address, through however many forwards, as long as these lead  *)
(* to modules that are loaded.  Where Windows would have to load one, and  *)
(* GetModuleHandleA at nt.cc:254 does not, there is no answer, and never   *)
(* another function (InternalGetProcAddress).                              *)
(***************************************************************************)
ExportFound ==
  LET answer == GetProcAddress(request.dll, request.want) IN
  pepc = "done" /\ request.op = "proc" =>
    IF Loading(request.dll, request.want) \subseteq loaded THEN result = answer
    ELSE result \in {NULL, answer}

\* Does the module import from the one asked for by ordinal only?
ByOrdinal ==
  \A k \in DOMAIN imports : imports[k].dll = request.dll =>
    \A x \in DOMAIN imports[k].thunks : imports[k].thunks[x].by = "ordinal"

(***************************************************************************)
(* In a module that imports by ordinal, get_iat_entry finds the slot the   *)
(* function is called through, whatever descriptor it is in, and none for  *)
(* a function that is not imported.                                        *)
(***************************************************************************)
ImportFound ==
  LET means(k, x) == GetProcAddress(imports[k].dll, imports[k].thunks[x]) IN
  pepc = "done" /\ request.op = "iat" /\ ByOrdinal =>
    IF result # NULL
      THEN imports[result[1]].dll = request.dll /\ means(result[1], result[2]) = target
      ELSE target # NULL =>
             \A k \in DOMAIN imports : imports[k].dll = request.dll =>
               \A x \in DOMAIN imports[k].thunks : means(k, x) # target

(***************************************************************************)
(* A lookup ends, unless forwards go round in a circle, or the walk meets  *)
(* a name: "continue" does not go on to the next import (nt.cc:299).       *)
(***************************************************************************)
LookupEnds ==
  request.op # "none" /\ ByOrdinal /\ (\E e \in Reached(request.dll, request.want) : e.is # "forward")
    ~> pepc = "done"
===============================================================================
