-------------------------------- MODULE Settings --------------------------------
(***************************************************************************)
(* The settings over the launches of the game, and the redirection of host *)
(* names they configure (settings.cc and gethostbyname in wsock32.cc).     *)
(*                                                                         *)
(* A launch that finds no configuration file writes one, entry by entry,   *)
(* and then reads the file.  The file is written with                      *)
(* WritePrivateProfileString under a name without a folder, and so to the  *)
(* Windows folder, while it is looked for and read in the game's folder:   *)
(* the user has to move it.  The process may end between any two steps.    *)
(***************************************************************************)
EXTENDS Ini

CONSTANTS
  UserFiles,    \* what the user may write into the game's folder
  NoFile,
  OtherNames    \* host names that are not official servers

(***************************************************************************)
(* The tables of the code: the names the redirection recognises, the       *)
(* addresses missing entries stand for, the settings before any file is    *)
(* read, and the entries of a new file.                                    *)
(***************************************************************************)
Urls == {"redirect.us", "redirect.jp", "redirect.ep4", "redirect.cn"}
          \X {"patch_server", "game_server"}

Official ==
  [u \in Urls |->
     CASE u = <<"redirect.us",  "patch_server">> -> <<"patch01.us.segaonline.jp">>
       [] u = <<"redirect.us",  "game_server">>  -> <<"game01.us.segaonline.jp">>
       [] u = <<"redirect.jp",  "patch_server">> -> <<"patch01.psobb.segaonline.jp">>
       [] u = <<"redirect.jp",  "game_server">>  -> <<"game01.psobb.segaonline.jp">>
       [] u = <<"redirect.ep4", "patch_server">> -> <<"psobb-ep4-patch.segaonline.jp">>
       [] u = <<"redirect.ep4", "game_server">>  -> <<"psobb-ep4-db.segaonline.jp">>
       [] u = <<"redirect.cn",  "patch_server">> -> <<"patch.psobb.cn">>
       [] u = <<"redirect.cn",  "game_server">>  -> <<"db.psobb.cn">>]

\* The defaults of ReadString are the official names, entry by entry.
DefaultUrl == [u \in Urls |-> Official[u]]

Initial ==
  [gameguard |-> FALSE, redirect |-> FALSE, episode4 |-> FALSE, noIME |-> FALSE,
   language |-> 1, url |-> [u \in Urls |-> Official[u]]]

\* In the order they are written, as <<section, key, value>>.
NewOptions == <<
  <<"patches", "gameguard", <<Space, "False">>>>,
  <<"patches", "redirect", <<Space, "False">>>>,
  <<"patches", "episode4_mode", <<Space, "False">>>>,
  <<"patches", "client_language", <<Space, "1">>>>,
  <<"patches", "enable_direct_input", <<Space, "False">>>>>>

NewUrlsShifted ==
  LET Pair(s, t) == << <<s, "patch_server", Official[<<t, "patch_server">>]>>,
                       <<s, "game_server", Official[<<t, "game_server">>]>> >>
  IN Pair("redirect.us", "redirect.us") \o Pair("redirect.jp", "redirect.jp")
       \o Pair("redirect.cn", "redirect.ep4") \o Pair("redirect.ep4", "redirect.cn")
NewUrls ==
  LET Pair(s) == << <<s, "patch_server", Official[<<s, "patch_server">>]>>,
                    <<s, "game_server", Official[<<s, "game_server">>]>> >>
  IN Pair("redirect.us") \o Pair("redirect.jp")
       \o Pair("redirect.cn") \o Pair("redirect.ep4")

NewEntries == NewOptions \o NewUrls

-------------------------------------------------------------------------------
(***************************************************************************)
(* LoadConfigurationFile: the settings in memory, as a function of a file. *)
(***************************************************************************)
Clamped(language) == IF language \in 0 .. 7 THEN language ELSE 1

Loaded(file) ==
  LET data == Parsed(file)
      Option(k) == ReadBoolean(data, <<"patches", k>>, FALSE)
  IN [gameguard |-> Option("gameguard"),
      redirect  |-> Option("redirect"),
      episode4  |-> Option("episode4_mode"),
      noIME     |-> Option("enable_direct_input"),
      language  |-> Clamped(ReadInteger(data, <<"patches", "client_language">>, 1)),
      url       |-> [u \in Urls |-> ReadString(data, u, DefaultUrl[u])]]

\* The host name _gethostbyname passes on for a name: every official name has
\* one entry, looked up by the name it was given; other names leave the buffer empty.
ForwardedChained(mem, name) ==
  LET Listed(x) == \E u \in Urls : Official[u] = x
      To(x) == IF Listed(x) THEN mem.url[CHOOSE u \in Urls : Official[u] = x] ELSE x
  IN IF ~mem.redirect THEN name ELSE IF Listed(name) THEN To(To(name)) ELSE <<>>
Forwarded(mem, name) ==
  IF ~mem.redirect THEN name
  ELSE IF \E u \in Urls : Official[u] = name
    THEN mem.url[CHOOSE u \in Urls : Official[u] = name]
    ELSE <<>>

-------------------------------------------------------------------------------
VARIABLES
  file,      \* psobb.cfg in the game's folder, or NoFile
  created,   \* how many of NewEntries the file in the Windows folder has
  phase,     \* "off", "create", "load" or "running"
  n,         \* the entry CreateNewConfigFile is at
  settings,  \* in memory
  byUser,    \* has the user written the file himself? (history)
  readFrom,  \* the file the running settings came from (history)
  lookup     \* the last name looked up, and the name passed on

vars == <<file, created, phase, n, settings, byUser, readFrom, lookup>>

NoLookup == [name |-> <<>>, sent |-> <<>>]

\* A file that is not there reads as one with nothing in it.
Contents(f) == IF f = NoFile THEN <<>> ELSE f

\* The file made of the first m new entries.
NewFile(m) ==
  LET Lines(i) ==
        LET e == NewEntries[i]
            entry == <<Entry(e[2], e[3])>>
        IN IF i = 1 \/ NewEntries[i - 1][1] # e[1]
             THEN <<SectionLine(e[1])>> \o entry ELSE entry
  IN FlattenSeq([i \in 1 .. m |-> Lines(i)])

ASSUME FilesAssumption ==
  NoFile \notin UserFiles /\ <<>> \in UserFiles /\ UserFiles \subseteq Seq(Seq(STRING))
ASSUME NamesAssumption ==
  \A name \in OtherNames : name # <<>> /\ \A u \in Urls : Official[u] # name

Init ==
  /\ file = NoFile /\ created = 0
  /\ phase = "off" /\ n = 1
  /\ settings = Initial
  /\ byUser = FALSE /\ readFrom = <<>>
  /\ lookup = NoLookup

\* Settings::Init.
Launch ==
  /\ phase = "off"
  /\ phase' = IF file = NoFile THEN "create" ELSE "load"
  /\ n' = 1
  /\ UNCHANGED <<file, created, settings, byUser, readFrom, lookup>>

\* One WritePrivateProfileString: an entry that is there is written again in
\* its place.  The Windows folder may refuse the write, and nobody asks.
CreateNewConfigFile ==
  /\ phase = "create" /\ n <= Len(NewEntries)
  /\ \/ created' = IF n > created THEN n ELSE created
     \/ created = 0 /\ created' = 0
  /\ n' = IF created' = 0 THEN Len(NewEntries) + 1 ELSE n + 1
  /\ UNCHANGED <<file, phase, settings, byUser, readFrom, lookup>>

Created ==
  /\ phase = "create" /\ n > Len(NewEntries)
  /\ phase' = "load"
  /\ UNCHANGED <<file, created, n, settings, byUser, readFrom, lookup>>

LoadConfigurationFile ==
  /\ phase = "load"
  /\ settings' = Loaded(Contents(file))
  /\ readFrom' = Contents(file)
  /\ phase' = "running"
  /\ UNCHANGED <<file, created, n, byUser, lookup>>

GetHostByName(name) ==
  /\ phase = "running"
  /\ lookup' = [name |-> name, sent |-> Forwarded(settings, name)]
  /\ UNCHANGED <<file, created, phase, n, settings, byUser, readFrom>>

\* The process ends, by itself or not, and its memory with it.
Exit ==
  /\ phase # "off"
  /\ phase' = "off" /\ n' = 1
  /\ settings' = Initial /\ readFrom' = <<>>
  /\ lookup' = NoLookup
  /\ UNCHANGED <<file, created, byUser>>

\* The user saves the file, at any time ...
UserEdits ==
  /\ file' \in UserFiles \union {NoFile}
  /\ byUser' = TRUE
  /\ UNCHANGED <<created, phase, n, settings, readFrom, lookup>>

\* ... or finds the one in the Windows folder and copies it.
UserCopies ==
  /\ created > 0 /\ ~byUser
  /\ file' = NewFile(created)
  /\ UNCHANGED <<created, phase, n, settings, byUser, readFrom, lookup>>

Names == {Official[u] : u \in Urls} \union OtherNames

Next ==
  \/ Launch
  \/ CreateNewConfigFile \/ Created
  \/ LoadConfigurationFile
  \/ \E name \in Names : GetHostByName(name)
  \/ Exit
  \/ UserEdits \/ UserCopies

Spec == Init /\ [][Next]_vars

-------------------------------------------------------------------------------
(***************************************************************************)
(* Properties.                                                             *)
(***************************************************************************)
(***************************************************************************)
(* What a file says, told by the text of its lines: a comment begins at    *)
(* the first sign for one, white space around what is left means nothing,  *)
(* and an entry counts for the section above it, wherever that is.  Of an  *)
(* entry that is there more than once the first value counts, and a key    *)
(* alone is an empty entry.  Nothing is said where there is no entry.      *)
(***************************************************************************)
Trimmed(s) ==
  LET words == {i \in DOMAIN s : s[i] \notin White \union {"BOM"}}
  IN IF words = {} THEN <<>> ELSE SubSeq(s, Min(words), Max(words))

Text(line) ==
  Trimmed(Before(line, Signs(line, Semicolon) \union Signs(line, "#") \union Slashes(line)))

IsSection(text) == text # <<>> /\ text[1] = "[" /\ text[Len(text)] = "]"

Name(text) == Trimmed(SubSeq(text, 2, Len(text) - 1))

Key(text) == Trimmed(Before(text, Signs(text, "=")))

Value(text) ==
  LET equals == Signs(text, "=")
  IN IF equals = {} THEN <<>> ELSE Trimmed(SubSeq(text, Min(equals) + 1, Len(text)))

Says(f, k) ==
  LET text == [i \in DOMAIN f |-> Text(f[i])]
      Under(i) == \E h \in 1 .. i - 1 :
        /\ IsSection(text[h]) /\ Name(text[h]) = <<k[1]>>
        /\ \A j \in h + 1 .. i : ~IsSection(text[j])
      Giving == {i \in DOMAIN f : Key(text[i]) = <<k[2]>> /\ Under(i)}
  IN {Value(text[i]) : i \in {j \in Giving : \A h \in Giving : j <= h}}

\* Of two comments with slashes in one line the parser keeps the first, and a
\* byte order mark it leaves where it is, but at the beginning of a line.
Regular(line) ==
  /\ \A a, b \in Slashes(line) : a = b
  /\ Signs(line, "BOM") \subseteq {1}

(***************************************************************************)
(* Until the user writes a file of his own, the game runs as if the mod    *)
(* had no configuration: the values in memory, the defaults of the reader  *)
(* and the entries CreateNewConfigFile writes agree, in whatever order     *)
(* each lists them, and a process that ends half way through creating the  *)
(* file leaves one that still means the same.                              *)
(***************************************************************************)
UntouchedMeansDefaults ==
  phase = "running" /\ ~byUser => settings = Initial

(***************************************************************************)
(* A name is passed on as the file read at launch says, its comments left  *)
(* out: untouched unless redirection is asked for; to the address the      *)
(* first of its own entries gives, though that may be another official     *)
(* name; to itself exactly when there is no entry with an address; and     *)
(* never to where an edit since the launch points.  A name that is no      *)
(* official one is replaced by the empty name.                             *)
(***************************************************************************)
Unquoted(v) ==
  LET Ends(i) == v # <<>> /\ v[i] \in Quote
  IN SubSeq(v, IF Ends(1) THEN 2 ELSE 1, IF Ends(Len(v)) THEN Len(v) - 1 ELSE Len(v))

Addresses(f, u) ==
  {Unquoted(v) : v \in {w \in Says(f, u) : w # <<>> /\ ~(Len(w) = 1 /\ w[1] \in Quote)}}

LookupObeysFile ==
  LET on == \E v \in Says(readFrom, <<"patches", "redirect">>) : v \notin No
  IN lookup # NoLookup /\ (\A i \in DOMAIN readFrom : Regular(readFrom[i])) =>
       IF ~on THEN lookup.sent = lookup.name
       ELSE IF lookup.name \in OtherNames THEN lookup.sent = <<>>
       ELSE \E u \in Urls :
              /\ Official[u] = lookup.name
              /\ lookup.sent \in
                   IF Addresses(readFrom, u) = {} THEN {lookup.name} ELSE Addresses(readFrom, u)

(***************************************************************************)
(* The options are what the file read at launch says, comments left out:   *)
(* one is on exactly if the first of its entries is there and says neither *)
(* 0 nor false, and the language is the one the first entry names, when    *)
(* the game has it, or English.                                            *)
(***************************************************************************)
OptionsObeyFile ==
  LET Said(k) == Says(readFrom, <<"patches", k>>)
      Obeys(k, on) == on <=> \E v \in Said(k) : v \notin No
      Named(l) == \E v \in Said("client_language") :
                     v # <<>> /\ v[1] \in DOMAIN Number /\ Number[v[1]] = l
  IN (\A i \in DOMAIN readFrom : Regular(readFrom[i])) =>
       /\ Obeys("gameguard", settings.gameguard)
       /\ Obeys("redirect", settings.redirect)
       /\ Obeys("episode4_mode", settings.episode4)
       /\ Obeys("enable_direct_input", settings.noIME)
       /\ settings.language \in 0 .. 7
       /\ \A l \in 0 .. 7 \ {1} : settings.language = l <=> Named(l)

(***************************************************************************)
(* A write through the parser rewrites the whole file: read again, it has  *)
(* the entry and everything else that regular lines said, in whatever      *)
(* order the maps list it.  The format cannot hold a value that begins     *)
(* with slashes, which begin a comment once " = " is before them, an entry *)
(* that is no more than an equals sign, nor a key like "[name]" without a  *)
(* value.                                                                  *)
(***************************************************************************)
CanHold(key, value) ==
  IF value = <<>> THEN key # <<>> /\ ~IsSection(key) ELSE value[1] # "//"

RewriteKeepsRest ==
  LET before == Contents(file)
      After(k, v) == set(Parsed(before), <<k[1]>>, <<k[2]>>, v)
  IN phase = "off" /\ (\A i \in DOMAIN before : Regular(before[i])) =>
       \A k \in {<<"patches", "redirect">>, <<"redirect.us", "patch_server">>}, v \in {<<>>, <<"x">>} :
         LET after == After(k, v) IN
           (\A s \in DOMAIN after : \A key \in DOMAIN after[s] : CanHold(key, after[s][key]))
             => Parsed(Write(before, k, v)) = after

\* The shipped file: "Commenting an entry will redirect it to localhost
\* instead."  The empty name is the local host as well.
CommentedMeansLocalhost ==
  \A u \in Urls :
    settings.redirect /\ lookup.name = Official[u] /\ Says(readFrom, u) = {}
      => lookup.sent \in {<<"localhost">>, <<"127.0.0.1">>, <<>>}
===============================================================================
