# AzureFlare, specified

AzureFlare is a `WSOCK32.dll` that *Phantasy Star Online: Blue Burst* loads in
place of the system's. Inside the game's process it forwards the Winsock
functions, hooks `GetStartupInfoA` and `CreateProcessA`, overwrites a handful of
functions of the game image it finds by byte patterns, and redirects host name
lookups as a configuration file says.

This directory holds TLA+ specifications of that program, translated from its
source, the TLC configurations that check them on small instances, and proofs
checked by TLAPS for every value of the constants.

Paths in this file are relative to the repository: `psobb/` stands for
`src/psobb/`, `common/` for `src/common/`, `minhook/` for `deps/minhook/`.

## 1. The system

### 1.1 Components

**Attaching and detaching** (`psobb/dll/main.cc`, the `Patch` functions of
`psobb/patch/startup.cc` and `gameguard.cc`).
*State*: the buffer on the stack for the real library's path, its handle, the
addresses of the forwarded functions, the two "original" pointers, the state of
the hooking library.
*Operations*: `DllMain` on attach (`LoadDll`: build the path and load the real
library, read the settings, resolve the functions, install one or two hooks) and
on detach (`FreeDll`); the `CreateProcessA` detour that does not start GameGuard.
*Hard*: each of about ten calls may fail and none is checked by `LoadDll`;
attaching goes on or stops half way, and the game then runs with what there is;
without a readable `windir` the path is built on whatever the buffer held.
*Correct if*: whatever fails, the hooks that are left are consistent, no live
hook lacks its original, GameGuard stays off when everything worked, forwarded
calls work whenever the library and its path were there.

**Strings** (`common/src/format.cc`).
*State*: none of its own; `strscpy` keeps a position, the room left and how far it
may read words.
*Operations*: `strscat`, `strscpy`, which copies four bytes at a time and finds the
end of the string in a word by arithmetic on all its bytes at once.
*Hard*: reading a word may reach beyond the string, into a page that is not there;
writing one may reach beyond the buffer; borrows between the bytes of a word; a
room that is computed in unsigned arithmetic.
*Correct if*: as much as fits is copied and terminated, nothing behind the buffer
is written, and no page is read that holds none of the string.

**Code patches** (`psobb/patch/*.cc`, `common/include/hook.hh`).
*State*: the bytes of the game image, and in every thread inside the detour the
list of matches it still has to patch.
*Operations*: the `GetStartupInfoA` detour: five times scan, collect all matches,
overwrite each with plain stores, then call the original.
*Hard*: nothing serialises two threads in the detour; what is overwritten is code
other threads may be executing; matches are collected first and used later; one
patch can produce bytes another pattern matches; the IME site matches again on
every call; the image may still be packed at the first call.
*Correct if*: only a site's own patch ever touches it; once nobody is in the
detour everything asked for is patched; nothing completed is undone; nobody
executes half a patch; and the code stands still once the game runs.

**Pattern scanner** (`common/src/pattern.cc`, `common/include/pattern.hh`).
*State*: the parsed pattern and mask, the range searched, the list of matches,
whether it is complete.
*Operations*: the constructor, which parses the pattern's text
(`TransformPattern`) and takes the range from the module's section headers
(`executable_meta`); `count`, `count_hint`, `get`, `size`, `for_each_result`, `clear`, all
of which scan on first use (`EnsureMatches`, a Boyer-Moore-Horspool search with
wildcards).
*Hard*: the shift table against wildcards; the last window; a limit that ends the
scan early and what later questions are then told; where the code ends when its
section is not the last, or is larger in memory than in the file.
*Correct if*: the text means the bytes it shows, all code the file has bytes for is in the
range, no match is passed over, nothing else is reported, and each question is answered from the
first matches of the image.

**PE helpers** (`common/src/nt.cc`).
*State*: none; a binary search and a walk over another module's headers.
*Operations*: `InternalGetProcAddress` (by name or ordinal, following forwards by
calling itself), `get_iat_entry`.
*Hard*: the bounds of the search, an index into a second table, unsigned
ordinals below the first, forwards, a loop that does not always advance.
*Correct if*: a function is found exactly if Windows finds it, at the same address, as far
as forwards lead to modules that are loaded;
an import is found whichever descriptor it is in; and both searches end.

**Settings** (`psobb/settings/settings.cc`) and the **configuration file format**
(`common/include/ini/`).
*State*: the settings in memory; the file in the game's folder; the file
`CreateNewConfigFile` writes, which goes to the Windows folder because its name
has no folder in it.
*Operations*: `Settings::Init`, `CreateNewConfigFile` (thirteen separate writes),
`LoadConfigurationFile`, the readers.
*Hard*: three tables of defaults that have to agree; a process that ends between
two writes; a user who edits the file while the game runs; entries that occur
twice, in the wrong section, empty, quoted, or behind one of three kinds of
comments; writing, which drops what it does not know.
*Correct if*: until the user writes a file the game runs with the defaults, also
after a crash; a lookup goes and the options are as the first of their entries in the file
read at launch says, comments left out; a write through the parser keeps every other entry.

**Winsock forwarding** (`psobb/dll/wsock32.cc`).
*State*: the address of every forwarded function.
*Operations*: jumping to them; `_gethostbyname`, which replaces eight official
names one after the other.
*Correct if*: a lookup is redirected exactly as configured, once.

**Hooking engine** (`minhook/src/hook.c`, vendored).
*State*: a spin lock, a heap, the array of hook entries, the patched code, the
threads it has suspended.
*Operations*: the `MH_` functions on targets.
*Hard*: it suspends every other thread, moves their instruction pointers, writes
code and resumes them, with a failure possible at every step; the entry array
moves when an entry is deleted; applying many hooks may stop in the middle.
*Correct if*: entries, slots and code agree after every call however it ended; no
thread is left in bytes that changed under it; everybody suspended runs again; the
lock is given back; and callers see what `MinHook.h` promises.

**Trampoline slots** (`minhook/src/buffer.c`) and **trampoline construction**
(`minhook/src/trampoline.c`).
*State*: blocks of slots whose free lists are threaded through the very bytes that
trampolines overwrite; the instructions copied so far and the furthest branch.
*Correct if*: the lists never lose or double a slot and no trampoline is moved,
unmapped or overwritten while it is in use; a trampoline does what the bytes it
replaces did, its branches lead where they led, and it fits its slot.

**Not modelled** (reasons in section 7): instruction length decoder,
files/console/exceptions, build files.

### 1.2 How they interact

```
 loader ──DllMain──> Attach ──MH_*──────────> MinHook ──AllocateBuffer──> SlotBuffer
                       │                         └─CreateTrampolineFunction─> Trampoline
                       ├──strscat──> BoundedStrings
                       ├──Settings::Init──> Settings ──read/write──> Ini
                       └──hooks──> GetStartupInfoA detour = CodePatch ──scans──> PatternScan
                                                                         <── PatternInput
 game ──gethostbyname──> Settings (redirection), other Winsock calls ──> Attach (forwarding)
```

Calls are synchronous. State is shared in three places: the game image (the
detour writes it, all threads execute it), the settings (written once before the
hooks are installed, read by the patches and the lookups), and MinHook's
globals (behind its spin lock). There are no messages and no callbacks but
the detours themselves.

## 2. Modules

| module | models | state ↔ code |
|---|---|---|
| `CodePatch` | the `GetStartupInfoA` detour and all five patches, on any number of racing threads | `mem`: the cells of every place a pattern matches; `pc`, `kind`, `pos`, `todo`: where a thread is in `Startup::GetStartUpInfoA`, `EnsureMatches` and the callback of `for_each_result`; `at`, `head`: a thread executing a patched function, from the instruction it fetched to the one after |
| `PatternScan` | one `hook::pattern` object: questions and scan | `m_matches`, `m_matched`, `Last`, `lastWild`, `maxCount` as in the code, `i` for its loop variables |
| `HookApi` | *abstract*: what `MinHook.h` promises a caller | per target none/off/on and queued |
| `MinHook` | `hook.c` behind that promise | `g_isLocked`, `g_hHeap`, `g_hooks` as in the code; `free` the slots; `jump` the targets whose bytes are the jump; `left`, `frozen` the `FROZEN_THREADS`; `ip` where every thread executes |
| `SlotPool` | *abstract*: a set of slots | `free`, `result` |
| `SlotBuffer` | `buffer.c` pointer by pointer | `g_pMemoryBlocks`, `block` (heads), `slot` (first bytes), the cursors `pBlock`, `pPrev` |
| `Trampoline` | `CreateTrampolineFunction` instruction by instruction | `tramp` (with `oldIPs`, `newIPs`), `oldPos`, `newPos`, `jmpDest`, `patchAbove` |
| `Ini` | the configuration format, token by token: comments, sections, keys; the readers; writing through the parser | – |
| `Settings` | settings over launches, crashes and edits; redirection | `file`, `created`, `n`, `settings`; `Loaded` is `LoadConfigurationFile`, `Forwarded` is `_gethostbyname` |
| `BoundedStrings` | `strscat` and `strscpy`, one word or byte at a time | `buffer`: the memory from the buffer on, what lies behind it included; `dest`, `res`, `count`, `max` as in the code; `src`: the source's place in its page |
| `Attach` | `DllMain`, the path of the real library, the two installations, the `CreateProcessA` detour, forwarding; composes `HookApi` and extends `BoundedStrings` | `pc`, `hDll`, `resolved`, `original` |
| `PatternInput` | a pattern's text and the range that is searched, in front of `PatternScan` | – |
| `PeLookup` | `InternalGetProcAddress` and `get_iat_entry` | `left_index`, `right_index`, `ordinal_index` as in the code; `descriptor`, `thunk`: where the import walk is |
| `MCCodePatch`, `MCCommon`, `MCMinHook`, `MCSettings`, `MCAttach` | instances for TLC; `MCCommon` runs `PatternInput` with `PatternScan`, and `PeLookup` | – |
| `CodePatchProofs`, `CommonProofs` (on `PatternScan`, `PatternInput` and `PeLookup`), `TrampolineProofs`, `AttachProofs`, `SettingsProofs`, `SlotBufferProofs`, `MinHookProofs`, `MinHookRefinement` | theorems | – |

Each action is one step another actor can come between: a store, one examined
place, one suspended thread, one write to the configuration. What the code does
without anybody being able to look is one action. A variable marked
*(history)* is read by no guard; it exists for a property.
`PROJECT.json` gives the source lines of every definition.

Definitions named after the one below them with a suffix (`FitsAnyMov`,
`EmplacedLast`) are not part of any specification: they are
plausible mistakes, and replacing the definition they follow by one of them makes
a property fail.

Choices worth knowing:

* *Bytes.* `CodePatch` keeps four cells of a site, the ones that patches store to
  or patterns can tell apart after a store. A store of one cell is atomic: the
  code uses plain 1- and 4-byte stores.
* *Store order.* The three stores of a patch have no dependency, so `Store` takes
  them in any order.
* *Packed images.* Until `Unpack` nothing matches. After `Return` from the detour
  entered from the unpacked image's start-up code, `WinMain` runs.
* *Early threads.* Whether other threads run before that depends on the executable
  (a packer's watchdog, a TLS callback), so both are initial states:
  `cfg.earlyThreads`. The properties that need it false say so with `Solo =>`.
* *Failures.* Every call of the operating system whose refusal the engine has a
  branch for may fail, if `Failures` names it. In `Attach` every call may.
* *Uninitialised memory.* `LoadDll` does not initialise `DllPath`. If `windir` is
  missing or too long, the buffer and the stack behind it hold any of `Stacks`, whose
  first zero may lie behind the buffer; `Overrun` is the process that ends then.
* *Words of memory.* What follows a string's terminator in its word is any of
  `Beyond`, so that `has_zero` meets the bytes that could mislead it. Bytes, borrows
  and masks are computed as the code does, modulo 256.
* *Tokens.* `Ini` reads lines as sequences of the signs the parser looks for and the
  words between them. The blank, all other white space (`Tab`), the byte order mark and the
  slashes are signs: ` //` begins a comment behind a blank only. What `std::stoi` makes of a
  word (`Number`) and which words are `false` in some case (`FalseWords`) are constants.
* *Order of names.* In `PeLookup` names are numbers in the order of `strcmp`, whose
  answer is one of -1, 0 and 1 in Microsoft's C library, which the build uses. `nt.cc`
  relies on it: its `switch` has no case for other answers and would not end.
* *Modules.* `PeLookup` starts with the modules of `AtStart` loaded. Windows loads what a
  forward leads to when it is asked by `get_iat_entry`; `InternalGetProcAddress` does not.
* *Instructions.* `Trampoline` takes instructions as the loop does: a jump through memory
  and a far return fall through, and what follows them counts as the function. The operand
  of a branch is reckoned as the code does, from the end of the copy or, if it is copied as
  it stands, of the original; where it arrives follows from the copy's own place.
* *Places.* `MinHook`'s `ip` has two instruction boundaries in the overwritten
  bytes and three in a trampoline, so that `FindNewIP` and `FindOldIP` have a
  first, a middle and a last boundary to confuse.

## 3. What the runs check

All with TLC 2, no state constraint; every bound is a constant in the `.cfg` or an
MC module.

| run | question | answer |
|---|---|---|
| `codepatch` | May two threads race through the detour? | 346k states. Sites only ever hold their own bytes or their own patch (`OwnPatchOnly`); everything is patched when the detour is empty (`QuietMeansPatched`); nothing completed is undone (`SettledForGood`); the detour returns (`DetourReturns`). With a single-threaded start nobody executes half a patch (`NoMixedExecution`) and no byte changes after `WinMain`, although the IME site is written again on each call (`CodeFrozenWhenRunning`). `SoloIInv`, which contains `IInv`, is the invariant of the proofs. |
| `codepatch_ime` | Does the IME patch store the address its comment names? | No: finding 1. |
| `common` | Is a pattern found as it is written, wherever there is code? Are exports and imports found as Windows finds them? | 334k states. The text means the pattern, and a digit left alone shifts what follows but loses nothing else (`PatternAsWritten`); what stands in code is found, the last section's memory behind its bytes in the file excepted (`CodeIsSearched`); the scan misses and invents nothing (`NothingSkipped`); later questions see the right matches (`AnswersFirst`). Exports are found exactly when Windows finds them, through forwards to loaded modules; a forward into another one is answered with nothing or with what Windows finds (`ExportFound`). Imports by ordinal are found in whichever descriptor (`ImportFound`). Both searches end (`ScanEnds`, `LookupEnds`). |
| `minhook_contract` | Do entries, slots and code agree after any calls and failures? Do callers see the contract? | 269k states: yes (`SlotsAccountedFor`, `CodeMatchesEntries`), and `MinHook` implements `HookApi` (`ContractSpec`). |
| `minhook_enable` | Is a thread that runs a target left in changed bytes? Does everybody run again? | 326k states, the operations that enable hooks: no thread is left behind (`NoStrayThread`), code changes only while the others stand still (`WrittenInOneGo`), the suspended run again and the lock is given back (`EverybodyRunsAgain`). |
| `minhook_disable` | The same when a hook is disabled. | A thread is left behind: finding 2. |
| `slotbuffer` | Do the free lists survive trampolines being written over them? | 127k states: yes (`ListsIntact`, `NothingLeaked`, `TrampolinesStay`), memory is asked for only when all slots are in use (`GrowsOnlyWhenFull`), and `SlotBuffer` implements `SlotPool`. |
| `trampoline` | Does a trampoline do what the function did? | 565k states, every way a function may begin: yes, and every branch arrives where it led, but for branches back over a lengthened instruction and calls of overwritten bytes (`TrampolineFaithful`); it always fits (`SlotHoldsAnyPrologue`). |
| `trampoline_back` | And those branches? | They arrive elsewhere: finding 3. |
| `settings_redirect` | Do three tables of defaults, crashes, edits and comments ever disagree with what the game does? | 222k states: no (`UntouchedMeansDefaults`, `LookupObeysFile`, `OptionsObeyFile`); the last two say exactly what the game does from the text of the file's lines: the first entry of a key counts. A write keeps the rest of the file (`RewriteKeepsRest`). |
| `settings_commented` | Does commenting an entry redirect to localhost? | No, to the official server: finding 4. |
| `attach` | What is left when attaching fails half way? | 21k states. Consistent hooks: no second hook without the first (`NoLoneProcessHook`), no live hook without its original (`NoNullOriginal`), GameGuard off when nothing was refused (`GameGuardStaysOff`). `DllPath` is the path or as much of it as fits (`PathFits`), no word is read from a page that need not be there (`WordReadsStay`), nothing behind the buffer is written if the string in it ends inside it (`StackIntact`), and forwarded calls crash only without the library or its path (`ForwardingWorks`). |

Deadlock is checked except in `trampoline`, `trampoline_back` (the function ends)
and `attach` (the game may crash, and its process ends).

### Bounds, and why they are enough

* `codepatch`: two threads and six sites, one for each pattern and a second for
  `Language`, in an address order that is not the scan order; languages 0 and 7.
  A race needs two threads; "every match" needs two of a kind; what one patch
  writes can be mistaken by another only pairwise. The theorems remove the bounds.
* `common`, patterns: all modules of six bytes over two letters under five section
  tables that leave six, five, four or two of them to be searched (code behind data,
  larger in memory than in the file, in the middle and as the last, without bytes in the
  file, no code at all); patterns of up to three bytes
  and wildcards, written with and without spaces and with any of their first digits missing; limits 0, 1 and 2. Two bytes are
  shorter than some patterns; six leave room for overlapping matches and shifts of
  every length. The theorems remove these bounds.
* `common`, lookups: none, one, two or three exported names, so that the search has
  an empty, an odd and an even range; every name and ordinal in, between and outside
  them, and 0; forwards to a name, to an ordinal, to the ordinal 0, back, to nowhere, in a
  circle and, over one module or two, into one that is not loaded; three import descriptors, two of the same module. The theorems remove these bounds, but for
  `LookupEnds`.
* `minhook_*`: two threads, two targets (one hooked through the hot patch area
  above it), two slots. An entry that moves needs two entries; a third thread would
  only be another suspended one. `minhook_contract` leaves out where threads execute
  (`Called = {}`), which no property of it looks at, and uses the symmetry of threads
  and slots (it has no liveness property). `minhook_enable` does not use symmetry.
* `slotbuffer`: three blocks of two slots (`BlockSlots = 3` counts the head):
  first, middle and last block of a list, and full, half full and empty ones.
* `trampoline`: plain instructions of 1, 2, 3 and 15 bytes, every branch form and
  every destination in the first five bytes, one behind them and one far away: the shortest and the longest
  instruction, and what crosses the fifth byte at different places. Plain
  instructions in between act alike.
* `settings_*`: the shipped file, and files that put one or two entries, plain, quoted,
  empty, repeated with other values or commented out in each of three ways, with blanks and
  tabs, before or after the switch, `FALSE`, `0x5` and `5abc` among the values,
  in the right and in the wrong section; all thirteen points at which creation may
  break off. The theorems remove these bounds: files are any sequences of lines, lines
  any sequences of tokens.
* `attach`: every combination of results of its calls; a buffer of ten bytes and
  `windir` of 0 to 11, so that the path of six more fits, just fits, is cut, or was not
  read; pages of eight bytes and every place of the string in its page; stacks whose
  first zero is at the start, inside, at the end, and behind the buffer. The theorems
  remove these bounds.

### What runs leave out on purpose

* `minhook_enable` uses only operations that enable (AzureFlare calls no other).
  Disabling is finding 2, and `MH_RemoveHook` frees a trampoline without asking
  whether a thread is in it (`hook.c:702`), which would make `NoStrayThread` false
  too. It also leaves out a `ResumeThread` that fails: the code has no answer to
  it and the thread stays suspended, so `EverybodyRunsAgain` would only repeat that.
  `minhook_contract` includes it.
* `LookupObeysFile`, `OptionsObeyFile` and `RewriteKeepsRest` speak of files with `Regular`
  lines. Of two ` //` in a line the parser looks for the last, and keeps the first in the value;
  a byte order mark it leaves where it is, but at the beginning of a line.
* `RewriteKeepsRest` leaves out what the format cannot hold (`CanHold`): a value that begins
  with `//`, which becomes a comment behind the ` = ` it is written with; an entry without key
  and value, which is not written; and a key like `[name]` without a value, which is
  written as a section. The parser can read all three (`a=//b`, `=`, `[name]=`).
* `ImportFound` and `LookupEnds` speak of modules that import by ordinal. An import by
  name is taken for one by ordinal (its name's address), and if that is too large
  `continue` (`nt.cc:299`) repeats the same import for ever. Nothing calls the function.
* `StackIntact` speaks of a string in `DllPath` that ends inside it. If `windir` cannot be
  read and what the stack held ends behind the buffer, `strscat` begins there, and the model
  writes there as the code does (`Overrun` is what may come of it); no property denies it.
* `CodeIsSearched` excepts what a last executable section has in memory behind its bytes in
  the file: `executable_meta` takes the size in the file (`pattern.cc:137`). The packed
  executable of `README.md:7` may well have such a section. Sections with code behind
  them are covered whole.
* `ExportFound` allows no answer where a forward leads into a module that is not loaded:
  Windows would load it, `GetModuleHandleA` (`nt.cc:254`) does not.
* `TrampolineFaithful` excepts a call into the bytes the hook overwrites: it is rewritten to
  lead where it led, and finds the jump there.

## 4. Fairness

* `CodePatch`: `WF(Detour(t))`. A thread inside the detour is an ordinary runnable
  thread. Nothing is assumed of `Unpack`, of entering the detour, or of the game.
* `PatternScan` and `PeLookup` (in `MCCommon`): `WF(Scan)` and `WF(Lookup)`. A loop under
  way goes on. No question has to be asked.
* `MinHook`: `WF(Critical(t))`. A thread inside the lock goes on: only the holder
  suspends threads and never itself. *Entering* the lock is not fair: it is a spin
  lock with `Sleep`, and nothing orders those who wait.
* `SlotBuffer`, `Settings`, `Trampoline`, `Attach`: none; they have safety properties only.

## 5. Findings

1. **`codepatch_ime`** – `psobb/patch/ime.cc:26` stores `00 8E C3 9C`; the
   comment there says `call ds:dword_8EC39C`, whose operand bytes are
   `9C C3 8E 00`. A little-endian processor reads `0x9CC38E00`.
2. **`minhook_disable`** – `EnableHook` (`hook.c:742`) freezes with
   `ACTION_ENABLE` also when `MH_DisableHook` calls it. The entry is enabled, so no
   thread is moved, and one suspended at the long jump of the hot patch area
   finds other bytes there. AzureFlare does not disable hooks.
3. **`trampoline_back`** – `trampoline.c:265` refuses to lengthen an instruction
   under a *forward* branch only. A short conditional jump out of the function and a
   short jump back to it are both accepted; the first grows from two bytes to
   six, and the second lands in its middle.
4. **`settings_commented`** – `psobb.cfg:32` says that commenting an entry
   redirects it to localhost. A missing entry has the official name as its default
   (`settings.cc:53`).

## 6. Proofs

Checked by TLAPS for every value of the constants. What they assume of these are the
named `ASSUME`s of `CodePatch`, `PatternScan`, `PatternInput`, `PeLookup`, `Trampoline`,
`BoundedStrings`, `Attach`, `Ini`, `Settings`, `SlotBuffer` and `MinHook`, which TLC evaluates in the
runs: in `CodePatch`, that there is a main thread, that
sites are numbered from 1 and hold bytes their own pattern matches, that the
operand of a `PreInitNP` site (the address of a global) is not 4400, and that
languages are among 0..7 (`LoadConfigurationFile` puts any other number back to English); in `PatternScan` and `PatternInput`,
that a wildcard is not a byte, that patterns are not empty and bytes at most 255, that a module
has a section (without one `m_end` would stay below the module) and that an
executable section lies inside its module, as it is in the file and in memory; in `PeLookup`, that the names of an export table
ascend and have an ordinal each, as the PE format demands, and that the missing module is none of
those there are; in `Ini`, that `1` is a number and is one, and that `False` is false; in `Settings`, that the other
names are no official ones, that a file is a sequence of lines and a line one of tokens, and that
the user may empty the file; in `Trampoline`, that an
instruction has at most 15 bytes and that the destinations of branches are addresses; in `BoundedStrings` and `Attach`, that pages are
whole words, that memory ends below 2^32, that strings hold no zeros, and that a
stack holds one somewhere; in `SlotBuffer` and `MinHook`, that a block has a slot, and that
NULL, code, `MH_ALL_HOOKS` and "nobody" are not slots, targets or threads.

**`CodePatchProofs`**

* `TypeCorrect`: `Spec => []TypeOK`.
* `Inductive`: `Spec => []IInv`. `OwnPatchOnly` is not inductive: it has to be known
  that a store still owed belongs to the pattern its thread is at and is one the
  settings ask for (`TodoInv`). `QuietMeansPatched` needs more. A thread passes over
  a site that another one has half patched, so "I have passed it" cannot mean
  "it is patched". It means that each of its cells is patched *or on somebody's
  list* (`InHand`): a site whose pattern no longer matches has been begun
  (`MissInv`), a site passed over is in hand (`PastInv`), and being in hand is never
  lost (`InHandStable`). When nobody has a list, in hand means patched.
* `OwnPatches`, `PatchedWhenQuiet`, `SettledStays` follow.
* `SoloInductive`: `Spec => []SoloIInv`. If the start-up code runs alone, only the
  main thread moves before `WinMain` (`OnlyMainMoves`); nothing is patched before it
  enters the detour from the unpacked image and everything after (`SoloInv`); so a
  thread that fetches a function's first instruction finds a whole function, and it
  stays whole (`BodyInv`).
* `NoMixture`, `CodeFrozen` follow. The latter says that later stores only repeat
  what is there.

**`CommonProofs`** (for any images, patterns, modules, export and import tables)

* `Inductive`: `Spec => []IInv`. The heart is `TableRight`: an entry of the shift table
  is at least the last index at which its byte *or a wildcard* stands; `TableLoop` says
  the same of the part entered so far. Lemma `NoneBetween`: no window between the
  present one and the one shifted to can match, because the byte the present
  one differs in would have to stand behind its last occurrence.
* `TypeCorrect`, `NoMatchSkipped`, `AnswersAreFirst` follow.
* `CodeIsAlwaysSearched`: `Spec => []CodeIsSearched`. Sections in order end in order
  (`LaterEndsLater`), so the end of the last executable one is behind the memory of all before
  it; and a question without a limit knows of every match (`CountInv`).
* `PatternAlwaysAsWritten`: `Spec => []PatternAsWritten`. The parser folds over a text, and the
  text is itself put together byte by byte. `Recursion` shows that a function defined from 0
  upwards exists, so that what the two definitions choose can be unfolded (`Transformed`,
  `WrittenText`); `UpTo` stands in for induction. Behind the text of the first k bytes
  the parser has put out these k and no digit is waiting (`WrittenReads`). For any text at all,
  what is put out and whether a digit waits follow from the number of digits so far, odd or
  even (`AlwaysInOrder`).
* `PeInductive`: `PeSpec => []PeInv`. While names are searched, the one asked for is between the
  two indices or has been found (`CallInv`); a forward that is followed leaves what Windows
  answers as it was, because the forwards followed from it are those that were followed
  before, without the first (`Leads`: as long as nothing more has to be loaded, and otherwise
  the answer is that one or none). While imports are walked, those passed over are others (`WalkInv`).
* `ExportAlwaysFound` and `ImportAlwaysFound` follow. That the searches *end* is not part of them.

**`TrampolineProofs`** (for any lengths of instructions)

* `TrampolineInvariant`: `Spec => []IInv`. `TrampolineFaithful` speaks of the finished
  copy; while it grows, a branch may lead to an instruction still to come. `ShapeInv`
  says that each copy is followed by the next or is the last, that the copies between
  two instructions are as far apart as the originals if none of them was lengthened
  (`Alike`), and that a forward branch has no lengthened instruction on its way
  (`Leads`), which is what the checks of `jmpDest` are for. `Bounded` says that a copy is
  at most three times as long as its original: so the first five bytes become twelve
  at most before the last instruction, which adds up to 32 with the longest one
  and the jump. Lemma `Placed` shows that one more copy keeps the shape.
* `AnyPrologueFits` and `TrampolinesAreFaithful` follow. Between two copies `Alike` an operand
  leads as far as it did between the originals (`AsFar`); a rewritten one makes up for the
  copy's place.

**`AttachProofs`** (for any environment, settings, programs and failures)

* `HooksInvariant`: `Spec => []HooksInv`. A call under way is about the function whose
  turn it is (`CallInv`); its original is known before it is enabled, and
  `CreateProcessA`'s turn comes only after `GetStartupInfoA` is diverted and the settings
  asked for it (`OrderInv`); when the game starts with nothing refused, the second hook
  is on (`StartedInv`).
* `ProcessHookNeverAlone`, `OriginalsKnown`, `GameGuardNeverStarts` follow.
* `PathInvariant`: `Spec => []PathInv`. Position and room left always add up to the
  buffer's size, and words are copied only as far as both allow (`RoomInv`); `EndOfWindir`
  shows that the string in the buffer is `windir`, if that could be read; otherwise that it ends
  inside the buffer is what `EndedInside` says. `WordsInv` says that words begin in the
  string, at a multiple of four or not beyond its page. Lemma `NoZeros`: a word in which
  `has_zero` flags no byte has no zero, whatever borrows.
* `NothingBehindDllPath` (the action property `StackIntact`) and `NoReadPastThePage`
  (`WordReadsStay`, for pages of any number of words) follow.
* `PathAlwaysFits`: `Spec => []PathFits`. What has been copied so far is the beginning of the
  path (`CopiedInv`). The first byte `has_zero` flags is a zero, for borrows only go to bytes
  above one; the mask made from it has as many bytes as precede it, and counting them gives
  the string's length.
* `ForwardingAlwaysWorks`: `Spec => []ForwardingWorks`. `ForwardInv` follows the handle from
  `LoadLibrary` to the forwarded call, past everything that may fail in between.

**`SettingsProofs`** (for any files of the user and any launches)

* `UntouchedInductive`: `Spec => []UntouchedInv`: until the user writes a file there is none or a
  copy of the first entries created. `UntouchedAlwaysMeansDefaults` needs what the parser makes
  of such a copy. A line of two to four words is read as the entry it was written from
  (`ReadSection`, `ReadEntry`); reading one more line is one more step of the parser (`ReadMore`,
  `ParsedIs`); and behind the first k entries the parser is in the section of the k-th and what
  it knows means nothing but defaults (`NewFileTidy`, whose `Settled` is that invariant).
  `TidyLoads` is then about the readers and their own table of defaults. All three tables are
  the code's; no evaluation stands in for the parser.
* `LookupsAreAsRead`: `Spec => []AsRead`. A lookup depends on the file read at launch only,
  whatever the user does to it since, and each official name has one entry.
* `SourceInductive`: `Spec => []SourceInv`. What is in memory is what `LoadConfigurationFile` made
  of the file read at launch. `OptionsAlwaysObeyFile` and `LookupsObeyFile` need this, and what the
  parser makes of *any* file. Its three passes over a line's comments, its searches for `]` and
  `=` and its trimming at each end leave what `Text`, `Name`, `Key` and `Value` say at once,
  if the line is `Regular` (the lemmas on trimming and lines). Reading one more line moves
  the section or assigns one entry; so behind the first k lines an entry is known exactly if one
  of them says it, and has the value of the first that does (`FileSays`, by `UpTo`). The readers'
  handling of booleans, numbers and quotes follows from that (`BooleanSaid`, `LanguageSaid`,
  `StringSaid`).
* `RewriteAlwaysKeepsRest`: `Spec => []RewriteKeepsRest`. `Sound` is the invariant of the parser
  over lines: no name, key or value in its maps has a comment in it or white space at an
  end, no key has an equals sign, no entry has a key that begins with `[` and a value that ends
  with `]` (its line would have been a section), and the maps are finite (`SoundLine`, `ParsedOrderly`); setting an entry keeps that (`SetOrderly`). Any such
  data is read back from its lines: a heading is read as its section (`ReadHeading`), a
  key's line as its entry (`ReadKeyLine`), the keys of a section one after the other
  (`KeysRead`), and a section on top of those before it (`BlockRead`, `WrittenRead`). The order is
  any list of the sections and keys without repetition (`Lists`).

**`SlotBufferProofs`** (for any blocks of any size)

* `SlotBufferInvariant`: `Spec => []IInv`. What "the list from here" is cannot be computed by
  recursion in a proof; `Lists` says it without: a set is what a list holds if it has the
  first element, the successor of each of its own, and no smaller set has both. The
  invariant keeps such a set for the list of blocks and for each free list; pushing,
  popping and unlinking change the set by the one element (`Chain` adds that no two
  elements have the same successor). While `FreeBuffer` or `GetMemoryBlock` walks,
  what is behind the cursor is a list too, and everything before it has been ruled out
  (`WalkInv`). That the slots of a fresh block make a list is the one place that asks for an
  induction; lemma `Least` (a set of numbers has a least element) stands in for it.
* `ListsStayIntact`, `NoBlockIsLost`, `TrampolinesAreLeftAlone` and `NoMemoryWithoutNeed` follow.
* `ImplementsPool`: `Spec => PoolSpec`, step by step.

**`MinHookProofs`** (for any threads, targets, slots, operations and failures)

* `MinHookInvariant`: `Spec => []IInv`. `SlotsAccountedFor` and `CodeMatchesEntries` are not
  inductive: deleting an entry keeps the code right only if the entry is off by then, and
  `MH_RemoveHook` and `MH_Uninitialize` look at that many steps earlier. `LockInv` says that
  whoever is beyond the spin lock holds it, so that nobody else has changed an entry since;
  `Phase` what a call has settled at each of its steps: the entries it goes through exist, the
  loop is among them, and those behind it are off if they are to be deleted. `FreezeInv` says who
  is still on the list while threads are suspended.
* `SlotsStayAccountedFor`, `CodeAlwaysMatchesEntries` and `CodeIsWrittenInOneGo` follow.
* `NobodyStrays`: `Spec => []NoStrayThread`, for a program whose operations are among those of
  `EnablesOnly`, which are what AzureFlare calls; for programs that disable it is
  false (finding 2), and for programs that remove hooks too (`hook.c:702`). The
  invariant `Threads` says of threads not overlooked, suspended or not, that they can go on
  where they are (`PlaceInv`), and of those already suspended in a freeze that none is in the
  middle of a jump still to be written (`ClearInv`). The latter rests on
  `RelocatedSafe`: if a thread is moved at all it is moved into the trampoline of the entry
  it was in, and such an entry is one the call enables, because whatever is enabled is also
  queued to be (`EntriesInv`).

**`MinHookRefinement`** (on top of `MinHookProofs`)

* `ImplementsContract`: `Spec => ContractSpec`. A caller sees an entry change when
  `EnableHookLL` writes it, and an answer when the status is set; which contract step
  that is depends on what the call had found out before. `Progress` says it for each step:
  whether the status is still open, that the entries behind the loop are as wanted, and that
  the one entry of a call for a single target is not yet, so that a call which wrote it
  answers `OK` and one which could not answers with nothing changed. `View` relates entries
  and what callers see. There is a lemma `...Seen` for each action: a step of `HookApi`, or
  one that leaves `live`, `hook`, `queued` and `call` alone.

**Only model-checked**: all liveness (`DetourReturns`, `ScanEnds`, `LookupEnds`,
`EverybodyRunsAgain`), which is out of the prover's reach, and what the four runs that
expect a violation refute. Every invariant of a passing run has a theorem.

## 7. Not modelled

* *Instruction length decoder*: a table-driven pure function. What matters of it,
  the lengths and kinds of instructions, is an input of `Trampoline`.
* *String helpers nothing calls* (`format.cc`): `VA`, `Replace`, `Split`, `HashString`, the
  number conversions. The 255 characters a host name is cut to are abstracted.
* *Where a jump finds room*: `FindRoom` follows `trampoline.c:290` on the number of bytes of
  padding; which bytes are padding is an input, and no property is said of it.
* *The length of a value*: `ReadString` copies it into `new char[255]` with an unbounded copy
  (`reader.h:225`), so a value of 255 bytes or more is written behind it. Values in `Ini` have no
  length, and what happens then is not described.
* *Imports by name* in `get_iat_entry`: `PeLookup` follows what the loop does with them, the
  wrong comparison and the endless one, but no property is said of it.
* *The rest of `nt.cc`*: accessors of header fields and calls of Windows, without state
  of their own. The program itself uses the range of the module only.
* *Files, console, exception handler*: thin wrappers; the handler is never
  installed.
* *The 64-bit build* and code for it in MinHook: the project builds for x86 only.
* *Page protection* of the game's code: whether it is writable is a property of an
  executable that is not in the repository. The stores of the patches succeed.
* `MH_CreateHookApi(Ex)` look up a target and call `MH_CreateHook`;
  `MH_StatusToString`; `hook.hh`'s unused helpers.
* `ReadFloat` and the container interface of the parser (iterators, comparisons), which
  nothing calls; file names and paths of the configuration.
* *A branch from further down a function back into its first five bytes* finds a jump
  in the place of its destination. MinHook does not look for it, and `Trampoline` sees
  the function's beginning only.

## 8. Plan

Written so far, in this order: `CodePatch` and its proofs; `HookApi`, `MinHook`;
`Ini`, `Settings`; `Attach` over `HookApi`; `PatternScan` and its proofs;
`SlotPool`, `SlotBuffer`; `Trampoline`; `BoundedStrings` under `Attach`; `PatternInput` and
`PeLookup`; comments and writing in `Ini`; the proofs about `Trampoline`, `Attach`,
`SlotBuffer` (with its refinement) and `MinHook`, then `MinHook`'s refinement and where its
threads execute; the path and the forwarded calls of `Attach`; `PatternInput`, `PeLookup` and
`Settings`, last what its parser makes of any file and of what it wrote itself.

Next, the model:

1. *Freed trampolines*: which threads may be in a slot `MH_RemoveHook` frees, stated
   as a property of `MinHook` with removal.
2. Compose `MinHook` with `SlotBuffer` in place of the set of slots.

Each new safety property is then to be proved from the inductive invariant of its module:
the first from `MinHookInvariant`, the second as a refinement through `ImplementsPool`.
