# A verification project for tosbindl

tosbindl binds the GEMDOS functions and the GEM parameter block of the Atari ST
to Lua. This directory holds TLA+ models of it, the TLC runs that check them on
small instances, and proofs, checked by TLAPS, of what holds for every instance.
Paths such as `gemdos_m.c:725` are under `src/src/gemdos/`; `tbgempb.c` is under
`src/src/gempb/`; `README.md:809` is the repository's own README.

`PROJECT.json` lists the components, the runs, the lines each definition
models, the hazards of the code with the properties that cover them, the
findings and the theorems.

## 1. The system

One Lua state, one thread, one process. A script calls C functions; they call
GEMDOS, the VDI or the AES, and Lua. Nothing runs in parallel, but three things
interrupt the straight line:

* the **garbage collector** may run finalizers wherever a Lua object is created,
  so also in the middle of a binding function. A finalizer written by the script
  (a table with `__gc`) is Lua code and may call the binding again;
* a **child program** (Pexec0) runs between two instructions of the script and
  GEMDOS closes handles when it exits;
* **errors** (`luaL_error`, `luaL_argcheck`) leave a function anywhere.

### Components

| Component | State | Operations | What is hard | What makes it correct |
|---|---|---|---|---|
| Memory userdata, ownership (`gemdos_m.c`) | `struct Memory` {ptr, size, allocator} per userdata; the GEMDOS and C heaps | Malloc, allocm, wrapm, Mfree, Mshrink, `__close`, `__gc` | allocation collects garbage and retries; close, free and collection meet in any order; finalizers bring userdata back | each block has one owner, is freed once, by its own allocator, and not lost; ENSMEM only after collecting; all is given back at the end |
| Memory userdata, access (`gemdos_m.c`) | none of its own; a range of bytes | writet, readt, writes, reads, poke, peek, copym, comparem, set | range sums in 32-bit words, alignment, values out of range half-way, checks made stale by a collection | only bytes of the memory are touched, at even addresses; checks accept exactly the documented calls |
| File userdata, handles (`gemdos_f.c`) | `struct File` {handle, mode, valid}; the GEMDOS handle table and the standard handles | Fcreate, Fopen, Fdup, Fforce, Fclose, detach, `__close`, `__gc`; Pexec0 | GEMDOS gives closed handles out again; a child closes handles behind the userdata | a valid file's handle is open and its own; no handle is lost, or closed by another's userdata |
| File userdata, transfers (`gemdos_f.c`) | a cached buffer | Freads, Fwrites, Freadt, Fwritet, Freadm, Fwritem, Freadi, Fwritei | short, empty and failing blocks, values across blocks, three index conventions | the range asked for is moved in order, once, and the result tells how much |
| GEM parameter block (`tbgempb.c`) | eleven arrays of words | set, get, poke, peek, setstr, getstr, vdi, aes, call | `call` parses a list whose runs give their own lengths; control words of earlier traps remain | accesses stay in their arrays; a trap sees its own arguments; every argument of a call is used |
| Directory search (`gemdos_f.c`) | a DTA per userdata; the process's DTA address | Fsfirst, Fsnext, name, copydta... | the address is switched and put back; finalizers search, too | the process gets its DTA back; each Dta is a search of its own |
| Files by name | none | Fdelete, Frename, Fattrib | - | arguments reach GEMDOS unchanged |
| Process (`gemdos_p.c`), environment (`tbgemdos.c`) | the environment block and the command tail it builds | Pexec0, Pterm, Pterm0; getenv | ARGV convention, 125-byte tail, two passes over the script's table | the child gets the arguments and the environment given |
| Dates and times (`gemdos_t.c`, Fdatime, datime) | the packed words | Tgetdate, Tsetdate, Tgettime, Tsettime, Fdatime | bit fields, leap years | packing and unpacking agree, dates there are not are refused |
| Characters, directories, system (`gemdos_c.c`, `_d.c`, `_s.c`) | none | one GEMDOS call each | - | - |
| Registration, escape key (`tbgemdos.c`) | tables filled at start | open, Esc | - | - |
| Read-only tables (`tosbindl.c`) | a proxy and its target | index, pairs, newindex | pairs passes the target as loop state | a script cannot change the target |

The components meet in these places: Freadm and Fwritem move bytes between a
File and a Memory (transfers + access); Pexec0 acts on the handles of files;
every component that creates Lua objects may run the finalizers of Memory and
File userdata, and those of the script, which may call any of the functions.

## 2. Modules

| Module | Models | Uses |
|---|---|---|
| `ResourceOwner` | abstract: a resource has one owner from acquisition to release | |
| `GemdosMemory` | ownership of memory, the allocation loop, the collector | implements `ResourceOwner` |
| `GemdosMemory_proofs` | its theorems | `GemdosMemory` |
| `GemdosFile` | ownership of handles, redirection, children, the collector | implements `ResourceOwner` |
| `GemdosFile_proofs` | its theorems | `GemdosFile` |
| `LuaWords` | words of limited width | |
| `Imode` | sizes of values, positions in strings and tables | `LuaWords` |
| `Transfer` | abstract: a call moves up to what was asked and tells how much | |
| `Imode_proofs` | lemmas about words, ranges and whole values | `Imode` |
| `FileTransfer` | the eight transfer functions | `Imode`, implements `Transfer` |
| `FileTransfer_proofs` | its theorems | `FileTransfer`, `Imode_proofs` |
| `MemoryAccess` | the nine access functions, and the memory side of Freadm and Fwritem | `Imode` |
| `MemoryAccess_proofs` | its theorems | `MemoryAccess`, `Imode_proofs` |
| `GemPb` | the parameter block | `LuaWords` |
| `GemPb_proofs` | its theorems | `GemPb` |
| `Searches` | abstract: every Dta visits what it selects, in order | |
| `DirectorySearch` | Fsfirst, Fsnext, copydta, the process's DTA, the collector | implements `Searches` |
| `DirectorySearch_proofs` | its theorems | `DirectorySearch` |
| `ProcessEnvironment` | what Pexec0 hands to a child, and getenv | |
| `Timestamps` | packing, checking and telling dates and times | |
| `ProcessAndTime_proofs` | theorems of the two modules above | `ProcessEnvironment`, `Timestamps` |
| `MC*` | array sizes, strings and dates for TLC, which a configuration cannot write | |

Some modules hold definitions marked `Faulty:`. Each is a definition of the model
with one plausible mistake put in (a dropped check, an off-by-one, a reset
forgotten). No action uses them: they are the project's own sensitivity test.
Every checked property names, under `mutants` in `PROJECT.json`, the faulty
definition that violates it.

### 2.1 GemdosMemory

State and code: `mud[u]` is the C struct of userdata `u`; `heap` says which
allocator has given out each block and at what size; `life[u]` is the
collector's view (unborn, live, pending = queued for `__gc`, finalized, exempt);
`held` is what the script reaches; `call` is the C function a collection can
interrupt, with its attempt number `try`; `fin` says a script finalizer runs.

| Code | Action |
|---|---|
| `l_Malloc`, `l_Mallocm` (703-789) | `BeginAlloc`, then `AllocSucceeds`, `AllocRetries` or `AllocFails`; between two attempts `FullCollect` and `FullCollectReturns`, with finalizers in between. From a finalizer: `FinalizerAlloc`, one step, because `lua_gc` does nothing there |
| `l_Mwrapm`, `l_Mfree`, `l_Mshrink` | actions of the same name |
| `MemoryFree`, used by `__gc` and `__close` | `MemoryFree`, in `MemoryGC` and `MemoryClose` |
| `MemoryReadt`, `MemoryReads` | `BeginRead` up to the checks, `ReadReturns` the read; collections in between |
| Lua | `CollectorStep`, `MarkAndSweep`, `MemoryGC`, `ScriptFinalizer*`, `Resurrect`, `Drop`, `LuaClose` |

The collector is Lua's as of 5.4.4 and 5.5: it is stopped while a finalizer
runs, so finalizers do not nest; `__gc` is called once per userdata, even if a
finalizer brings it back; `lua_close` calls it for every userdata; userdata
created after that have no `__gc` called. GEMDOS Mfree of a block it gave out is
taken to succeed, and GEMDOS refuses to enlarge a block.

Left out: memory contents (see `MemoryAccess`); `Malloc(-1)`, which asks for the
free size and changes nothing; Mfree errors, which only a block freed behind the
binding's back could cause; an `Mshrink` to zero bytes.

### 2.2 GemdosFile

`fud[u]` is the C struct; `fd` the handle table of GEMDOS, whose closed handles
are given out again; `redir` what the standard handles are forced to; `given` the
handles the script detached; `sys` the GEMDOS call on a handle that the last
step made, for the properties about what calls do.

`l_Fopen` stands for Fcreate too: the userdata is created before the GEMDOS call
and nothing after it, so a collection cannot come between opening and storing
the handle, and the function is one step. A failed open is `NotOpened`; unlike
allocation, it does not collect and try again. `FileIO` is every function that
checks its file and calls GEMDOS with no Lua object created in between;
`BeginTransfer`/`TransferReturns` are those where one is (Freads, Freadt,
Fwritet); `l_Fdatime` checks nothing.

GEMDOS is external. What the model takes from the repository: a child's exit
closes the files that its standard handles were forced to (README.md:809,
`unittest/fforce.lua`); Fclose frees the handle even when it reports an error;
a duplicate of a redirected handle is a handle of the file. The script is taken
to do what that documentation asks: when a child has closed the handle of a file
it keeps that file and detaches it before anything else (`orphans`). A script
that drops such a file has its handle closed later by the collector, whoever
then has it; the binding cannot know.

Left out: open modes (`FileTransfer` has them), the file's contents, Fdup of a
handle the process got from its parent.

Both ownership modules implement `ResourceOwner`. For memory a resource is a
block. For files it is a handle that is open and was not detached, or one that a
child closed and whose file waits to be detached; detaching a file is its
`Release`, as is closing it.

### 2.3 FileTransfer, MemoryAccess

One call each. A byte is its offset; the device answers each block freely
(all, some, none, error). `want` and `legal` hold what the *documentation* says of
the arguments, next to what the *code* checks and computes. The documentation's
definitions share nothing with the code's:

| | Documentation | Code |
|---|---|---|
| open modes | `Readable`, `Writable` | `ReadOK`, `WriteOK` |
| numbers of characters and values | `AskedNumber`: a natural number, for Freadi one up to `MaxMultival` | `n >= 0`, `n <= MaxMultival` |
| parts of strings and tables | `Part`, `AskedPart`: positions from 1 and from -1 | `StringRangeOK`, `TableRangeOK`, `ZeroBased`, `OneBased`, the shifts |

Numbers are tried from below zero (`Numbers`), where `while (remaining)` would count
down without end. Integers
are words of width `WordMax`, so that the range sums wrap as a 32-bit
`lua_Integer` does. In `FileTransfer` the loops are `NextBlock` then `ByteAnswer`
(strings and memories: goes on after a short block), `TableAnswer` (stops after
one, counts whole values) or `ValueAnswer` (one value at a time). In
`MemoryAccess`, functions that convert values access one at a time and raise an
error at the first bad one; the others move all at once.

Left out: the values themselves and their sign (a value is in range or not); the
errors of imode and of argument types, which change nothing; the creation of Lua
objects between check and use, which `GemdosMemory` and `GemdosFile` have.

### 2.4 GemPb

Words hold no numbers: one word, chosen at the start and never told to the
actions, is *watched*, and `holds` says where its contents came from: the
script, the system, or the use a trap's arguments gave it. As any word may be
the watched one, a property of it is a property of all. `call` is the parser's
state: stack top, index, stage. What the VDI and the AES write is free, within
their output arrays.

A last argument of `call` without a span is silently ignored by the code, and so
in the model (`ArgumentsAreUsed` allows it). `int` has 32 bits, as on the
supported compilers.

Numbers of words are tried from below zero: those of get, peek and getstr
(`tbgempb.c:251`, 361, 447), and that of set, for a table whose `__len` gives one.
`ChecksAreExact` says that what is accepted has no negative offset or number and
ends inside its array, and that all of that is accepted, with one
exception: an empty access just past the last word, which the runs of call
accept and the array functions refuse.

### 2.5 DirectorySearch

GEMDOS keeps the state of a search in the DTA of the process, wherever that is.
`dta` is that address, `mem` the contents of each DTA: the file found (`at`) and
what the search selects. `call` is the C function in progress, per context: the
main program, and a finalizer that interrupts it.

| Code | Action |
|---|---|
| `l_Fsfirst` | `l_Fsfirst` (checks and `PushDtaUserData`; collections and finalizers can come here), `SetDta`, `Search`, `RestoreDta` |
| `l_Fsnext` | `l_Fsnext` (the first `Fsetdta`: no object is created before it), `Search`, `RestoreDta` |
| `DtaCopydta` | `BeginCopydta`, `DtaCopydta`, with collections and finalizers in between |
| the accessors of a Dta | `DtaName` |
| `l_Fdelete` | `l_Fdelete` |
| Lua | `PushRaises` (no memory), `Drop`, `Collect`, `ScriptFinalizerStarts`, `ScriptFinalizerEnds` |

A file is its number in directory order. GEMDOS is external: it finds files in
that order and goes on when files are deleted, as `unittest/fsnext.lua` relies
on, and no file is created while searches are under way. Between `SetDta` and
`RestoreDta` no Lua object is created, and so nothing else can run: the model
does not assume it, `DtaIsRestored` says it.

### 2.6 ProcessEnvironment

One call of Pexec0, with the environment and the table of arguments chosen at
the start. `PushArgsString` measures the arguments in one pass (`Measure`),
allocates (`Allocate`) and copies in another (`Copy`), by the length it took
from the table; a finalizer may write to the table in between (`Rewrite`).
`l_Pexec0` joins the five strings of the environment block and cuts the command
tail. A string is the sequence of its bytes, with `ARGV=` as one byte. The child
is external: `ChildEnv` and `ChildArgv` read the block by the ARGV convention, and
so are the reference definition that the block is checked against; `TailWords` are
the arguments for a program that knows only the tail. All three cut bytes at a
separator (`Pieces`). `GetEnvStr` and `GetEnvTbl` are the two ways to look up a
variable.

The strings of the parent's environment are not empty and hold no zero byte, as
one ends a string and an empty string the block, and none is `ARGV=`: the start-up
code of the parent has taken its own arguments from there
(`EnvironmentHoldsStrings`). A name looked up is not empty and holds no `=`
(`NamesAreNames`).

Left out: the two bytes of the tail that do not depend on the arguments, its length
byte, always 127 (`gemdos_p.c:168`), and the zero byte after its last character.

What the call does to handles is `Pexec0` of `GemdosFile`.

### 2.7 Timestamps

`date` and `time` are the two 16-bit words, of the clock or of a file. A step is
one call that sets them; the getters are operators. The reference is the
Gregorian calendar (`LastDay`), not the table of the code. Its specification is
`ClockSpec`, so that one module can extend it and `ProcessEnvironment`.

## 3. Runs

| Run | Question | Bounds, and why they are enough |
|---|---|---|
| `memory_life` | can any order of calls, finalizers and collections leak a block, free it twice or wrongly, or report ENSMEM too early? do allocations return, does `lua_close` give everything back, is every step one of `ResourceOwner`? | 2 userdata (an owner and an alias, or an owner and a new one), 1 block in each heap, so that allocation fails and collects, 1 foreign area, 3 attempts, 2 script finalizers per collection. The theorems hold for any number |
| `memory_read` | violated: a read can leave its memory (finding 1) | 2 userdata |
| `file_life` | are handles ever lost, shared, or used or closed after reuse? does `lua_close` close everything but what was detached, is every step one of `ResourceOwner`? | 2 files for 2 handles, so handles are reused and run out; 2 standard handles, which one file can be forced onto both of; 2 script finalizers. The theorems hold for any number |
| `file_datime` | violated: finding 2 | 2 files |
| `transfer_blocks` | does every transfer move exactly what was asked, and say so? | lengths and positions up to 5 with blocks of 8 (tables) and 3 bytes: up to three blocks, the last one short, and values that a short block splits; numbers and positions down to -6. The theorems hold for any lengths and blocks |
| `access_bounds` | are all accesses inside and aligned, and the checks exact? | memories of 0-9 bytes (longs straddle the end), offsets and counts from -1 to 4; words wide enough that no sum wraps. The theorems hold for any sizes with that |
| `access_overflow` | violated: finding 3 | words of 4 bits |
| `gempb_calls` | do accesses stay in their arrays, however pokes, traps and peeks follow? | arrays of 1 or 2 words and control arrays of full length; up to 7 arguments (8 stack slots): a full trap, or a poke, a trap and peeks; several calls in a row; offsets and numbers of the array functions down to -1. The theorems hold for arrays and argument lists of any length |
| `gempb_counts` | violated: finding 4 | counts down to -1 |
| `search_dta` | does the process get its DTA back, and does every Dta go on with its own search? | 3 userdata (two searches and a copy) over 3 files, so that a search can be before, at and past another's file; patterns that select all, some or none. The theorems hold for any number |
| `pexec_environment` | does the child read what was given, is the tail a cut list of it, and does getenv find the first variable of a name, its table the last? | 2 variables, whose names may begin alike or repeat; 3 arguments of up to 2 bytes, among them an empty one, no string, one with a zero byte and one with a space, and a tail of 4 bytes, which cuts between and inside arguments; 1 write by a finalizer. The theorems hold for any number of any length |
| `timestamps` | are exactly the real dates and times accepted, and told as they were set? | both sides of every limit of every field; leap years, 2000, and 2100 which is none. The theorems hold for any arguments |

Deadlock is checked in `gempb_calls` and `search_dta`: elsewhere the system stops,
after `lua_close` or at the end of a one-call module. No run uses symmetry, which
liveness checking does not allow.

Sizes, counts and words are small everywhere; the block sizes, the word width
and the numbers of attempts and values are parameters, so the arithmetic of the
code is kept and only its scale is reduced. `MaxScriptFin`, `MaxSize`,
`MaxCount`, `MaxArg`, `MaxTop`, `MaxNegative`, `MaxEnv`, `MaxArgs` and `MaxRewrites` are
bounds of the models, and not of the code.

A run checks what its module adds. `OneOwner` is not checked by itself in the two
ownership runs, as the refinement of `ResourceOwner` includes it; the type
invariant of `DirectorySearch` is a theorem only, and the one-call modules state none.

### Fairness

* `WF(CallStep)`, `WF(TransferReturns)`,
  `WF(NextBlock \/ Answer \/ Return)`: a C function that has started goes on, and GEMDOS calls return
  (a device that never answers hangs the machine).
* `WF((closing \/ pc = "drain") /\ FinalizerStep)`: `lua_close` and a full
  collection walk a list of finalizers to its end. Between calls the collector
  is not fair: nothing is promised about when garbage is freed.
* `WF(ScriptFinalizerEnds)`, `WF(FinalizerReturns)`: finalizers written by the
  script terminate. `Resurrect`, and what they allocate, is unconstrained.

Scripts get no fairness: they need not call anything. In `GemPb` no fairness is
used: `ParsingAdvances` is a measure that every step of a call decreases, and the
run checks that there is no deadlock, so a call cannot go on for ever.

## 4. Findings

1. `memory_read`: `MemoryReadt` and `MemoryReads` check the memory, create Lua
   objects, then read through the userdata. A finalizer may have freed or shrunk
   the memory in between. Freads, Freadt and Fwritet treat their file in the same
   order, and may use handle zero when a finalizer has closed it.
2. `file_datime`: `l_Fdatime` alone does not look at `valid`; on a closed or
   detached file it acts on handle zero, the console.
3. `access_overflow`: `offset + bytes` wraps in the range checks of the access
   functions. So do the byte count of readt and the sums of the array functions
   get, poke and peek.
4. `gempb_counts`: the counts given to vdi, aes and call are checked from above
   only; -1 reaches the trap as 65535.

Besides, `l_Fdatime` pushes its result and then the six integers, while
`README.md:571` lists the year as the first of them; `Timestamps` has the words
only, and not the order of results. The comments at `gemdos_f.c:707` (Freadi) and
`gemdos_m.c:476` (peek) still give 16 as the largest number of values, where the code
(`gemdosi.h:124`) and `README.md:434` and 992 have 24; `MaxMultival` is the code's.

Each is quoted with its lines in `PROJECT.json`. The passing runs take arguments
that avoid 3 and 4; 1 and 2 concern calls that the passing properties do not
speak of.

## 5. Proofs

`GemdosMemory_proofs` proves, for any sets of userdata and blocks, any sizes and
any numbers of attempts and finalizers, from the assumptions `PoolsDisjoint` (the
two heaps, foreign memory and the null pointer are different) and
`BoundsAreNumbers`:

| Theorem | Property |
|---|---|
| `MemoryTyped` | `TypeOK` |
| `OwnedBlocksAreAllocated` | `OwnedIsAllocated` |
| `BlocksHaveAtMostOneOwner` | `OneOwner` |
| `NoBlockLeaks` | `NoLeak` |
| `FinalizedStaysInvalid` | `FinalizedIsInvalid`, a part of the invariant: after `__gc` a userdata is invalid for ever |
| `AllocationIsPrivate` | `NewUserdataIsPrivate` |
| `EnsmemIsLastResort` | `EnsmemAfterCollection` |
| `FreedByOwnerOnly` | `OnlyOwnerFrees` |
| `MemoryImplementsOwner` | `BlocksHaveOneOwner` (refinement of `ResourceOwner`) |
| `CloseEndsWithAllReleased` | when `lua_close` has no finalizer left to call, what is still allocated belongs to userdata that finalizers made after it began |
| `FinalizersAlwaysRunOut` | the finalizers that `lua_close` or a full collection has to call only become fewer |
| `CallsAlwaysAdvance` | each step of a call returns from it or takes it further, at most three stages for each attempt |

None of these invariants is inductive alone. `IInv` joins them to
* `NullIsInvalid`: a struct with a null pointer is invalid in every field, which
  is what lets `MemoryFree` decide on `ptr` and free by `allocator`;
* `HeldIsBorn`: what the script holds exists, so that a new userdata is nobody's;
* `CollectInv`: attempts and the marking alternate with no script finalizer
  running; what the last collection marked is queued or finalized until it
  returns, and invalid afterwards.

Ownership changes in three ways only, and the proof of the step has a lemma for
each: a block is given to a userdata that owned nothing (`GiveKeepsOwnInv`), is
taken back from its owner (`TakeKeepsOwnInv`), or structs that own nothing are
rewritten (`AliasKeepsOwnInv`: wrapping, failing, dropping). `NextInv` reduces each
action to one of them. The refinement proof has the same shape: `GiveMaps` is
`Acquire`, `TakeMaps` is `Release`, everything else stutters, and `StepMaps`
collects them. The action properties follow from `IInv` on both sides of a step.

The last three theorems are the safe halves of `CloseReleasesAll` and `CallsReturn`:
what is true when nothing is left to do, and that every step leaves less to do.
They need one more invariant, `ClosingQueuesAll`: once `lua_close` has begun, each
userdata has its finalizer to come, has had it, or was made too late. Its steps rest on
`ScriptQueuesNothing`: no finalizer of the script, whatever it allocates, drops or
brings back, puts a userdata on the list. What fairness adds is only that the
steps are taken.

`GemdosFile_proofs` proves, for any sets of userdata and handles, from the
assumptions of `GemdosFile` on its constants:

| Theorem | Property |
|---|---|
| `FileTyped` | `TypeOK` |
| `ValidFilesAreOpen` | `ValidIsOpen` |
| `HandlesHaveAtMostOneOwner` | `OneOwner` |
| `NoHandleLeaks` | `NoHandleLeak` |
| `ClosedByOwnerOrChild` | `OnlyOwnerCloses` |
| `DetachedIsLeftOpen` | `DetachedStaysOpen` |
| `FileImplementsOwner` | `HandlesHaveOneOwner` (refinement of `ResourceOwner`) |
| `CloseEndsWithAllReleased` | when `lua_close` has no finalizer left to call, what is still open was detached or belongs to userdata that finalizers made after it began |
| `FinalizersAlwaysRunOut` | the finalizers that `lua_close` has to call only become fewer |

The invariant says that who would close a handle still has its `__gc` to come
(`OwnerIsDue`), that what is owned is open and what is open is owned
(`OwnedIsOpen`, `OpenIsOwned`), by one (`OneOwner`), that a file whose handle a
child closed is still held by the script (`OrphansAreHeld`), and that what was
detached has no owner (`GivenIsUnowned`). The last two are what the properties
alone lack: without them a dropped orphan or a detached handle given out again
would be closed by the wrong userdata. Every step is of one of five kinds, with a
lemma each: it opens a handle, closes one, detaches one, runs a child, or leaves
handles and owners alone.

`DirectorySearch_proofs` proves, for any numbers of Dta userdata and files:

| Theorem | Property |
|---|---|
| `SearchTyped` | `TypeOK` |
| `DtaComesBack` | `DtaIsRestored` |
| `SearchesGoOn` | `EverySearchGoesOn` (refinement of `Searches`) |

Here `TypeOK` is not inductive alone either: the userdata that `RestoreDta` gives to
the script must still exist. The invariant says what a call in progress relies
on: the DTA is switched only between `SetDta` and `RestoreDta`, and the one
remembered is the process's (`Switched`); a finalizer has a call only while it
runs (`Nesting`); what a call works on exists, is not the script's yet if the call
made it, and is blank until GEMDOS has found a file (`CallsOwn`); two calls never
make the same userdata (`CallsDiffer`); what the script holds is at a file
(`Contents`). For the refinement, `Search` is `Begin` or `Advance` when it finds
something, `DtaCopydta` is `Fork`, `Collect` is `Forget`, and everything else leaves
the searches alone; `HasMin` supplies the least of the files still to visit.

`Imode_proofs` has what the next two modules keep needing: a word that fits is not
changed by `Wrapped` (`WrappedFits`); the checks on positions in strings and in
tables accept the same ranges, those that are a part of the documentation's
positions (`SameRanges`, `PartIsRange`); sums, differences and products of whole
values are whole values (`WholeSums`, `WholeProducts`).

`FileTransfer_proofs` proves, for strings, tables, memories, blocks and values of any
number and length, and any answers of the device:

| Theorem | Property |
|---|---|
| `RangeAlwaysAsked` | `RangeIsAsked` |
| `BlocksAlwaysContiguous` | `BlocksAreContiguous` |
| `AmountAlwaysFits` | `AmountFitsBlock` |
| `ReturnAlwaysTellsMoved` | `ReturnTellsMoved` |
| `WholeValuesAlwaysStored` | `WholeValuesAreStored` |
| `BadNeverWritten` | `BadIsNeverWritten` |
| `TransferKeepsPromise` | `MovesAsPromised` (refinement of `Transfer`) |
| `TransferAlwaysAdvances` | every step of a transfer lowers a number (`Left`), the safe half of `CallsReturn` |

The hypothesis `BytesFit`, 4 * `MaxCount` <= `WordMax`, says that the bytes of a
count fit a word; beyond it the byte count of readt wraps (finding 3), and
`RangeIsAsked` is false. That property is proved from the arguments of each call:
the code's checks on them are those of the documentation (`ModesChecked`,
`NumberAsked` for numbers of either sign, `PartIsRange`), so that a call goes on
exactly when it may, with the bytes asked for. The invariant ties what remains to what was
moved (`Loops`: `from + remaining` is the end of the range, `from` the first byte
not moved, except that a write of values may have left parts of values out), the
block to what remains (`Asks`), the way a loop was left to its last answer
(`Ends`: only a short block, an empty one or an error ends it early), and the
values stored to the bytes moved in every state of a read (`Stores`).
`BadIsNeverWritten` is only inductive with `BeforeBad`: the next block begins, and
the block in progress ends, before the first bad value. In the refinement
`Begin` is `Start`, an answer that moves bytes is `Move`, `Return` is `Return`, or `Fail`
when it tells of an error, a bad value in `NextBlock` is `Fail`, and everything else
stutters.

`MemoryAccess_proofs` proves, for memories of any size:

| Theorem | Property |
|---|---|
| `AccessAlwaysInside` | `AccessInside` |
| `ChecksAlwaysExact` | `ChecksAreExact` |
| `BadNeverStored` | `BadIsNeverStored` |

from `SumsFit`, 5 * `MaxCount` <= `WordMax`: an offset and the bytes of a count have
a sum within a word. `access_overflow` shows `AccessInside` violated without it.
The invariant (`Inside`) says that what is to do lies inside each memory
the call works on, starts aligned and is whole values; one lemma
(`AccessBegins`) reduces each call to two facts, that its checks
agree with the documentation and that what passes them lies inside.

`GemPb_proofs` proves, for arrays of any size and calls of any length:

| Theorem | Property |
|---|---|
| `ChecksAlwaysExact` | `ChecksAreExact` |
| `TrapAlwaysSeesItsArguments` | `TrapSeesItsArguments` |
| `ArgumentsAlwaysUsed` | `ArgumentsAreUsed` |
| `ResultsAlwaysTheTraps` | `ResultsAreTheTraps` |
| `ParsingAlwaysAdvances` | `ParsingAdvances` |
| `CountsFitUnlessNegative` | `CountsFit`, which `gempb_counts` finds violated by negative counts |

from `SumsFit`, 2 * `MaxArg` <= `WordMax`: two arguments have a sum within a word.
`ChecksAlwaysExact` needs no other hypothesis, and no sign of the arguments.
The invariant says how far the parser has got: it reads its arguments once, in
order, and no further than one past the last (`IndexInside`), and no control
array is set while values may still be stored (`NoControlYet`). The last theorem
also assumes that no count is negative and that no array is longer than the
largest short (`CountsAreShorts`; the arrays of the block are far shorter). Under
the same conditions the finding cannot happen, so the missing lower bound is the
only gap in these checks.

`ProcessAndTime_proofs` proves, for environments and argument lists of any number
and length, a tail of any size, and any dates and times:

| Theorem | Property |
|---|---|
| `CopyAlwaysAsMeasured` | `CopyIsAsMeasured` |
| `ChildAlwaysGetsWhatWasGiven` | `ChildGetsWhatWasGiven` |
| `TailIsAlwaysCutList` | `TailIsCutList` |
| `TableAlwaysAgreesWithGetenv` | `TableAgreesWithGetenv` |
| `OnlyRealTimesAreEverSet` | `OnlyRealTimesAreSet` |
| `WhatWasSetIsAlwaysTold` | `GettersTellWhatWasSet` |

from the assumptions of `ProcessEnvironment` on its constants
(`EnvironmentHoldsStrings`, `NamesAreNames`, section 2.6). The invariant (`Measured`)
says that, as long as no finalizer has written to the table, what has been
measured is as long as the arguments so far joined, and what has been copied is
what they are joined to; so the block is known when the child starts
(`CopyAlwaysAsMeasured` follows too).

The rest is about strings. The library's induction theorems take an operator as
a parameter, which the provers cannot instantiate; the proofs use instead that a
set of numbers has a least element (`HasLeast`, from the library's `WFMin`), and
from it an induction over the members of a set (`Reaches`). With these:

* strings can be joined one by one, and that is what `FlattenSeq` gives (`Stages`,
  `StagesExist`, `JoinedIsLastStage`);
* what strings are joined to is cut into the same strings again, and an empty one
  (`PiecesOfJoined`), so that the child's first empty string is the end of the
  block, and its first `ARGV=` the end of the environment (`BlockIsRead`,
  `ListsAreTold`);
* the tail is a prefix of the same bytes with spaces for the zero bytes, so that
  all its pieces but the last are arguments (`PiecesOfTail`);
* a string begins with a name and `=` exactly if its first `=` follows that name
  (`NameFound`); of several such strings getenv finds the least, and its table keeps
  the greatest (`LookupsAgree`).

For dates and times, the fields of a packed word are found in it again
(`DateUnpacked`, `TimeUnpacked`), and the days the checks allow are those of the
calendar between 1980 and 2099 (`DaysAreReal`).

Every invariant, action property and refinement that a passing run checks is a
theorem. Only model-checked:

* liveness (`CallsReturn` and `CloseReleasesAll`, each of two modules): leads-to under
  fairness is beyond the prover. Proved are their safe halves, without fairness:
  `CallsAlwaysAdvance`, `FinalizersAlwaysRunOut`, `CloseEndsWithAllReleased`,
  `TransferAlwaysAdvances`. That a step of the call or the finalizer is always
  possible, and is taken, is what TLC adds;
* that `GemPb` and `DirectorySearch` do not deadlock, which needs ENABLED. Of `GemPb`'s
  termination the measure is proved (`ParsingAlwaysAdvances`).

## 6. Plan

In order:

1. *(done)* `GemdosMemory`, its runs, its abstract specification and its proofs.
2. *(done)* `GemdosFile`; `FileTransfer` and `MemoryAccess` with their arithmetic;
   `GemPb`.
3. *(done)* The directory search with its abstract specification; the environment
   block; dates and times; `GemdosFile` as an implementation of `ResourceOwner`.
4. *(done)* Proofs of `GemdosFile` and `DirectorySearch`.
5. *(done)* Proofs of `FileTransfer` with its abstract specification,
   `MemoryAccess`, `GemPb`, `ProcessEnvironment` and `Timestamps`.
6. *(done)* The safe half of the liveness properties, as theorems.
7. Read-only tables: what the proxy lets a script reach.

### Not modelled, and why

Character, directory and system functions are one GEMDOS call each and keep no
state, as do Frename and Fattrib. Pterm ends the process. Module registration fills tables
once, and Esc of `tbgemdos.c` raises an error where the script runs next. The proxy of
a read-only table keeps no state of its own; its hazard, the target handed to
`pairs`, is listed. Two hazards need arguments or failures that the models leave
out: functions that rotate the stack by an absolute index when they are given an
argument too many, and a metatable left half built when memory runs out the very
first time a userdata is made. The build files and the unit tests are not part of
the running binding; the tests are read for what they say of it.
