----------------------------- MODULE GemdosMemory -----------------------------
(***************************************************************************)
(* The life of Memory userdata (src/gemdos/gemdos_m.c): how blocks of the  *)
(* GEMDOS heap and of the C library's heap are allocated into a userdata,  *)
(* wrapped, shrunk and freed, by the script, by to-be-closed variables and *)
(* by the garbage collector, which runs in the middle of some of the       *)
(* binding's own functions.                                                *)
(*                                                                         *)
(* The Lua state is a single thread.  What interleaves is the collector:   *)
(* at every point where a C function or the script allocates a Lua object  *)
(* pending finalizers may run, those of Memory userdata (MemoryFree) and   *)
(* those the script gave to its own tables, which are Lua code and may     *)
(* call the binding again.  As in Lua 5.4.4 and later, and 5.5, collection *)
(* is stopped while a finalizer runs, so finalizers do not nest.           *)
(*                                                                         *)
(* The contents of memory are not modelled here; sizes are.                *)
(***************************************************************************)
EXTENDS Integers

CONSTANTS
  Userdata,        \* identities a Memory userdata can have
  GemdosBlock,     \* blocks Malloc can hand out
  LibcBlock,       \* blocks malloc can hand out
  ForeignArea,     \* memory no allocator owns (screen, system variables)
  NULL,            \* the null pointer
  MaxSize,         \* bytes in the largest allocation (bounds the sizes)
  MaxAllocTries,   \* MAX_ALLOC_TRIES of gemdos_m.c
  MaxScriptFin     \* script finalizers a collection finds (a bound)

Block == GemdosBlock \cup LibcBlock
Address == Block \cup ForeignArea
Size == 1..MaxSize
Allocator == {"gemdos", "libc"}

\* The blocks an allocator hands out.
Pool(a) == IF a = "gemdos" THEN GemdosBlock ELSE LibcBlock

ASSUME PoolsDisjoint ==
  /\ GemdosBlock \cap LibcBlock = {}
  /\ ForeignArea \cap Block = {}
  /\ NULL \notin Address

ASSUME BoundsAreNumbers ==
  /\ MaxSize \in Nat \ {0}
  /\ MaxAllocTries \in Nat \ {0}
  /\ MaxScriptFin \in Nat

VARIABLES
  heap,        \* per block: who allocated it ("free" if nobody) and its size
  mud,         \* per userdata: the C struct Memory
  life,        \* per userdata: where it stands with the collector
  held,        \* userdata the script can reach
  call,        \* the C function in progress that a collection can interrupt
  scripts,     \* script finalizers found by a collection and not yet run
  fin,         \* a script finalizer is running
  closing      \* lua_close has been called

vars == <<heap, mud, life, held, call, scripts, fin, closing>>
-------------------------------------------------------------------------------
\* A userdata is unborn, then live; the collector moves it to pending when it
\* finds it unreachable and to finalized when __gc has been called.  One
\* created while the state closes is exempt: Lua never calls its __gc.
Life == {"unborn", "live", "pending", "finalized", "exempt"}

InvalidMemory == [ptr |-> NULL, size |-> 0, allocator |-> "none"]

\* pc: "try" before an allocation attempt, "collect" before lua_gc, "drain"
\* while lua_gc calls finalizers, "gcpoint" between the checks of a read and
\* the read, "cycled" when a collection has begun there.  marked is history:
\* what the call's last lua_gc found unreachable.
NoCall ==
  [op |-> "none", ud |-> NULL, n |-> 0, try |-> 0, pc |-> "idle", marked |-> {}]

NewCall(op, u, n, pc) ==
  [op |-> op, ud |-> u, n |-> n, try |-> 0, pc |-> pc, marked |-> {}]

Calls ==
  {NoCall} \cup
  [op : Allocator \cup {"readt", "reads"}, ud : Userdata, n : Size,
   try : 0..(MaxAllocTries - 1),
   pc : {"try", "collect", "drain", "gcpoint", "cycled"},
   marked : SUBSET Userdata]

\* The C struct Memory.
Memory == [ptr : Address \cup {NULL}, size : 0..MaxSize,
           allocator : Allocator \cup {"none"}]

Heap == [Block -> [by : Allocator \cup {"free"}, size : 0..MaxSize]]

TypeOK ==
  /\ heap \in Heap
  /\ mud \in [Userdata -> Memory]
  /\ life \in [Userdata -> Life]
  /\ held \in SUBSET Userdata
  /\ call \in Calls
  /\ scripts \in 0..MaxScriptFin
  /\ fin \in BOOLEAN
  /\ closing \in BOOLEAN

Init ==
  /\ heap = [b \in Block |-> [by |-> "free", size |-> 0]]
  /\ mud = [u \in Userdata |-> InvalidMemory]
  /\ life = [u \in Userdata |-> "unborn"]
  /\ held = {}
  /\ call = NoCall
  /\ scripts = 0
  /\ fin = FALSE
  /\ closing = FALSE
-------------------------------------------------------------------------------
(* Who runs.                                                               *)

\* A finalizer, or else the main program between two calls.
ScriptRuns == fin \/ (call = NoCall /\ ~closing)

\* The collector may call a pending finalizer.
FinalizersRun ==
  ~fin /\ (call = NoCall \/ call.pc \in {"drain", "gcpoint", "cycled"})

\* On the Lua stack of the call in progress, or held by the script.
Reachable(u) == u \in held \/ u = call.ud

\* u is the block's owner: it will be freed through u.
Owns(u, b) == mud[u].ptr = b /\ mud[u].allocator # "none"
-------------------------------------------------------------------------------
(* The allocators, as the binding uses them.                               *)

\* Malloc and malloc: a free block, if there is one.
Available(a) == {b \in Pool(a) : heap[b].by = "free"}

Allocated(b, a, n) == [heap EXCEPT ![b] = [by |-> a, size |-> n]]

\* Faulty: a wrapped block is freed too.
ReleasedAnyBlock(u) ==
  IF mud[u].ptr \notin Block THEN heap
  ELSE [heap EXCEPT ![mud[u].ptr] = [by |-> "free", size |-> 0]]

\* Mfree and free, by the allocator field; a wrapped memory is not freed.
Released(u) ==
  IF mud[u].allocator = "none" THEN heap
  ELSE [heap EXCEPT ![mud[u].ptr] = [by |-> "free", size |-> 0]]
-------------------------------------------------------------------------------
(* Creating userdata.                                                      *)

PushMemoryUserData(u) ==
  /\ life[u] = "unborn"
  /\ life' = [life EXCEPT ![u] = IF closing THEN "exempt" ELSE "live"]

\* Faulty: size and allocator are recorded before there is a block.
BeginAllocRecordsEarly(a, u, n) ==
  /\ ScriptRuns /\ ~fin
  /\ PushMemoryUserData(u)
  /\ mud' = [mud EXCEPT ![u] = [ptr |-> NULL, size |-> n, allocator |-> a]]
  /\ call' = NewCall(a, u, n, "try")
  /\ UNCHANGED <<heap, held, scripts, fin, closing>>

\* l_Malloc and l_Mallocm from the main program, up to the first attempt.
BeginAlloc(a, u, n) ==
  /\ ScriptRuns /\ ~fin
  /\ PushMemoryUserData(u)
  /\ mud' = [mud EXCEPT ![u] = InvalidMemory]
  /\ call' = NewCall(a, u, n, "try")
  /\ UNCHANGED <<heap, held, scripts, fin, closing>>

l_Malloc(u, n) == BeginAlloc("gemdos", u, n)
l_Mallocm(u, n) == BeginAlloc("libc", u, n)

\* Faulty: the allocator is not recorded.
AllocForgetsAllocator ==
  /\ call.op \in Allocator /\ call.pc = "try" /\ ~fin
  /\ \E b \in Available(call.op) :
       /\ heap' = Allocated(b, call.op, call.n)
       /\ mud' = [mud EXCEPT ![call.ud] =
                    [ptr |-> b, size |-> call.n, allocator |-> "none"]]
  /\ held' = held \cup {call.ud}
  /\ call' = NoCall
  /\ UNCHANGED <<life, scripts, fin, closing>>

\* An attempt succeeds: the struct is filled and the userdata returned.
AllocSucceeds ==
  /\ call.op \in Allocator /\ call.pc = "try" /\ ~fin
  /\ \E b \in Available(call.op) :
       /\ heap' = Allocated(b, call.op, call.n)
       /\ mud' = [mud EXCEPT ![call.ud] =
                    [ptr |-> b, size |-> call.n, allocator |-> call.op]]
  /\ held' = held \cup {call.ud}
  /\ call' = NoCall
  /\ UNCHANGED <<life, scripts, fin, closing>>

\* Faulty: one attempt too many.
AllocRetriesOnceMore ==
  /\ call.op \in Allocator /\ call.pc = "try" /\ ~fin
  /\ Available(call.op) = {}
  /\ call.try + 1 <= MaxAllocTries
  /\ call' = [call EXCEPT !.try = @ + 1, !.pc = "collect"]
  /\ UNCHANGED <<heap, mud, life, held, scripts, fin, closing>>

\* Faulty: the attempts are not counted.
AllocRetriesForEver ==
  /\ call.op \in Allocator /\ call.pc = "try" /\ ~fin
  /\ Available(call.op) = {}
  /\ call.try + 1 < MaxAllocTries
  /\ call' = [call EXCEPT !.pc = "collect"]
  /\ UNCHANGED <<heap, mud, life, held, scripts, fin, closing>>

\* An attempt fails and is not the last: collect garbage before the next.
AllocRetries ==
  /\ call.op \in Allocator /\ call.pc = "try" /\ ~fin
  /\ Available(call.op) = {}
  /\ call.try + 1 < MaxAllocTries
  /\ call' = [call EXCEPT !.try = @ + 1, !.pc = "collect"]
  /\ UNCHANGED <<heap, mud, life, held, scripts, fin, closing>>

\* The last attempt fails: the userdata is popped and ENSMEM returned.
AllocFails ==
  /\ call.op \in Allocator /\ call.pc = "try" /\ ~fin
  /\ Available(call.op) = {}
  /\ call.try + 1 = MaxAllocTries
  /\ call' = NoCall
  /\ UNCHANGED <<heap, mud, life, held, scripts, fin, closing>>

\* The same functions called by a finalizer.  lua_gc does nothing there, so
\* the attempts follow one another and the call is one step.  A failed call
\* leaves a userdata that owns nothing and nobody holds.
FinalizerAlloc(a, u, n) ==
  /\ fin
  /\ PushMemoryUserData(u)
  /\ \/ \E b \in Available(a) :
          /\ heap' = Allocated(b, a, n)
          /\ mud' = [mud EXCEPT ![u] =
                       [ptr |-> b, size |-> n, allocator |-> a]]
          /\ held' = held \cup {u}
     \/ /\ Available(a) = {}
        /\ mud' = [mud EXCEPT ![u] = InvalidMemory]
        /\ UNCHANGED <<heap, held>>
  /\ UNCHANGED <<call, scripts, fin, closing>>

\* Faulty: the wrapper thinks it owns the memory.
MwrapmTakesOwnership(u, p, n) ==
  /\ ScriptRuns
  /\ PushMemoryUserData(u)
  /\ mud' = [mud EXCEPT ![u] = [ptr |-> p, size |-> n, allocator |-> "gemdos"]]
  /\ held' = held \cup {u}
  /\ UNCHANGED <<heap, call, scripts, fin, closing>>

\* Wraps any address, a block that a userdata owns included.
l_Mwrapm(u, p, n) ==
  /\ ScriptRuns
  /\ PushMemoryUserData(u)
  /\ mud' = [mud EXCEPT ![u] = [ptr |-> p, size |-> n, allocator |-> "none"]]
  /\ held' = held \cup {u}
  /\ UNCHANGED <<heap, call, scripts, fin, closing>>
-------------------------------------------------------------------------------
(* Releasing and shrinking.                                                *)

InvalidateMemoryUserData(u) == mud' = [mud EXCEPT ![u] = InvalidMemory]

\* Faulty: memory of the C library is forgotten, not freed.
MemoryFreeForgetsLibc(u) ==
  IF mud[u].allocator # "gemdos" THEN InvalidateMemoryUserData(u) /\ UNCHANGED heap
  ELSE heap' = Released(u) /\ InvalidateMemoryUserData(u)

\* What __gc and __close do: nothing when the userdata is already invalid.
MemoryFree(u) ==
  IF mud[u].ptr = NULL THEN UNCHANGED <<heap, mud>>
  ELSE heap' = Released(u) /\ InvalidateMemoryUserData(u)

\* The script calls Mfree on a valid memory; the error path changes nothing.
l_Mfree(u) ==
  /\ ScriptRuns /\ u \in held
  /\ mud[u].ptr # NULL
  /\ heap' = Released(u)
  /\ InvalidateMemoryUserData(u)
  /\ UNCHANGED <<life, held, call, scripts, fin, closing>>

\* A to-be-closed variable goes out of scope, whatever was done before.
MemoryClose(u) ==
  /\ ScriptRuns /\ u \in held
  /\ MemoryFree(u)
  /\ held' = held \ {u}
  /\ UNCHANGED <<life, call, scripts, fin, closing>>

\* Faulty: the size is updated even when GEMDOS refuses.
MshrinkIgnoresError(u, n) ==
  /\ ScriptRuns /\ u \in held
  /\ mud[u].ptr # NULL /\ mud[u].allocator = "gemdos"
  /\ mud' = [mud EXCEPT ![u].size = n]
  /\ IF n <= heap[mud[u].ptr].size
     THEN heap' = [heap EXCEPT ![mud[u].ptr].size = n]
     ELSE UNCHANGED heap
  /\ UNCHANGED <<life, held, call, scripts, fin, closing>>

\* GEMDOS refuses to enlarge a block; the size is updated when it agrees.
l_Mshrink(u, n) ==
  /\ ScriptRuns /\ u \in held
  /\ mud[u].ptr # NULL /\ mud[u].allocator = "gemdos"
  /\ IF n <= heap[mud[u].ptr].size
     THEN /\ heap' = [heap EXCEPT ![mud[u].ptr].size = n]
          /\ mud' = [mud EXCEPT ![u].size = n]
     ELSE UNCHANGED <<heap, mud>>
  /\ UNCHANGED <<life, held, call, scripts, fin, closing>>

\* The script forgets its last reference.
Drop(u) ==
  /\ ScriptRuns /\ u \in held
  /\ held' = held \ {u}
  /\ UNCHANGED <<heap, mud, life, call, scripts, fin, closing>>
-------------------------------------------------------------------------------
(* Reads: the checks, then Lua objects are created (a table, a key, a      *)
(* buffer), then the memory is read through the userdata.                  *)

BeginRead(op, u, n) ==
  /\ ScriptRuns /\ ~fin /\ u \in held
  /\ mud[u].ptr # NULL /\ n <= mud[u].size
  /\ call' = NewCall(op, u, n, "gcpoint")
  /\ UNCHANGED <<heap, mud, life, held, scripts, fin, closing>>

Reading == call.pc \in {"gcpoint", "cycled"}

MemoryReadt(u, n) == BeginRead("readt", u, n)
MemoryReads(u, n) == BeginRead("reads", u, n)

\* The bytes are read and the call returns.
ReadReturns ==
  /\ Reading /\ ~fin
  /\ call' = NoCall
  /\ UNCHANGED <<heap, mud, life, held, scripts, fin, closing>>
-------------------------------------------------------------------------------
(* The collector.                                                          *)

Garbage == {u \in Userdata : life[u] = "live" /\ ~Reachable(u)}

\* A cycle's atomic phase: unreachable userdata, and some of the script's own
\* objects, are queued for finalization; what earlier cycles finalized and
\* nobody brought back is freed.
MarkAndSweep ==
  /\ life' = [u \in Userdata |->
                IF u \in Garbage THEN "pending"
                ELSE IF life[u] = "finalized" /\ ~Reachable(u) THEN "unborn"
                ELSE life[u]]
  /\ scripts' \in scripts..MaxScriptFin

\* The incremental collector, at an allocation; the few objects a read creates
\* take it through one atomic phase at most.
CollectorStep ==
  /\ ~fin /\ ~closing
  /\ \/ call = NoCall /\ UNCHANGED call
     \/ call.pc = "gcpoint" /\ call' = [call EXCEPT !.pc = "cycled"]
  /\ MarkAndSweep
  /\ UNCHANGED <<heap, mud, held, fin, closing>>

\* lua_gc(L, LUA_GCCOLLECT) between two attempts.
FullCollect ==
  /\ call.pc = "collect" /\ ~fin
  /\ MarkAndSweep
  /\ call' = [call EXCEPT !.pc = "drain", !.marked = Garbage]
  /\ UNCHANGED <<heap, mud, held, fin, closing>>

\* Faulty: the next attempt does not wait for the finalizers.
CollectReturnsEarly ==
  /\ call.pc = "drain" /\ ~fin
  /\ call' = [call EXCEPT !.pc = "try"]
  /\ UNCHANGED <<heap, mud, life, held, scripts, fin, closing>>

\* It returns when it has called every pending finalizer.
FullCollectReturns ==
  /\ call.pc = "drain" /\ ~fin
  /\ scripts = 0 /\ \A u \in Userdata : life[u] # "pending"
  /\ call' = [call EXCEPT !.pc = "try"]
  /\ UNCHANGED <<heap, mud, life, held, scripts, fin, closing>>

\* The collector calls __gc once, even if a finalizer brought u back.
MemoryGC(u) ==
  /\ FinalizersRun
  /\ life[u] = "pending"
  /\ MemoryFree(u)
  /\ life' = [life EXCEPT ![u] = "finalized"]
  /\ UNCHANGED <<held, call, scripts, fin, closing>>

ScriptFinalizerStarts ==
  /\ FinalizersRun /\ scripts > 0
  /\ fin' = TRUE /\ scripts' = scripts - 1
  /\ UNCHANGED <<heap, mud, life, held, call, closing>>

ScriptFinalizerEnds ==
  /\ fin
  /\ fin' = FALSE
  /\ UNCHANGED <<heap, mud, life, held, call, scripts, closing>>

\* A script object being finalized refers to u and stores it again.
Resurrect(u) ==
  /\ fin
  /\ life[u] \in {"pending", "finalized"} /\ u \notin held
  /\ held' = held \cup {u}
  /\ UNCHANGED <<heap, mud, life, call, scripts, fin, closing>>

\* The program ends: lua_close queues every userdata, held or not.
LuaClose ==
  /\ call = NoCall /\ ~fin /\ ~closing
  /\ closing' = TRUE
  /\ life' = [u \in Userdata |-> IF life[u] = "live" THEN "pending" ELSE life[u]]
  /\ scripts' \in scripts..MaxScriptFin
  /\ UNCHANGED <<heap, mud, held, call, fin>>
-------------------------------------------------------------------------------
ScriptStep ==
  \E u \in Userdata :
    \/ \E n \in Size :
         \/ l_Malloc(u, n) \/ l_Mallocm(u, n)
         \/ \E a \in Allocator : FinalizerAlloc(a, u, n)
         \/ \E p \in Address : l_Mwrapm(u, p, n)
         \/ l_Mshrink(u, n)
         \/ MemoryReadt(u, n) \/ MemoryReads(u, n)
    \/ l_Mfree(u) \/ MemoryClose(u) \/ Drop(u) \/ Resurrect(u)

\* The C code of a call in progress.
CallStep ==
  \/ AllocSucceeds \/ AllocRetries \/ AllocFails
  \/ FullCollect \/ FullCollectReturns \/ ReadReturns

FinalizerStep ==
  \/ \E u \in Userdata : MemoryGC(u)
  \/ ScriptFinalizerStarts

Next ==
  \/ ScriptStep \/ CallStep \/ FinalizerStep
  \/ CollectorStep \/ ScriptFinalizerEnds \/ LuaClose

Spec == Init /\ [][Next]_vars

\* C code that has started goes on, and so does the list of finalizers that
\* lua_gc and lua_close walk; finalizers written by the script terminate.
FairSpec ==
  /\ Spec
  /\ WF_vars(CallStep)
  /\ WF_vars((closing \/ call.pc = "drain") /\ FinalizerStep)
  /\ WF_vars(ScriptFinalizerEnds)
-------------------------------------------------------------------------------
(* Properties.                                                             *)

\* A userdata that will free its memory points to a block its own allocator
\* handed out and has not taken back, and records that block's size: MemoryFree
\* and l_Mfree never free twice nor through the wrong allocator, and the range
\* checks of the access functions use the real size, after l_Mshrink too.
OwnedIsAllocated ==
  \A u \in Userdata :
    mud[u].allocator # "none" =>
      /\ mud[u].ptr \in Pool(mud[u].allocator)
      /\ heap[mud[u].ptr] = [by |-> mud[u].allocator, size |-> mud[u].size]

\* No two userdata will free the same block: Mwrapm of an owned block makes an
\* alias, never a second owner.
OneOwner ==
  \A u, v \in Userdata, b \in Block : Owns(u, b) /\ Owns(v, b) => u = v

\* Nothing is lost: every allocated block belongs to a userdata whose __gc is
\* still to come, whatever failed, was dropped, closed or brought back; only
\* what a finalizer allocates after lua_close began escapes its __gc.
NoLeak ==
  \A b \in Block :
    heap[b].by # "free" =>
      \E u \in Userdata : Owns(u, b) /\ life[u] \in {"live", "pending", "exempt"}

\* A block is freed only through its owner, and only when the script asks for
\* it or the collector found the owner unreachable: never under the script's
\* hands, and never through a wrapper.
OnlyOwnerFrees ==
  [][\A b \in Block :
       heap[b].by # "free" /\ heap'[b].by = "free" =>
         \E u \in Userdata :
           /\ Owns(u, b) /\ mud'[u] = InvalidMemory
           /\ u \in held \/ life[u] = "pending"]_vars

\* l_Malloc and l_Mallocm report ENSMEM only when the heap is still full after
\* MAX_ALLOC_TRIES - 1 collections, the last of which freed the memory of every
\* userdata that was unreachable when it began.
EnsmemAfterCollection ==
  [][call.op \in Allocator /\ call' = NoCall /\ call.ud \notin held' =>
       /\ Available(call.op) = {}
       /\ call.try = MaxAllocTries - 1
       /\ \A u \in call.marked : mud[u].ptr = NULL]_vars

\* The call holds the only reference to its userdata until it returns it, and
\* no finalizer run by its own collections gives it a memory.
NewUserdataIsPrivate ==
  call.op \in Allocator =>
    /\ call.ud \notin held /\ life[call.ud] = "live"
    /\ mud[call.ud] = InvalidMemory

\* Every allocation and every read returns, whatever its collections run.
CallsReturn == call # NoCall ~> call = NoCall

\* Once lua_close has begun, every block is given back but those that script
\* finalizers allocate on the way.
CloseReleasesAll ==
  closing ~> \A b \in Block :
               heap[b].by # "free" =>
                 \E u \in Userdata : Owns(u, b) /\ life[u] = "exempt"

\* What the range checks of MemoryReadt and MemoryReads established still
\* holds when the bytes are read.
ReadStaysInMemory ==
  Reading =>
    mud[call.ud].ptr # NULL /\ call.n <= mud[call.ud].size

\* The detailed specification implements the promise of ResourceOwner: a block
\* is busy when its allocator says so, and its holders are the userdata that
\* would free it.
Ownership ==
  INSTANCE ResourceOwner WITH
    Resource <- Block, Owner <- Userdata,
    busy <- {b \in Block : heap[b].by # "free"},
    holder <- [b \in Block |-> {u \in Userdata : Owns(u, b)}]

BlocksHaveOneOwner == Ownership!Spec
===============================================================================
