------------------------- MODULE GemdosMemory_proofs -------------------------
(***************************************************************************)
(* Proofs about GemdosMemory, for any number of userdata and blocks, any   *)
(* sizes, any number of attempts and any number of script finalizers.      *)
(***************************************************************************)
EXTENDS GemdosMemory, TLAPS

\* What the actions write has the right type.
LEMMA StructsTyped ==
  /\ InvalidMemory \in Memory
  /\ \A p \in Address, n \in Size, a \in Allocator \cup {"none"} :
       [ptr |-> p, size |-> n, allocator |-> a] \in Memory
  BY BoundsAreNumbers DEF InvalidMemory, Memory, Size

LEMMA NoCallTyped == NoCall \in Calls
  BY DEF Calls

LEMMA CallFields ==
  ASSUME call \in Calls
  PROVE  /\ call.op \in Allocator \cup {"none", "readt", "reads"}
         /\ call.op \in Allocator \/ Reading \/ call.pc \in {"collect", "drain"}
              => /\ call \in [op : Allocator \cup {"readt", "reads"},
                              ud : Userdata, n : Size,
                              try : 0..(MaxAllocTries - 1),
                              pc : {"try", "collect", "drain", "gcpoint",
                                    "cycled"},
                              marked : SUBSET Userdata]
                 /\ call # NoCall
  BY DEF Calls, NoCall, Reading, Allocator

\* A call that begins.
LEMMA NewCallTyped ==
  ASSUME NEW op \in Allocator \cup {"readt", "reads"}, NEW u \in Userdata,
         NEW n \in Size, NEW pc \in {"try", "gcpoint"}
  PROVE  NewCall(op, u, n, pc) \in Calls
<1>1. 0 \in 0..(MaxAllocTries - 1)
  BY BoundsAreNumbers
<1>2. QED
  BY <1>1 DEF NewCall, Calls

LEMMA InitType == Init => TypeOK
<1> SUFFICES ASSUME Init PROVE TypeOK
  OBVIOUS
<1>1. heap \in Heap
  BY BoundsAreNumbers DEF Init, Heap
<1>2. QED
  <2>1. mud \in [Userdata -> Memory] /\ life \in [Userdata -> Life]
    BY StructsTyped DEF Init, Life
  <2>2. scripts \in 0..MaxScriptFin
    BY BoundsAreNumbers DEF Init
  <2>3. call \in Calls /\ held \in SUBSET Userdata
    BY NoCallTyped DEF Init
  <2>4. fin \in BOOLEAN /\ closing \in BOOLEAN
    BY DEF Init
  <2>5. QED
    BY <1>1, <2>1, <2>2, <2>3, <2>4 DEF TypeOK

LEMMA NextType == TypeOK /\ [Next]_vars => TypeOK'
<1> SUFFICES ASSUME TypeOK, [Next]_vars PROVE TypeOK'
  OBVIOUS
<1> USE StructsTyped, NoCallTyped DEF TypeOK
<1>1. ASSUME NEW u \in Userdata, NEW n \in Size, NEW a \in Allocator,
             BeginAlloc(a, u, n)
      PROVE  TypeOK'
  <2>1. call' \in Calls
    BY <1>1, NewCallTyped DEF BeginAlloc
  <2>2. QED
    BY <1>1, <2>1 DEF BeginAlloc, PushMemoryUserData, Life
<1>2. CASE AllocSucceeds
  <2> PICK b \in Available(call.op) :
         /\ heap' = Allocated(b, call.op, call.n)
         /\ mud' = [mud EXCEPT ![call.ud] =
                      [ptr |-> b, size |-> call.n, allocator |-> call.op]]
    BY <1>2 DEF AllocSucceeds
  <2>1. /\ b \in Block
        /\ call.op \in Allocator /\ call.n \in Size /\ call.ud \in Userdata
    BY <1>2, CallFields DEF AllocSucceeds, Available, Pool, Block
  <2>2. heap' \in Heap
    BY <2>1, BoundsAreNumbers DEF Allocated, Heap, Size
  <2>3. mud' \in [Userdata -> Memory]
    BY <2>1 DEF Address
  <2>4. QED
    BY <1>2, <2>1, <2>2, <2>3 DEF AllocSucceeds
<1>3. CASE AllocRetries
  <2>1. call' \in Calls
    <3>1. call.try + 1 \in 0..(MaxAllocTries - 1)
      BY <1>3, CallFields, BoundsAreNumbers DEF AllocRetries
    <3>2. QED
      BY <1>3, <3>1, CallFields DEF AllocRetries, Calls
  <2>2. QED
    BY <1>3, <2>1 DEF AllocRetries
<1>4. CASE AllocFails
  BY <1>4 DEF AllocFails
<1>5. ASSUME NEW u \in Userdata, NEW n \in Size, NEW a \in Allocator,
             FinalizerAlloc(a, u, n)
      PROVE  TypeOK'
  <2>1. heap' \in Heap /\ mud' \in [Userdata -> Memory]
        /\ held' \in SUBSET Userdata
    <3>1. CASE Available(a) = {} /\ heap' = heap /\ held' = held
               /\ mud' = [mud EXCEPT ![u] = InvalidMemory]
      BY <3>1
    <3>2. ASSUME NEW b \in Available(a), heap' = Allocated(b, a, n),
                 mud' = [mud EXCEPT ![u] =
                           [ptr |-> b, size |-> n, allocator |-> a]],
                 held' = held \cup {u}
          PROVE  /\ heap' \in Heap /\ mud' \in [Userdata -> Memory]
                 /\ held' \in SUBSET Userdata
      <4>1. b \in Block
        BY DEF Available, Pool, Block
      <4>2. heap' \in Heap
        BY <3>2, <4>1, BoundsAreNumbers DEF Allocated, Heap, Size
      <4>3. QED
        BY <3>2, <4>1, <4>2 DEF Address
    <3>3. QED
      BY <1>5, <3>1, <3>2 DEF FinalizerAlloc
  <2>2. QED
    BY <1>5, <2>1 DEF FinalizerAlloc, PushMemoryUserData, Life
<1>6. ASSUME NEW u \in Userdata, NEW n \in Size, NEW p \in Address,
             l_Mwrapm(u, p, n)
      PROVE  TypeOK'
  BY <1>6 DEF l_Mwrapm, PushMemoryUserData, Life
<1>7. ASSUME NEW u \in Userdata PROVE Released(u) \in Heap
  <2>1. [by |-> "free", size |-> 0]
          \in [by : Allocator \cup {"free"}, size : 0..MaxSize]
    BY BoundsAreNumbers
  <2>2. QED
    BY <2>1 DEF Released, Heap
<1>8. ASSUME NEW u \in Userdata, MemoryFree(u)
      PROVE  heap' \in Heap /\ mud' \in [Userdata -> Memory]
  BY <1>7, <1>8 DEF MemoryFree, InvalidateMemoryUserData
<1>9. ASSUME NEW u \in Userdata, l_Mfree(u) PROVE TypeOK'
  BY <1>7, <1>9 DEF l_Mfree, InvalidateMemoryUserData
<1>10. ASSUME NEW u \in Userdata, MemoryClose(u) PROVE TypeOK'
  BY <1>8, <1>10 DEF MemoryClose
<1>11. ASSUME NEW u \in Userdata, NEW n \in Size, l_Mshrink(u, n) PROVE TypeOK'
  <2>1. heap' \in Heap
    BY <1>11, BoundsAreNumbers DEF l_Mshrink, Heap, Size
  <2>2. mud' \in [Userdata -> Memory]
    BY <1>11, BoundsAreNumbers DEF l_Mshrink, Memory, Size
  <2>3. QED
    BY <1>11, <2>1, <2>2 DEF l_Mshrink
<1>12. ASSUME NEW u \in Userdata, Drop(u) \/ Resurrect(u) PROVE TypeOK'
  BY <1>12 DEF Drop, Resurrect
<1>13. ASSUME NEW u \in Userdata, NEW n \in Size,
              NEW op \in {"readt", "reads"}, BeginRead(op, u, n)
       PROVE  TypeOK'
  <2>1. call' \in Calls
    BY <1>13, NewCallTyped DEF BeginRead
  <2>2. QED
    BY <1>13, <2>1 DEF BeginRead
<1>14. CASE ReadReturns
  BY <1>14 DEF ReadReturns
<1>15. ASSUME MarkAndSweep
       PROVE  life' \in [Userdata -> Life] /\ scripts' \in 0..MaxScriptFin
  BY <1>15, BoundsAreNumbers DEF MarkAndSweep, Life
<1>16. CASE CollectorStep
  <2>1. call' \in Calls
    BY <1>16, CallFields DEF CollectorStep, Calls, Reading
  <2>2. QED
    BY <1>16, <2>1, <1>15 DEF CollectorStep
<1>17. CASE FullCollect
  <2>1. call' \in Calls
    BY <1>17, CallFields DEF FullCollect, Calls, Garbage
  <2>2. QED
    BY <1>17, <2>1, <1>15 DEF FullCollect
<1>18. CASE FullCollectReturns
  <2>1. call' \in Calls
    BY <1>18, CallFields DEF FullCollectReturns, Calls
  <2>2. QED
    BY <1>18, <2>1 DEF FullCollectReturns
<1>19. ASSUME NEW u \in Userdata, MemoryGC(u) PROVE TypeOK'
  BY <1>8, <1>19 DEF MemoryGC, Life
<1>20. CASE ScriptFinalizerStarts \/ ScriptFinalizerEnds
  <2>1. scripts' \in 0..MaxScriptFin
    BY <1>20, BoundsAreNumbers DEF ScriptFinalizerStarts, ScriptFinalizerEnds
  <2>2. fin' \in BOOLEAN
    BY <1>20, Zenon DEF ScriptFinalizerStarts, ScriptFinalizerEnds
  <2>3. QED
    BY <1>20, <2>1, <2>2 DEF ScriptFinalizerStarts, ScriptFinalizerEnds
<1>21. CASE LuaClose
  BY <1>21, BoundsAreNumbers DEF LuaClose, Life
<1>22. CASE UNCHANGED vars
  BY <1>22 DEF vars
<1>23. QED
  BY <1>1, <1>2, <1>3, <1>4, <1>5, <1>6, <1>9, <1>10, <1>11, <1>12, <1>13,
     <1>14, <1>16, <1>17, <1>18, <1>19, <1>20, <1>21, <1>22
  DEF Next, ScriptStep, CallStep, FinalizerStep, l_Malloc, l_Mallocm, Allocator,
      MemoryReadt, MemoryReads

\* The state of the binding, of the heaps and of the collector keeps its type.
THEOREM MemoryTyped == Spec => []TypeOK
  BY InitType, NextType, PTL DEF Spec
-------------------------------------------------------------------------------
(* The inductive invariant.                                                *)

\* A userdata whose __gc was called is invalid for ever, even when a finalizer
\* brought it back to the script, so every function rejects it.
FinalizedIsInvalid ==
  \A u \in Userdata :
    life[u] \in {"unborn", "finalized"} => mud[u] = InvalidMemory

\* An invalid userdata is invalid in every field.
NullIsInvalid ==
  \A u \in Userdata : mud[u].ptr = NULL => mud[u] = InvalidMemory

\* The script holds nothing that was never created or has been freed.
HeldIsBorn == \A u \in held : life[u] # "unborn"

\* Who owns what, for the heaps and the userdata only.
OwnInv == OwnedIsAllocated /\ OneOwner /\ NoLeak /\ FinalizedIsInvalid /\ NullIsInvalid

\* A full collection finalizes what it marked before the next attempt, and no
\* script finalizer outlives it.
CollectInv ==
  /\ call.pc \in {"try", "collect"} => ~fin
  /\ call.pc \in {"try", "collect", "drain"} => call.op \in Allocator
  /\ call.op \in Allocator => call.pc \in {"try", "collect", "drain"}
  /\ call.pc = "drain" =>
       \A u \in call.marked : life[u] \in {"pending", "finalized"}
  /\ call.pc = "try" => \A u \in call.marked : mud[u] = InvalidMemory

IInv == TypeOK /\ OwnInv /\ HeldIsBorn /\ NewUserdataIsPrivate /\ CollectInv

\* A block is given to a userdata that owned nothing.
LEMMA GiveKeepsOwnInv ==
  ASSUME TypeOK, OwnInv, TypeOK', FinalizedIsInvalid',
         NEW u \in Userdata, mud[u] = InvalidMemory,
         NEW a \in Allocator, NEW b \in Available(a), NEW n \in Size,
         heap' = Allocated(b, a, n),
         mud' = [mud EXCEPT ![u] = [ptr |-> b, size |-> n, allocator |-> a]]
  PROVE  OwnInv'
<1> b \in Pool(a) /\ b \in Block /\ b # NULL /\ heap[b].by = "free"
  BY PoolsDisjoint DEF Available, Pool, Block, Address
<1> mud \in [Userdata -> Memory] /\ heap \in Heap
  BY DEF TypeOK
<1>1. \A v \in Userdata : mud[v].allocator # "none" => mud[v].ptr # b
  <2> SUFFICES ASSUME NEW v \in Userdata, mud[v].allocator # "none"
               PROVE  mud[v].ptr # b
    OBVIOUS
  <2>1. heap[mud[v].ptr].by = mud[v].allocator
    <3>1. heap[mud[v].ptr] = [by |-> mud[v].allocator, size |-> mud[v].size]
      BY DEF OwnInv, OwnedIsAllocated
    <3>2. QED
      BY <3>1
  <2>2. mud[v].allocator # "free"
    BY DEF Memory, Allocator
  <2>3. QED
    BY <2>1, <2>2
<1>2. OwnedIsAllocated'
  <2> SUFFICES ASSUME NEW v \in Userdata, mud'[v].allocator # "none"
               PROVE  /\ mud'[v].ptr \in Pool(mud'[v].allocator)
                      /\ heap'[mud'[v].ptr] = [by |-> mud'[v].allocator,
                                               size |-> mud'[v].size]
    BY DEF OwnedIsAllocated
  <2>1. CASE v = u
    BY <2>1 DEF Allocated, Heap
  <2>2. CASE v # u
    BY <2>2, <1>1 DEF OwnInv, OwnedIsAllocated, Allocated, Heap, Pool, Block
  <2>3. QED
    BY <2>1, <2>2
<1>3. OneOwner'
  BY <1>1 DEF OwnInv, OneOwner, Owns
<1>4. NoLeak'
  <2> SUFFICES ASSUME NEW c \in Block, heap'[c].by # "free"
               PROVE  \E v \in Userdata : Owns(v, c)' /\ life'[v] \in {"live", "pending", "exempt"}
    BY DEF NoLeak
  <2>1. \E v \in Userdata : Owns(v, c)'
    <3>1. CASE c = b
      BY <3>1 DEF Owns, Allocator
    <3>2. CASE c # b
      <4>1. PICK v \in Userdata : Owns(v, c)
        BY <3>2 DEF OwnInv, NoLeak, Allocated, Heap
      <4>2. v # u
        BY <4>1 DEF Owns, InvalidMemory
      <4>3. QED
        BY <4>1, <4>2 DEF Owns
    <3>3. QED
      BY <3>1, <3>2
  <2>2. \A v \in Userdata : Owns(v, c)' => life'[v] \in {"live", "pending", "exempt"}
    BY DEF FinalizedIsInvalid, Owns, InvalidMemory, TypeOK, Life
  <2>3. QED
    BY <2>1, <2>2
<1>5. NullIsInvalid'
  BY DEF OwnInv, NullIsInvalid
<1>6. QED
  BY <1>2, <1>3, <1>4, <1>5 DEF OwnInv

\* A valid userdata gives its block back and becomes invalid.
LEMMA TakeKeepsOwnInv ==
  ASSUME TypeOK, OwnInv, TypeOK', FinalizedIsInvalid',
         NEW u \in Userdata,
         heap' = Released(u), mud' = [mud EXCEPT ![u] = InvalidMemory]
  PROVE  OwnInv'
<1> mud \in [Userdata -> Memory] /\ heap \in Heap
  BY DEF TypeOK
<1>1. \A v \in Userdata :
        /\ mud'[v].allocator # "none" => v # u /\ mud'[v] = mud[v]
        /\ mud'[v] = mud[v] \/ v = u
  BY DEF InvalidMemory
<1>2. OwnedIsAllocated'
  <2> SUFFICES ASSUME NEW v \in Userdata, mud'[v].allocator # "none"
               PROVE  /\ mud'[v].ptr \in Pool(mud'[v].allocator)
                      /\ heap'[mud'[v].ptr] = [by |-> mud'[v].allocator,
                                               size |-> mud'[v].size]
    BY DEF OwnedIsAllocated
  <2>1. /\ mud'[v] = mud[v] /\ mud[v].ptr \in Pool(mud[v].allocator)
        /\ heap[mud[v].ptr] = [by |-> mud[v].allocator, size |-> mud[v].size]
        /\ mud[v].ptr \in Block
    BY <1>1 DEF OwnInv, OwnedIsAllocated, Pool, Block
  <2>2. mud[u].allocator # "none" => mud[u].ptr # mud[v].ptr
    BY <1>1, <2>1 DEF OwnInv, OneOwner, Owns
  <2>3. heap'[mud[v].ptr] = heap[mud[v].ptr]
    BY <2>1, <2>2 DEF Released, Heap
  <2>4. QED
    BY <2>1, <2>3
<1>3. OneOwner'
  BY <1>1 DEF OwnInv, OneOwner, Owns
<1>4. NoLeak'
  <2> SUFFICES ASSUME NEW c \in Block, heap'[c].by # "free"
               PROVE  \E v \in Userdata : Owns(v, c)' /\ life'[v] \in {"live", "pending", "exempt"}
    BY DEF NoLeak
  <2>1. heap[c].by # "free" /\ ~ Owns(u, c)
    BY DEF Released, Heap, Owns
  <2>2. PICK v \in Userdata : Owns(v, c)
    BY <2>1 DEF OwnInv, NoLeak
  <2>3. Owns(v, c)'
    BY <2>1, <2>2, <1>1 DEF Owns
  <2>4. life'[v] \in {"live", "pending", "exempt"}
    BY <2>3 DEF FinalizedIsInvalid, Owns, InvalidMemory, TypeOK, Life
  <2>5. QED
    BY <2>3, <2>4
<1>5. NullIsInvalid'
  BY DEF OwnInv, NullIsInvalid
<1>6. QED
  BY <1>2, <1>3, <1>4, <1>5 DEF OwnInv

\* Nothing changes hands: only userdata that own nothing are rewritten, with
\* structs that own nothing.
LEMMA AliasKeepsOwnInv ==
  ASSUME TypeOK, OwnInv, TypeOK', FinalizedIsInvalid', heap' = heap,
         \A v \in Userdata :
           mud'[v] = mud[v] \/ (mud[v] = InvalidMemory
                                /\ mud'[v].allocator = "none"
                                /\ mud'[v].ptr # NULL)
  PROVE  OwnInv'
<1>1. \A v \in Userdata :
        /\ mud'[v].allocator # "none" => mud'[v] = mud[v]
        /\ mud[v].allocator # "none" => mud'[v] = mud[v]
  BY DEF InvalidMemory
<1>2. OwnedIsAllocated'
  BY <1>1 DEF OwnInv, OwnedIsAllocated
<1>3. OneOwner'
  BY <1>1 DEF OwnInv, OneOwner, Owns
<1>4. NoLeak'
  <2> SUFFICES ASSUME NEW c \in Block, heap'[c].by # "free"
               PROVE  \E v \in Userdata : Owns(v, c)' /\ life'[v] \in {"live", "pending", "exempt"}
    BY DEF NoLeak
  <2>1. PICK v \in Userdata : Owns(v, c)
    BY DEF OwnInv, NoLeak
  <2>2. Owns(v, c)'
    BY <2>1, <1>1 DEF Owns
  <2>3. life'[v] \in {"live", "pending", "exempt"}
    BY <2>2 DEF FinalizedIsInvalid, Owns, InvalidMemory, TypeOK, Life
  <2>4. QED
    BY <2>2, <2>3
<1>5. NullIsInvalid'
  BY DEF OwnInv, NullIsInvalid
<1>6. QED
  BY <1>2, <1>3, <1>4, <1>5 DEF OwnInv

LEMMA InitInv == Init => IInv
<1> SUFFICES ASSUME Init PROVE IInv
  OBVIOUS
<1>1. OwnInv
  BY DEF Init, OwnInv, OwnedIsAllocated, OneOwner, NoLeak, FinalizedIsInvalid,
         NullIsInvalid, Owns, InvalidMemory
<1>2. HeldIsBorn /\ NewUserdataIsPrivate /\ CollectInv
  BY DEF Init, HeldIsBorn, NewUserdataIsPrivate, CollectInv, NoCall, Allocator
<1>3. QED
  BY <1>1, <1>2, InitType DEF IInv

\* The parts of the invariant that speak of calls and of the collector are
\* kept by a step that leaves the call, the owners' fields and life alone.
LEMMA NextInv == IInv /\ [Next]_vars => IInv'
<1> SUFFICES ASSUME IInv, [Next]_vars PROVE IInv'
  OBVIOUS
<1>t. TypeOK /\ TypeOK' /\ OwnInv /\ HeldIsBorn /\ NewUserdataIsPrivate
      /\ CollectInv
  BY NextType DEF IInv
<1> USE <1>t
<1>p. /\ mud \in [Userdata -> Memory] /\ heap \in Heap
      /\ life \in [Userdata -> Life] /\ held \subseteq Userdata
      /\ call \in Calls /\ NoCall.op = "none" /\ NoCall.pc = "idle"
  BY DEF TypeOK, NoCall
<1>1. ASSUME NEW u \in Userdata, NEW n \in Size, NEW a \in Allocator,
             BeginAlloc(a, u, n)
      PROVE  IInv'
  <2> USE <1>1, <1>p DEF BeginAlloc, PushMemoryUserData
  <2>1. mud[u] = InvalidMemory /\ mud' = mud /\ ~closing /\ ~fin
    BY DEF OwnInv, FinalizedIsInvalid, ScriptRuns
  <2>2. FinalizedIsInvalid'
    BY <2>1 DEF OwnInv, FinalizedIsInvalid
  <2>3. OwnInv'
    BY <2>1, <2>2, AliasKeepsOwnInv
  <2>4. HeldIsBorn' /\ NewUserdataIsPrivate' /\ CollectInv'
    BY <2>1 DEF HeldIsBorn, NewUserdataIsPrivate, CollectInv, NewCall, Allocator
  <2>5. QED
    BY <2>3, <2>4 DEF IInv
<1>2. CASE AllocSucceeds
  <2> USE <1>2, <1>p DEF AllocSucceeds
  <2>1. /\ call.op \in Allocator /\ call.n \in Size /\ call.ud \in Userdata
        /\ mud[call.ud] = InvalidMemory /\ life[call.ud] = "live"
    BY CallFields DEF NewUserdataIsPrivate
  <2>2. FinalizedIsInvalid'
    BY <2>1 DEF OwnInv, FinalizedIsInvalid
  <2>3. OwnInv'
    <3> PICK b \in Available(call.op) :
          /\ heap' = Allocated(b, call.op, call.n)
          /\ mud' = [mud EXCEPT ![call.ud] =
                       [ptr |-> b, size |-> call.n, allocator |-> call.op]]
      OBVIOUS
    <3>1. QED
      BY <2>1, <2>2, GiveKeepsOwnInv
  <2>4. HeldIsBorn' /\ NewUserdataIsPrivate' /\ CollectInv'
    BY DEF HeldIsBorn, NewUserdataIsPrivate, CollectInv, Allocator
  <2>5. QED
    BY <2>3, <2>4 DEF IInv
<1>3. CASE AllocRetries
  <2> USE <1>3, <1>p DEF AllocRetries
  <2>1. call'.op = call.op /\ call'.ud = call.ud /\ call'.pc = "collect"
    BY CallFields
  <2>2. OwnInv'
    BY AliasKeepsOwnInv DEF OwnInv, FinalizedIsInvalid
  <2>3. HeldIsBorn' /\ NewUserdataIsPrivate' /\ CollectInv'
    BY <2>1 DEF HeldIsBorn, NewUserdataIsPrivate, CollectInv
  <2>4. QED
    BY <2>2, <2>3 DEF IInv
<1>4. CASE AllocFails \/ ReadReturns
  <2> USE <1>4, <1>p DEF AllocFails, ReadReturns
  <2>1. OwnInv'
    BY AliasKeepsOwnInv DEF OwnInv, FinalizedIsInvalid
  <2>2. HeldIsBorn' /\ NewUserdataIsPrivate' /\ CollectInv'
    BY DEF HeldIsBorn, NewUserdataIsPrivate, CollectInv, Allocator
  <2>3. QED
    BY <2>1, <2>2 DEF IInv
<1>5. ASSUME NEW u \in Userdata, NEW n \in Size, NEW a \in Allocator,
             FinalizerAlloc(a, u, n)
      PROVE  IInv'
  <2> USE <1>5, <1>p DEF FinalizerAlloc, PushMemoryUserData
  <2>1. /\ mud[u] = InvalidMemory /\ life[u] = "unborn"
        /\ call.op \in Allocator => call.ud # u
        /\ u \notin call.marked \/ call.pc # "drain"
    BY DEF OwnInv, FinalizedIsInvalid, NewUserdataIsPrivate, CollectInv
  <2>2. FinalizedIsInvalid'
    BY <2>1 DEF OwnInv, FinalizedIsInvalid
  <2>3. OwnInv'
    <3>1. CASE mud' = [mud EXCEPT ![u] = InvalidMemory] /\ heap' = heap
      BY <3>1, <2>1, <2>2, AliasKeepsOwnInv
    <3>2. CASE \E b \in Available(a) :
                 /\ heap' = Allocated(b, a, n)
                 /\ mud' = [mud EXCEPT ![u] =
                              [ptr |-> b, size |-> n, allocator |-> a]]
      <4> PICK b \in Available(a) :
            /\ heap' = Allocated(b, a, n)
            /\ mud' = [mud EXCEPT ![u] =
                         [ptr |-> b, size |-> n, allocator |-> a]]
        BY <3>2
      <4>1. QED
        BY <2>1, <2>2, GiveKeepsOwnInv
    <3>3. QED
      BY <3>1, <3>2
  <2>4. HeldIsBorn' /\ NewUserdataIsPrivate'
    BY <2>1, CallFields DEF NewUserdataIsPrivate, HeldIsBorn
  <2>5. CollectInv'
    BY <2>1 DEF CollectInv
  <2>6. QED
    BY <2>3, <2>4, <2>5 DEF IInv
<1>6. ASSUME NEW u \in Userdata, NEW n \in Size, NEW p \in Address,
             l_Mwrapm(u, p, n)
      PROVE  IInv'
  <2> USE <1>6, <1>p DEF l_Mwrapm, PushMemoryUserData
  <2>1. /\ mud[u] = InvalidMemory /\ life[u] = "unborn" /\ p # NULL
        /\ call.op \in Allocator => call.ud # u
        /\ u \notin call.marked \/ call.pc # "drain"
    BY PoolsDisjoint
    DEF OwnInv, FinalizedIsInvalid, NewUserdataIsPrivate, CollectInv
  <2>2. FinalizedIsInvalid'
    BY <2>1 DEF OwnInv, FinalizedIsInvalid
  <2>3. OwnInv'
    BY <2>1, <2>2, AliasKeepsOwnInv
  <2>4. HeldIsBorn' /\ NewUserdataIsPrivate'
    BY <2>1, CallFields DEF NewUserdataIsPrivate, HeldIsBorn
  <2>5. CollectInv'
    BY <2>1 DEF CollectInv, ScriptRuns
  <2>6. QED
    BY <2>3, <2>4, <2>5 DEF IInv
<1>7. ASSUME NEW u \in Userdata, l_Mfree(u) PROVE IInv'
  <2> USE <1>7, <1>p DEF l_Mfree, InvalidateMemoryUserData
  <2>1. FinalizedIsInvalid'
    BY DEF OwnInv, FinalizedIsInvalid
  <2>2. OwnInv'
    BY <2>1, TakeKeepsOwnInv
  <2>3. HeldIsBorn' /\ NewUserdataIsPrivate' /\ CollectInv'
    BY DEF HeldIsBorn, NewUserdataIsPrivate, CollectInv
  <2>4. QED
    BY <2>2, <2>3 DEF IInv
<1>8. ASSUME NEW u \in Userdata, MemoryFree(u), FinalizedIsInvalid'
      PROVE  OwnInv' /\ mud' = [mud EXCEPT ![u] = InvalidMemory]
  <2>1. CASE mud[u].ptr = NULL
    <3>1. mud[u] = InvalidMemory /\ heap' = heap /\ mud' = mud
      BY <1>8, <2>1 DEF OwnInv, NullIsInvalid, MemoryFree
    <3>2. QED
      BY <1>8, <1>p, <3>1, AliasKeepsOwnInv
  <2>2. CASE mud[u].ptr # NULL
    BY <1>8, <2>2, TakeKeepsOwnInv DEF MemoryFree, InvalidateMemoryUserData
  <2>3. QED
    BY <2>1, <2>2
<1>9. ASSUME NEW u \in Userdata, MemoryClose(u) PROVE IInv'
  <2> USE <1>9, <1>p DEF MemoryClose
  <2>1. FinalizedIsInvalid'
    BY DEF OwnInv, FinalizedIsInvalid, MemoryFree, InvalidateMemoryUserData
  <2>2. OwnInv' /\ mud' = [mud EXCEPT ![u] = InvalidMemory]
    BY <1>8, <2>1
  <2>3. HeldIsBorn' /\ NewUserdataIsPrivate' /\ CollectInv'
    BY <2>2 DEF HeldIsBorn, NewUserdataIsPrivate, CollectInv
  <2>4. QED
    BY <2>2, <2>3 DEF IInv
<1>10. ASSUME NEW u \in Userdata, NEW n \in Size, l_Mshrink(u, n) PROVE IInv'
  <2> USE <1>10, <1>p DEF l_Mshrink
  <2>1. CASE heap' = heap /\ mud' = mud
    <3>1. OwnInv'
      BY <2>1, AliasKeepsOwnInv DEF OwnInv, FinalizedIsInvalid
    <3>2. HeldIsBorn' /\ NewUserdataIsPrivate' /\ CollectInv'
      BY <2>1 DEF HeldIsBorn, NewUserdataIsPrivate, CollectInv
    <3>3. QED
      BY <3>1, <3>2 DEF IInv
  <2>2. CASE /\ heap' = [heap EXCEPT ![mud[u].ptr].size = n]
             /\ mud' = [mud EXCEPT ![u].size = n]
    <3>1. /\ mud[u].ptr \in GemdosBlock /\ mud[u].ptr \in Block
          /\ heap[mud[u].ptr] = [by |-> "gemdos", size |-> mud[u].size]
      BY DEF OwnInv, OwnedIsAllocated, Pool, Block
    <3>2. \A v \in Userdata \ {u} :
            mud'[v] = mud[v] /\ (mud[v].allocator # "none" =>
                                   mud[v].ptr # mud[u].ptr)
      BY <2>2, <3>1 DEF OwnInv, OneOwner, OwnedIsAllocated, Owns, Pool, Block
    <3>3. mud'[u].ptr = mud[u].ptr /\ mud'[u].allocator = "gemdos"
          /\ mud'[u].size = n
      BY <2>2 DEF Memory
    <3>4. heap'[mud[u].ptr] = [by |-> "gemdos", size |-> n]
          /\ \A c \in Block \ {mud[u].ptr} : heap'[c] = heap[c]
      BY <2>2, <3>1 DEF Heap
    <3>5. OwnedIsAllocated'
      BY <3>1, <3>2, <3>3, <3>4 DEF OwnInv, OwnedIsAllocated, Pool, Block
    <3>6. OneOwner'
      BY <3>2, <3>3 DEF OwnInv, OneOwner, Owns
    <3>7. \A c \in Block : heap'[c].by = heap[c].by
      BY <3>1, <3>4
    <3>8. NoLeak'
      BY <3>2, <3>3, <3>7 DEF OwnInv, NoLeak, Owns
    <3>9. FinalizedIsInvalid' /\ NullIsInvalid'
      BY <3>2, <3>3 DEF OwnInv, FinalizedIsInvalid, NullIsInvalid, InvalidMemory
    <3>10. HeldIsBorn' /\ NewUserdataIsPrivate' /\ CollectInv'
      <4>1. /\ call.op \in Allocator => call.ud \in Userdata \ {u}
            /\ call.pc \notin {"try", "collect"}
        BY CallFields DEF NewUserdataIsPrivate, CollectInv, InvalidMemory,
                          ScriptRuns
      <4>2. QED
        BY <3>2, <4>1 DEF HeldIsBorn, NewUserdataIsPrivate, CollectInv
    <3>11. QED
      BY <3>5, <3>6, <3>8, <3>9, <3>10 DEF IInv, OwnInv
  <2>3. QED
    BY <2>1, <2>2
<1>11. ASSUME NEW u \in Userdata, Drop(u) \/ Resurrect(u) PROVE IInv'
  <2> USE <1>11, <1>p DEF Drop, Resurrect
  <2>1. OwnInv'
    BY AliasKeepsOwnInv DEF OwnInv, FinalizedIsInvalid
  <2>2. HeldIsBorn' /\ NewUserdataIsPrivate' /\ CollectInv'
    BY DEF HeldIsBorn, NewUserdataIsPrivate, CollectInv
  <2>3. QED
    BY <2>1, <2>2 DEF IInv
<1>12. ASSUME NEW u \in Userdata, NEW n \in Size,
              NEW op \in {"readt", "reads"}, BeginRead(op, u, n)
       PROVE  IInv'
  <2> USE <1>12, <1>p DEF BeginRead
  <2>1. OwnInv'
    BY AliasKeepsOwnInv DEF OwnInv, FinalizedIsInvalid
  <2>2. HeldIsBorn' /\ NewUserdataIsPrivate' /\ CollectInv'
    BY DEF HeldIsBorn, NewUserdataIsPrivate, CollectInv, NewCall, Allocator
  <2>3. QED
    BY <2>1, <2>2 DEF IInv
<1>13. ASSUME MarkAndSweep, heap' = heap, mud' = mud
       PROVE  OwnInv' /\ \A u \in held : life'[u] # "unborn"
  <2>1. FinalizedIsInvalid'
    BY <1>13 DEF OwnInv, FinalizedIsInvalid, MarkAndSweep
  <2>2. QED
    BY <1>13, <1>p, <2>1, AliasKeepsOwnInv
    DEF MarkAndSweep, HeldIsBorn, Reachable
<1>14. CASE CollectorStep
  <2> USE <1>14, <1>p DEF CollectorStep
  <2>1. OwnInv' /\ \A u \in held : life'[u] # "unborn"
    BY <1>13
  <2>2. call.op \notin Allocator /\ call'.op = call.op
        /\ call'.pc \in {"idle", "cycled"}
    BY CallFields DEF CollectInv, Reading, Allocator
  <2>3. HeldIsBorn' /\ NewUserdataIsPrivate' /\ CollectInv'
    BY <2>1, <2>2 DEF HeldIsBorn, NewUserdataIsPrivate, CollectInv
  <2>4. QED
    BY <2>1, <2>3 DEF IInv
<1>15. CASE FullCollect
  <2> USE <1>15, <1>p DEF FullCollect
  <2>1. OwnInv' /\ \A u \in held : life'[u] # "unborn"
    BY <1>13
  <2>2. /\ call'.op = call.op /\ call'.ud = call.ud /\ call'.pc = "drain"
        /\ call'.marked = Garbage /\ call.op \in Allocator /\ call.ud \in Userdata
    BY CallFields DEF CollectInv
  <2>3. life'[call.ud] = "live" /\ \A u \in Garbage : life'[u] = "pending"
    BY <2>2 DEF MarkAndSweep, Garbage, Reachable, NewUserdataIsPrivate
  <2>4. HeldIsBorn' /\ NewUserdataIsPrivate' /\ CollectInv'
    BY <2>1, <2>2, <2>3 DEF HeldIsBorn, NewUserdataIsPrivate, CollectInv
  <2>5. QED
    BY <2>1, <2>4 DEF IInv
<1>16. CASE FullCollectReturns
  <2> USE <1>16, <1>p DEF FullCollectReturns
  <2>1. OwnInv'
    BY AliasKeepsOwnInv DEF OwnInv, FinalizedIsInvalid
  <2>2. /\ call'.op = call.op /\ call'.ud = call.ud /\ call'.pc = "try"
        /\ call'.marked = call.marked /\ call.marked \subseteq Userdata
    BY CallFields
  <2>3. \A u \in call.marked : mud[u] = InvalidMemory
    BY <2>2 DEF CollectInv, OwnInv, FinalizedIsInvalid
  <2>4. HeldIsBorn' /\ NewUserdataIsPrivate' /\ CollectInv'
    BY <2>2, <2>3 DEF HeldIsBorn, NewUserdataIsPrivate, CollectInv
  <2>5. QED
    BY <2>1, <2>4 DEF IInv
<1>17. ASSUME NEW u \in Userdata, MemoryGC(u) PROVE IInv'
  <2> USE <1>17, <1>p DEF MemoryGC
  <2>1. FinalizedIsInvalid'
    BY DEF OwnInv, FinalizedIsInvalid, MemoryFree, InvalidateMemoryUserData,
           NullIsInvalid
  <2>2. OwnInv' /\ mud' = [mud EXCEPT ![u] = InvalidMemory]
    BY <1>8, <2>1
  <2>3. HeldIsBorn' /\ NewUserdataIsPrivate'
    BY <2>2, CallFields DEF NewUserdataIsPrivate, HeldIsBorn
  <2>4. call.pc \notin {"try", "collect"}
    BY DEF FinalizersRun
  <2>5. CollectInv'
    BY <2>4 DEF CollectInv
  <2>6. QED
    BY <2>2, <2>3, <2>5 DEF IInv
<1>18. CASE ScriptFinalizerStarts \/ ScriptFinalizerEnds
  <2> USE <1>18, <1>p DEF ScriptFinalizerStarts, ScriptFinalizerEnds
  <2>1. OwnInv'
    BY AliasKeepsOwnInv DEF OwnInv, FinalizedIsInvalid
  <2>2. HeldIsBorn' /\ NewUserdataIsPrivate' /\ CollectInv'
    BY DEF HeldIsBorn, NewUserdataIsPrivate, CollectInv, FinalizersRun
  <2>3. QED
    BY <2>1, <2>2 DEF IInv
<1>19. CASE LuaClose
  <2> USE <1>19, <1>p DEF LuaClose
  <2>1. OwnInv'
    BY AliasKeepsOwnInv DEF OwnInv, FinalizedIsInvalid
  <2>2. HeldIsBorn' /\ NewUserdataIsPrivate' /\ CollectInv'
    BY DEF HeldIsBorn, NewUserdataIsPrivate, CollectInv, Allocator
  <2>3. QED
    BY <2>1, <2>2 DEF IInv
<1>20. CASE UNCHANGED vars
  <2> USE <1>20, <1>p DEF vars
  <2>1. OwnInv'
    BY AliasKeepsOwnInv DEF OwnInv, FinalizedIsInvalid
  <2>2. HeldIsBorn' /\ NewUserdataIsPrivate' /\ CollectInv'
    BY DEF HeldIsBorn, NewUserdataIsPrivate, CollectInv
  <2>3. QED
    BY <2>1, <2>2 DEF IInv
<1>21. QED
  BY <1>1, <1>2, <1>3, <1>4, <1>5, <1>6, <1>7, <1>9, <1>10, <1>11, <1>12,
     <1>14, <1>15, <1>16, <1>17, <1>18, <1>19, <1>20
  DEF Next, ScriptStep, CallStep, FinalizerStep, l_Malloc, l_Mallocm, Allocator,
      MemoryReadt, MemoryReads

LEMMA MemoryInvariant == Spec => []IInv
  BY InitInv, NextInv, PTL DEF Spec

-------------------------------------------------------------------------------
(* The theorems.                                                           *)

\* Every block that will be freed through a userdata is allocated, by the
\* allocator the userdata names and with the size it records.
THEOREM OwnedBlocksAreAllocated == Spec => []OwnedIsAllocated
<1>1. IInv => OwnedIsAllocated
  BY DEF IInv, OwnInv
<1>2. QED
  BY <1>1, MemoryInvariant, PTL

\* No block has two owners.
THEOREM BlocksHaveAtMostOneOwner == Spec => []OneOwner
<1>1. IInv => OneOwner
  BY DEF IInv, OwnInv
<1>2. QED
  BY <1>1, MemoryInvariant, PTL

\* No block is lost: each has an owner whose __gc is still to come.
THEOREM NoBlockLeaks == Spec => []NoLeak
<1>1. IInv => NoLeak
  BY DEF IInv, OwnInv
<1>2. QED
  BY <1>1, MemoryInvariant, PTL

\* A userdata that was finalized stays invalid, even when brought back.
THEOREM FinalizedStaysInvalid == Spec => []FinalizedIsInvalid
<1>1. IInv => FinalizedIsInvalid
  BY DEF IInv, OwnInv
<1>2. QED
  BY <1>1, MemoryInvariant, PTL

\* The userdata of an allocation in progress is out of everybody's reach.
THEOREM AllocationIsPrivate == Spec => []NewUserdataIsPrivate
<1>1. IInv => NewUserdataIsPrivate
  BY DEF IInv
<1>2. QED
  BY <1>1, MemoryInvariant, PTL

\* What a script does creates userdata, and queues none.
LEMMA ScriptQueuesNothing ==
  ASSUME ScriptStep
  PROVE  /\ scripts' = scripts /\ closing' = closing
         /\ life' = life \/ \E u \in Userdata : PushMemoryUserData(u)
         /\ call' = call \/ (call = NoCall /\ ~closing)
<1> DEFINE Queues == /\ scripts' = scripts /\ closing' = closing
                     /\ life' = life \/ \E u \in Userdata : PushMemoryUserData(u)
                     /\ call' = call \/ (call = NoCall /\ ~closing)
<1>1. ASSUME NEW u \in Userdata, NEW n \in Size, NEW a \in Allocator,
             BeginAlloc(a, u, n) \/ FinalizerAlloc(a, u, n)
      PROVE  Queues
  BY <1>1 DEF BeginAlloc, FinalizerAlloc, ScriptRuns
<1>2. ASSUME NEW u \in Userdata, NEW n \in Size, NEW p \in Address, l_Mwrapm(u, p, n)
      PROVE  Queues
  BY <1>2 DEF l_Mwrapm
<1>3. ASSUME NEW u \in Userdata, NEW n \in Size, NEW o \in {"readt", "reads"},
             l_Mshrink(u, n) \/ BeginRead(o, u, n)
      PROVE  Queues
  BY <1>3 DEF l_Mshrink, BeginRead, ScriptRuns
<1>4. ASSUME NEW u \in Userdata,
             l_Mfree(u) \/ MemoryClose(u) \/ Drop(u) \/ Resurrect(u)
      PROVE  Queues
  BY <1>4 DEF l_Mfree, MemoryClose, Drop, Resurrect
<1>5. QED
  BY <1>1, <1>2, <1>3, <1>4
  DEF ScriptStep, l_Malloc, l_Mallocm, MemoryReadt, MemoryReads, Allocator

\* ENSMEM is reported only after collections that freed what was unreachable.
THEOREM EnsmemIsLastResort == Spec => EnsmemAfterCollection
<1>1. IInv /\ [Next]_vars =>
        [call.op \in Allocator /\ call' = NoCall /\ call.ud \notin held' =>
           /\ Available(call.op) = {}
           /\ call.try = MaxAllocTries - 1
           /\ \A u \in call.marked : mud[u].ptr = NULL]_vars
  <2> SUFFICES ASSUME IInv, Next, call.op \in Allocator, call' = NoCall,
                      call.ud \notin held'
               PROVE  /\ Available(call.op) = {}
                      /\ call.try = MaxAllocTries - 1
                      /\ \A u \in call.marked : mud[u].ptr = NULL
    OBVIOUS
  <2>1. /\ call # NoCall /\ call.op \notin {"readt", "reads", "none"}
        /\ call.try \in Int
    BY CallFields DEF IInv, TypeOK, Allocator
  <2>2. AllocFails
    <3> USE <2>1
    <3>1. CASE ScriptStep
      BY <3>1, ScriptQueuesNothing
    <3>2. CASE AllocSucceeds \/ ReadReturns
      BY <3>2 DEF AllocSucceeds, ReadReturns, Reading, IInv, CollectInv
    <3>3. CASE AllocRetries \/ FullCollect \/ FullCollectReturns
      <4>1. call'.op = call.op
        BY <3>3, CallFields
        DEF AllocRetries, FullCollect, FullCollectReturns, IInv, TypeOK
      <4>2. QED
        BY <4>1 DEF NoCall
    <3>4. CASE CollectorStep
      BY <3>4 DEF CollectorStep, IInv, CollectInv
    <3>5. CASE FinalizerStep \/ ScriptFinalizerEnds \/ LuaClose
      BY <3>5 DEF FinalizerStep, MemoryGC, ScriptFinalizerStarts,
                  ScriptFinalizerEnds, LuaClose
    <3>6. QED
      BY <3>1, <3>2, <3>3, <3>4, <3>5 DEF Next, CallStep
  <2>3. \A u \in call.marked : mud[u] = InvalidMemory
    BY <2>2 DEF AllocFails, IInv, CollectInv
  <2>4. QED
    BY <2>1, <2>2, <2>3, BoundsAreNumbers DEF AllocFails, InvalidMemory
<1>2. QED
  BY <1>1, MemoryInvariant, PTL DEF Spec, EnsmemAfterCollection

\* A block is freed through its owner only, and only when the script still
\* holds the owner or the collector has found it unreachable.
THEOREM FreedByOwnerOnly == Spec => OnlyOwnerFrees
<1>1. IInv /\ [Next]_vars =>
        [\A b \in Block :
           heap[b].by # "free" /\ heap'[b].by = "free" =>
             \E u \in Userdata :
               /\ Owns(u, b) /\ mud'[u] = InvalidMemory
               /\ u \in held \/ life[u] = "pending"]_vars
  <2> SUFFICES ASSUME IInv, Next, NEW b \in Block,
                      heap[b].by # "free", heap'[b].by = "free"
               PROVE  \E u \in Userdata :
                        /\ Owns(u, b) /\ mud'[u] = InvalidMemory
                        /\ u \in held \/ life[u] = "pending"
    OBVIOUS
  <2>t. heap \in Heap /\ mud \in [Userdata -> Memory] /\ call \in Calls
    BY DEF IInv, TypeOK
  <2>1. ASSUME NEW u \in Userdata, heap' = Released(u),
               mud' = [mud EXCEPT ![u] = InvalidMemory]
        PROVE  Owns(u, b) /\ mud'[u] = InvalidMemory
    BY <2>1, <2>t DEF Released, Owns, Heap
  <2>2. ASSUME NEW u \in Userdata, MemoryFree(u)
        PROVE  Owns(u, b) /\ mud'[u] = InvalidMemory
    BY <2>1, <2>2 DEF MemoryFree, InvalidateMemoryUserData
  <2>3. ASSUME NEW c \in Block, NEW n, NEW a \in Allocator,
               heap' = Allocated(c, a, n)
        PROVE  FALSE
    BY <2>3, <2>t DEF Allocated, Heap, Allocator
  <2>4. CASE ScriptStep
    <3>1. PICK u \in Userdata :
            \/ \E n \in Size, a \in Allocator : FinalizerAlloc(a, u, n)
            \/ \E n \in Size : l_Mshrink(u, n)
            \/ l_Mfree(u) \/ MemoryClose(u)
            \/ heap' = heap
      BY <2>4 DEF ScriptStep, l_Malloc, l_Mallocm, BeginAlloc, l_Mwrapm,
                  Drop, Resurrect, MemoryReadt, MemoryReads, BeginRead
    <3>2. ASSUME NEW n \in Size, NEW a \in Allocator, FinalizerAlloc(a, u, n)
          PROVE  FALSE
      <4>1. CASE heap' = heap
        BY <4>1
      <4>2. CASE \E c \in Available(a) : heap' = Allocated(c, a, n)
        BY <4>2, <2>3 DEF Available, Pool, Block
      <4>3. QED
        BY <3>2, <4>1, <4>2 DEF FinalizerAlloc
    <3>3. ASSUME NEW n \in Size, l_Mshrink(u, n) PROVE FALSE
      BY <3>3, <2>t DEF l_Mshrink, Heap
    <3>4. CASE l_Mfree(u)
      BY <3>4, <2>1 DEF l_Mfree, InvalidateMemoryUserData
    <3>5. CASE MemoryClose(u)
      BY <3>5, <2>2 DEF MemoryClose
    <3>6. QED
      BY <3>1, <3>2, <3>3, <3>4, <3>5
  <2>5. CASE \E u \in Userdata : MemoryGC(u)
    BY <2>5, <2>2 DEF MemoryGC
  <2>6. CASE AllocSucceeds
    <3>1. call.op \in Allocator
          /\ \E c \in Available(call.op) : heap' = Allocated(c, call.op, call.n)
      BY <2>6 DEF AllocSucceeds
    <3>2. QED
      BY <3>1, <2>3 DEF Available, Pool, Block
  <2>7. CASE heap' = heap
    BY <2>7
  <2>8. QED
    BY <2>4, <2>5, <2>6, <2>7
    DEF Next, CallStep, FinalizerStep, AllocRetries, AllocFails, ReadReturns,
        FullCollect, FullCollectReturns, CollectorStep, ScriptFinalizerStarts,
        ScriptFinalizerEnds, LuaClose
<1>2. QED
  BY <1>1, MemoryInvariant, PTL DEF Spec, OnlyOwnerFrees
-------------------------------------------------------------------------------
(* The refinement of ResourceOwner.                                        *)

\* A step that changes no owner and frees and allocates nothing stutters.
LEMMA StutterMaps ==
  ASSUME \A b \in Block : heap'[b].by = heap[b].by,
         \A u \in Userdata, b \in Block : Owns(u, b)' <=> Owns(u, b)
  PROVE  UNCHANGED Ownership!vars
<1>1. {b \in Block : heap'[b].by # "free"} = {b \in Block : heap[b].by # "free"}
  OBVIOUS
<1>2. [b \in Block |-> {u \in Userdata : Owns(u, b)'}]
        = [b \in Block |-> {u \in Userdata : Owns(u, b)}]
  OBVIOUS
<1>3. QED
  BY <1>1, <1>2 DEF Ownership!vars

\* Giving a free block to a userdata that owns nothing is an Acquire.
LEMMA GiveMaps ==
  ASSUME TypeOK, OwnInv,
         NEW u \in Userdata, mud[u] = InvalidMemory,
         NEW a \in Allocator, NEW b \in Available(a), NEW n \in Size,
         heap' = Allocated(b, a, n),
         mud' = [mud EXCEPT ![u] = [ptr |-> b, size |-> n, allocator |-> a]]
  PROVE  Ownership!Next
<1> DEFINE Busy == {c \in Block : heap[c].by # "free"}
           Holder == [c \in Block |-> {v \in Userdata : Owns(v, c)}]
<1>1. /\ mud \in [Userdata -> Memory] /\ heap \in Heap
      /\ b \in Block /\ heap[b].by = "free"
      /\ a # "none" /\ a # "free" /\ mud[u].allocator = "none"
  BY DEF TypeOK, Available, Pool, Block, Allocator, InvalidMemory
<1>2. \A v \in Userdata : ~ Owns(v, b)
  <2> SUFFICES ASSUME NEW v \in Userdata, Owns(v, b) PROVE FALSE
    OBVIOUS
  <2>1. mud[v].allocator \in Allocator /\ mud[v].allocator # "free"
    BY <1>1 DEF Owns, Memory, Allocator
  <2>2. heap[b] = [by |-> mud[v].allocator, size |-> mud[v].size]
    BY DEF OwnInv, OwnedIsAllocated, Owns
  <2>3. QED
    BY <1>1, <2>1, <2>2
<1>3. \A v \in Userdata, c \in Block :
        Owns(v, c)' <=> IF c = b THEN v = u ELSE Owns(v, c)
  BY <1>1, <1>2 DEF Owns
<1>4. {c \in Block : heap'[c].by # "free"} = Busy \cup {b}
  BY <1>1 DEF Allocated, Heap
<1>5. [c \in Block |-> {v \in Userdata : Owns(v, c)'}]
        = [Holder EXCEPT ![b] = {u}]
  BY <1>1, <1>3
<1>6. b \notin Busy /\ \A q \in Block : u \notin Holder[q]
  BY <1>1 DEF Owns
<1>7. Ownership!Acquire(b, u)
  BY <1>4, <1>5, <1>6 DEF Ownership!Acquire
<1>8. QED
  BY <1>1, <1>7 DEF Ownership!Next

\* Invalidating a userdata releases the block it owns, or stutters.
LEMMA TakeMaps ==
  ASSUME TypeOK, OwnInv, NEW u \in Userdata,
         heap' = Released(u), mud' = [mud EXCEPT ![u] = InvalidMemory]
  PROVE  Ownership!Next \/ UNCHANGED Ownership!vars
<1> DEFINE Busy == {c \in Block : heap[c].by # "free"}
           Holder == [c \in Block |-> {v \in Userdata : Owns(v, c)}]
<1>t. mud \in [Userdata -> Memory] /\ heap \in Heap
  BY DEF TypeOK
<1>1. CASE mud[u].allocator = "none"
  <2>1. \A v \in Userdata, c \in Block : Owns(v, c)' <=> Owns(v, c)
    BY <1>1, <1>t DEF Owns, InvalidMemory
  <2>2. heap' = heap
    BY <1>1 DEF Released
  <2>3. QED
    BY <2>1, <2>2, StutterMaps
<1>2. CASE mud[u].allocator # "none"
  <2> DEFINE b == mud[u].ptr
  <2>1. b \in Block /\ Owns(u, b)
    BY <1>2 DEF OwnInv, OwnedIsAllocated, Pool, Block, Owns
  <2>2. \A v \in Userdata : Owns(v, b) <=> v = u
    BY <2>1 DEF OwnInv, OneOwner
  <2>3. \A v \in Userdata, c \in Block :
          Owns(v, c)' <=> IF c = b THEN FALSE ELSE Owns(v, c)
    BY <1>t, <2>2 DEF Owns, InvalidMemory
  <2>4. {c \in Block : heap'[c].by # "free"} = Busy \ {b}
    BY <1>t, <1>2, <2>1 DEF Released, Heap
  <2>5. [c \in Block |-> {v \in Userdata : Owns(v, c)'}]
          = [Holder EXCEPT ![b] = {}]
    BY <2>1, <2>3
  <2>6. Holder[b] = {u}
    BY <2>1, <2>2
  <2>7. Ownership!Release(b, u)
    BY <2>4, <2>5, <2>6 DEF Ownership!Release
  <2>8. QED
    BY <2>1, <2>7 DEF Ownership!Next
<1>3. QED
  BY <1>1, <1>2

LEMMA StepMaps ==
  IInv /\ [Next]_vars => [Ownership!Next]_(Ownership!vars)
<1> SUFFICES ASSUME IInv, [Next]_vars
             PROVE  Ownership!Next \/ UNCHANGED Ownership!vars
  OBVIOUS
<1>t. /\ TypeOK /\ OwnInv /\ heap \in Heap /\ mud \in [Userdata -> Memory]
      /\ call \in Calls
  BY DEF IInv, TypeOK
<1>1. ASSUME heap' = heap, mud' = mud PROVE UNCHANGED Ownership!vars
  BY <1>1, StutterMaps DEF Owns
<1>2. ASSUME NEW u \in Userdata, heap' = heap, mud[u] = InvalidMemory,
             NEW m \in Memory, m.allocator = "none",
             mud' = [mud EXCEPT ![u] = m]
      PROVE  UNCHANGED Ownership!vars
  <2>1. \A v \in Userdata, c \in Block : Owns(v, c)' <=> Owns(v, c)
    BY <1>2, <1>t DEF Owns, InvalidMemory
  <2>2. QED
    BY <1>2, <2>1, StutterMaps
<1>3. ASSUME NEW u \in Userdata, MemoryFree(u)
      PROVE  Ownership!Next \/ UNCHANGED Ownership!vars
  BY <1>1, <1>3, <1>t, TakeMaps DEF MemoryFree, InvalidateMemoryUserData
<1>4. ASSUME NEW u \in Userdata, NEW n \in Size, NEW a \in Allocator,
             FinalizerAlloc(a, u, n)
      PROVE  Ownership!Next \/ UNCHANGED Ownership!vars
  <2>1. mud[u] = InvalidMemory
    BY <1>4 DEF FinalizerAlloc, PushMemoryUserData, IInv, OwnInv,
                FinalizedIsInvalid
  <2>2. CASE heap' = heap /\ mud' = [mud EXCEPT ![u] = InvalidMemory]
    <3>1. InvalidMemory \in Memory /\ InvalidMemory.allocator = "none"
      BY StructsTyped DEF InvalidMemory
    <3>2. QED
      BY <1>2, <2>1, <2>2, <3>1
  <2>3. ASSUME NEW b \in Available(a), heap' = Allocated(b, a, n),
               mud' = [mud EXCEPT ![u] =
                         [ptr |-> b, size |-> n, allocator |-> a]]
        PROVE  Ownership!Next
    BY <1>t, <2>1, <2>3, GiveMaps
  <2>4. QED
    BY <1>4, <2>2, <2>3 DEF FinalizerAlloc
<1>5. ASSUME NEW u \in Userdata, NEW n \in Size, NEW p \in Address,
             l_Mwrapm(u, p, n)
      PROVE  UNCHANGED Ownership!vars
  <2>1. mud[u] = InvalidMemory
    BY <1>5 DEF l_Mwrapm, PushMemoryUserData, IInv, OwnInv, FinalizedIsInvalid
  <2>2. [ptr |-> p, size |-> n, allocator |-> "none"] \in Memory
    BY StructsTyped
  <2>3. QED
    BY <1>2, <1>5, <2>1, <2>2 DEF l_Mwrapm
<1>6. ASSUME NEW u \in Userdata, NEW n \in Size, l_Mshrink(u, n)
      PROVE  UNCHANGED Ownership!vars
  <2>1. \A b \in Block : heap'[b].by = heap[b].by
    BY <1>6, <1>t DEF l_Mshrink, Heap
  <2>2. \A v \in Userdata, b \in Block : Owns(v, b)' <=> Owns(v, b)
    BY <1>6, <1>t DEF l_Mshrink, Owns, Memory
  <2>3. QED
    BY <2>1, <2>2, StutterMaps
<1>7. ASSUME NEW u \in Userdata, NEW n \in Size, NEW a \in Allocator,
             BeginAlloc(a, u, n)
      PROVE  UNCHANGED Ownership!vars
  <2>1. mud[u] = InvalidMemory
    BY <1>7 DEF BeginAlloc, PushMemoryUserData, IInv, OwnInv, FinalizedIsInvalid
  <2>2. mud' = mud /\ heap' = heap
    BY <1>7, <1>t, <2>1 DEF BeginAlloc
  <2>3. QED
    BY <1>1, <2>2
<1>8. CASE ScriptStep
  <2>1. ASSUME NEW u \in Userdata, l_Mfree(u)
        PROVE  Ownership!Next \/ UNCHANGED Ownership!vars
    BY <2>1, <1>t, TakeMaps DEF l_Mfree, InvalidateMemoryUserData
  <2>2. ASSUME NEW u \in Userdata, MemoryClose(u)
        PROVE  Ownership!Next \/ UNCHANGED Ownership!vars
    BY <2>2, <1>3 DEF MemoryClose
  <2>3. CASE heap' = heap /\ mud' = mud
    BY <2>3, <1>1
  <2>4. QED
    BY <1>8, <1>4, <1>5, <1>6, <1>7, <2>1, <2>2, <2>3
    DEF ScriptStep, l_Malloc, l_Mallocm, Drop, Resurrect, MemoryReadt,
        MemoryReads, BeginRead, Allocator
<1>9. CASE AllocSucceeds
  <2>1. /\ call.op \in Allocator /\ call.n \in Size /\ call.ud \in Userdata
        /\ mud[call.ud] = InvalidMemory
    BY <1>9, <1>t, CallFields DEF AllocSucceeds, IInv, NewUserdataIsPrivate
  <2>2. PICK b \in Available(call.op) :
          /\ heap' = Allocated(b, call.op, call.n)
          /\ mud' = [mud EXCEPT ![call.ud] =
                       [ptr |-> b, size |-> call.n, allocator |-> call.op]]
    BY <1>9 DEF AllocSucceeds
  <2>3. QED
    BY <1>t, <2>1, <2>2, GiveMaps
<1>10. CASE \E u \in Userdata : MemoryGC(u)
  BY <1>10, <1>3 DEF MemoryGC
<1>11. CASE heap' = heap /\ mud' = mud
  BY <1>11, <1>1
<1>12. QED
  BY <1>8, <1>9, <1>10, <1>11
  DEF Next, CallStep, FinalizerStep, AllocRetries, AllocFails, ReadReturns,
      FullCollect, FullCollectReturns, CollectorStep, ScriptFinalizerStarts,
      ScriptFinalizerEnds, LuaClose, vars

\* Memory userdata implement ResourceOwner: whatever the script, its finalizers
\* and the collector do, blocks are acquired free, owned alone and given back
\* by their owner.
THEOREM MemoryImplementsOwner == Spec => BlocksHaveOneOwner
<1>1. Init => Ownership!Init
  <2> SUFFICES ASSUME Init PROVE Ownership!Init
    OBVIOUS
  <2>1. \A b \in Block : heap[b].by = "free"
    BY DEF Init
  <2>2. \A b \in Block, u \in Userdata : ~ Owns(u, b)
    BY DEF Init, Owns, InvalidMemory
  <2>3. QED
    BY <2>1, <2>2 DEF Ownership!Init
<1>2. QED
  BY <1>1, StepMaps, MemoryInvariant, PTL
  DEF Spec, BlocksHaveOneOwner, Ownership!Spec
-------------------------------------------------------------------------------
(* What liveness rests on.  That calls return and that lua_close gives     *)
(* everything back is checked under fairness; the theorems here are what   *)
(* these properties say besides: steps go forward, never back, and where   *)
(* they end is right.                                                      *)

Pending == {u \in Userdata : life[u] = "pending"}

\* Once lua_close has begun no call is in progress, and no userdata is left whose
\* __gc has not been queued or called, but those that will have none.
ClosingQueuesAll == closing => call = NoCall /\ \A u \in Userdata : life[u] # "live"

\* No step after lua_close has begun takes that back.
LEMMA ClosingInvariant == Spec => []ClosingQueuesAll
<1>1. Init => ClosingQueuesAll
  BY DEF Init, ClosingQueuesAll
<1>2. TypeOK /\ ClosingQueuesAll /\ [Next]_vars => ClosingQueuesAll'
  <2> SUFFICES ASSUME TypeOK, ClosingQueuesAll, [Next]_vars
               PROVE  ClosingQueuesAll'
    OBVIOUS
  <2> USE DEF ClosingQueuesAll, TypeOK
  <2>1. CASE ScriptStep
    <3>1. ASSUME NEW u \in Userdata, PushMemoryUserData(u), closing
          PROVE  \A v \in Userdata : life'[v] # "live"
      BY <3>1 DEF PushMemoryUserData
    <3>2. QED
      BY <2>1, <3>1, ScriptQueuesNothing
  <2>2. CASE CallStep
    BY <2>2, CallFields DEF CallStep, AllocSucceeds, AllocRetries, AllocFails, FullCollect,
         FullCollectReturns, ReadReturns, MarkAndSweep, Reading, NoCall
  <2>3. CASE FinalizerStep
    BY <2>3 DEF FinalizerStep, MemoryGC, ScriptFinalizerStarts
  <2>4. CASE CollectorStep
    BY <2>4 DEF CollectorStep
  <2>5. CASE LuaClose
    BY <2>5 DEF LuaClose
  <2>6. QED
    BY <2>1, <2>2, <2>3, <2>4, <2>5 DEF Next, ScriptFinalizerEnds, vars
<1>3. QED
  BY <1>1, <1>2, MemoryTyped, PTL DEF Spec

\* When lua_close has called every pending __gc, all memory has been given back,
\* whatever the finalizers on its list did; only what a script finalizer
\* allocated meanwhile is left.
ClosedHasReleasedAll ==
  closing /\ Pending = {} =>
    \A b \in Block :
      heap[b].by # "free" => \E u \in Userdata : Owns(u, b) /\ life[u] = "exempt"

\* So whatever walks the list to its end ends with nothing lost.
THEOREM CloseEndsWithAllReleased == Spec => []ClosedHasReleasedAll
<1>1. IInv /\ ClosingQueuesAll => ClosedHasReleasedAll
  BY DEF IInv, OwnInv, NoLeak, ClosingQueuesAll, ClosedHasReleasedAll, Pending
<1>2. QED
  BY <1>1, MemoryInvariant, ClosingInvariant, PTL

\* The list of finalizers that lua_close or a full collection walks only gets
\* shorter, and each finalizer called is taken off it: no finalizer, whatever it
\* allocates, drops or brings back, puts one on it.
FinalizersRunOut ==
  [][closing \/ call.pc = "drain" =>
       /\ Pending' \subseteq Pending /\ scripts' <= scripts
       /\ FinalizerStep => Pending' # Pending \/ scripts' < scripts]_vars

\* So a full collection and lua_close end if finalizers return.
THEOREM FinalizersAlwaysRunOut == Spec => FinalizersRunOut
<1> DEFINE Walks == closing \/ call.pc = "drain"
           Shrinks == /\ Pending' \subseteq Pending /\ scripts' <= scripts
                      /\ FinalizerStep => Pending' # Pending \/ scripts' < scripts
<1>1. TypeOK /\ ClosingQueuesAll /\ [Next]_vars => [Walks => Shrinks]_vars
  <2> SUFFICES ASSUME TypeOK, ClosingQueuesAll, Next, Walks
               PROVE  Shrinks
    BY DEF vars
  <2>1. scripts \in Nat /\ (closing => call.pc = "idle")
    BY BoundsAreNumbers DEF TypeOK, ClosingQueuesAll, NoCall
  <2>2. ASSUME scripts' = scripts,
               \A u \in Userdata : life'[u] = "pending" => life[u] = "pending"
        PROVE  Pending' \subseteq Pending /\ scripts' <= scripts
    BY <2>1, <2>2 DEF Pending
  <2>3. ASSUME NEW u \in Userdata, MemoryGC(u)
        PROVE  Shrinks
    BY <2>1, <2>3 DEF MemoryGC, Pending, TypeOK
  <2>4. CASE ScriptFinalizerStarts
    BY <2>1, <2>4 DEF ScriptFinalizerStarts, Pending
  <2>5. CASE FinalizerStep
    BY <2>3, <2>4, <2>5 DEF FinalizerStep
  <2>6. CASE ScriptStep
    <3>1. ASSUME NEW u \in Userdata, PushMemoryUserData(u)
          PROVE  \A v \in Userdata : life'[v] = "pending" => life[v] = "pending"
      BY <3>1 DEF PushMemoryUserData, TypeOK
    <3>2. QED
      BY <2>2, <2>5, <2>6, <3>1, ScriptQueuesNothing
  <2>7. CASE CallStep
    <3>1. scripts' = scripts /\ life' = life
      BY <2>1, <2>7 DEF CallStep, AllocSucceeds, AllocRetries, AllocFails, FullCollect,
           FullCollectReturns, ReadReturns, Reading
    <3>2. QED
      BY <2>2, <2>5, <3>1
  <2>8. ~CollectorStep /\ ~LuaClose
    BY <2>1 DEF CollectorStep, LuaClose, NoCall
  <2>9. CASE ScriptFinalizerEnds
    BY <2>2, <2>5, <2>9 DEF ScriptFinalizerEnds
  <2>10. QED
    BY <2>5, <2>6, <2>7, <2>8, <2>9 DEF Next
<1>2. QED
  BY <1>1, MemoryTyped, ClosingInvariant, PTL DEF Spec, FinalizersRunOut

\* How far a call has got: an allocation collects, waits for finalizers and tries
\* once per attempt; a read is interrupted once at most.
Stage ==
  IF call.pc = "try" THEN 3 * call.try + 2
  ELSE IF call.pc = "collect" THEN 3 * call.try
  ELSE IF call.pc \in {"drain", "cycled"} THEN 3 * call.try + 1
  ELSE 0

\* Every step of a call in progress returns from it or takes it further, and it
\* cannot go further for ever; what runs meanwhile does not set it back, nor
\* replace it by another call.
CallsAdvance ==
  [][call # NoCall /\ call' # NoCall =>
       /\ call'.op = call.op /\ call'.ud = call.ud /\ call'.n = call.n
       /\ call' # call => Stage < Stage'
       /\ CallStep => call' # call
       /\ Stage' < 3 * MaxAllocTries]_vars

\* So a call takes at most three steps for each attempt.
THEOREM CallsAlwaysAdvance == Spec => CallsAdvance
<1> DEFINE Further ==
             /\ call'.op = call.op /\ call'.ud = call.ud /\ call'.n = call.n
             /\ call' # call => Stage < Stage'
             /\ CallStep => call' # call
             /\ Stage' < 3 * MaxAllocTries
<1>1. TypeOK /\ TypeOK' /\ Next => (call # NoCall /\ call' # NoCall => Further)
  <2> SUFFICES ASSUME TypeOK, TypeOK', Next, call # NoCall, call' # NoCall
               PROVE  Further
    OBVIOUS
  <2> DEFINE Record == [op : Allocator \cup {"readt", "reads"}, ud : Userdata, n : Size,
                        try : 0..(MaxAllocTries - 1),
                        pc : {"try", "collect", "drain", "gcpoint", "cycled"},
                        marked : SUBSET Userdata]
  <2>1. call \in Record /\ call' \in Record
    BY DEF TypeOK, Calls
  <2>2. call.try \in Nat /\ call'.try \in Nat /\ call'.try < MaxAllocTries
    BY <2>1, BoundsAreNumbers
  <2>3. Stage' < 3 * MaxAllocTries
    BY <2>1, <2>2, BoundsAreNumbers DEF Stage
  <2>4. CASE AllocRetries
    <3>1. call' = [call EXCEPT !.try = call.try + 1, !.pc = "collect"] /\ call.pc = "try"
      BY <2>4 DEF AllocRetries
    <3>2. /\ call'.op = call.op /\ call'.ud = call.ud /\ call'.n = call.n
          /\ call'.pc = "collect" /\ call'.try = call.try + 1
      BY <2>1, <3>1
    <3>3. PICK t \in Nat : t = call.try
      BY <2>2
    <3>4. Stage = 3 * t + 2 /\ Stage' = 3 * t + 3
      BY <3>1, <3>2, <3>3 DEF Stage
    <3>5. Stage < Stage'
      BY <3>3, <3>4
    <3>6. call' # call
      BY <3>1, <3>2
    <3>7. QED
      BY <2>3, <3>2, <3>5, <3>6
  <2>5. CASE FullCollect
    <3>1. call' = [call EXCEPT !.pc = "drain", !.marked = Garbage] /\ call.pc = "collect"
      BY <2>5 DEF FullCollect
    <3>2. /\ call'.op = call.op /\ call'.ud = call.ud /\ call'.n = call.n
          /\ call'.pc = "drain" /\ call'.try = call.try
      BY <2>1, <3>1
    <3>3. PICK t \in Nat : t = call.try
      BY <2>2
    <3>4. Stage = 3 * t /\ Stage' = 3 * t + 1
      BY <3>1, <3>2, <3>3 DEF Stage
    <3>5. Stage < Stage'
      BY <3>3, <3>4
    <3>6. call' # call
      BY <3>1, <3>2
    <3>7. QED
      BY <2>3, <3>2, <3>5, <3>6
  <2>6. CASE FullCollectReturns
    <3>1. call' = [call EXCEPT !.pc = "try"] /\ call.pc = "drain"
      BY <2>6 DEF FullCollectReturns
    <3>2. /\ call'.op = call.op /\ call'.ud = call.ud /\ call'.n = call.n
          /\ call'.pc = "try" /\ call'.try = call.try
      BY <2>1, <3>1
    <3>3. PICK t \in Nat : t = call.try
      BY <2>2
    <3>4. Stage = 3 * t + 1 /\ Stage' = 3 * t + 2
      BY <3>1, <3>2, <3>3 DEF Stage
    <3>5. Stage < Stage'
      BY <3>3, <3>4
    <3>6. call' # call
      BY <3>1, <3>2
    <3>7. QED
      BY <2>3, <3>2, <3>5, <3>6
  <2>7. CASE CallStep
    BY <2>4, <2>5, <2>6, <2>7 DEF CallStep, AllocSucceeds, AllocFails, ReadReturns
  <2>8. CASE CollectorStep
    <3>1. call' = [call EXCEPT !.pc = "cycled"] /\ call.pc = "gcpoint"
      BY <2>8 DEF CollectorStep
    <3>2. /\ call'.op = call.op /\ call'.ud = call.ud /\ call'.n = call.n
          /\ call'.pc = "cycled" /\ call'.try = call.try
      BY <2>1, <3>1
    <3>3. PICK t \in Nat : t = call.try
      BY <2>2
    <3>4. Stage = 0 /\ Stage' = 3 * t + 1
      BY <3>1, <3>2, <3>3 DEF Stage
    <3>5. Stage < Stage'
      BY <3>3, <3>4
    <3>6. call' # call
      BY <3>1, <3>2
    <3>7. QED
      BY <2>3, <2>7, <3>2, <3>5, <3>6
  <2>9. CASE ~CallStep /\ call' = call
    BY <2>3, <2>9
  <2>10. CASE ScriptStep
    <3>1. call' = call
      BY <2>10, ScriptQueuesNothing
    <3>2. QED
      BY <2>7, <2>9, <3>1
  <2>11. QED
    BY <2>7, <2>8, <2>9, <2>10
    DEF Next, FinalizerStep, MemoryGC, ScriptFinalizerStarts, ScriptFinalizerEnds, LuaClose
<1>2. QED
  BY <1>1, MemoryTyped, PTL DEF Spec, CallsAdvance
===============================================================================
