----------------------------- MODULE MemoryAccess -----------------------------
(***************************************************************************)
(* One call of a function of src/gemdos/gemdos_m.c that reads or writes the*)
(* bytes of a Memory userdata: writet, readt, writes, reads, poke, peek,   *)
(* copym, comparem and set, and the memory side of Freadm and Fwritem.     *)
(*                                                                         *)
(* A memory is a number of bytes and what matters of them is which ones a  *)
(* call touches.  Functions that convert values do it one after the other  *)
(* and check each as they come to it; the others move all at once.         *)
(***************************************************************************)
EXTENDS Imode, FiniteSets

CONSTANTS
  MaxSize,         \* bytes in the largest memory (a bound)
  MaxCount         \* largest offset, count and position tried (a bound)

ASSUME SizesAreWords == MaxSize \in 1..WordMax /\ MaxCount \in 0..WordMax

VARIABLES
  op,          \* the function called
  size,        \* bytes in a value, 1 when bytes are moved
  mem,         \* size of the memory, zero when the userdata is invalid
  mem2,        \* size of the other memory of copym and comparem
  legal,       \* the arguments are what the documentation allows
  bad,         \* first value out of the range of the imode, or 0
  from,        \* offset of the next access
  from2,       \* offset of the access to the other memory, or NoOffset
  todo,        \* bytes still to be accessed; loops count values, not words
  done,        \* bytes accessed
  pc, ret

vars == <<op, size, mem, mem2, legal, bad, from, from2, todo, done, pc, ret>>
-------------------------------------------------------------------------------
StoreOps == {"writet", "poke"}
LoadOps == {"readt", "peek"}
BulkOps == {"writes", "reads", "copym", "comparem", "set", "io"}
Ops == StoreOps \cup LoadOps \cup BulkOps

Sizes == 0..MaxSize
Counts == (-1)..MaxCount
Positions == (-MaxCount - 1)..MaxCount
NoOffset == -1

Init ==
  /\ op = "none" /\ size = 1
  /\ mem = 0 /\ mem2 = 0 /\ legal = FALSE /\ bad = 0
  /\ from = 0 /\ from2 = NoOffset /\ todo = 0 /\ done = 0
  /\ pc = "idle" /\ ret = 0
-------------------------------------------------------------------------------
(* The checks, as the code writes them, in lua_Integer words.              *)

InMemory(m, offset) == m # 0 /\ offset >= 0 /\ offset < m

\* Faulty: the offset is forgotten.
CountFits(m, offset, n) == n <= m

\* offset + n <= m, computed in a word.
EndsIn(m, offset, n) == Wrapped(offset + n) <= m

\* What the documentation asks: n bytes from offset are in the memory.
Within(m, offset, n) == n >= 0 /\ InMemory(m, offset) /\ offset + n <= m

\* ok is the outcome of the argument checks, may what the documentation says.
Access(ok, may, o, sz, m, offset, n, b) ==
  /\ pc = "idle"
  /\ op' = o /\ size' = sz /\ mem' = m /\ legal' = may
  /\ IF ok
     THEN bad' = b /\ from' = offset /\ todo' = n /\ pc' = "access"
     ELSE pc' = "rejected" /\ UNCHANGED <<bad, from, todo>>
  /\ UNCHANGED <<done, ret>>

One(ok, may, o, sz, m, offset, n, b) ==
  Access(ok, may, o, sz, m, offset, n, b) /\ UNCHANGED <<mem2, from2>>

\* The table's values i to j are stored; b is the first bad one among them.
MemoryWritet(sz, m, offset, len, i, j, b) ==
  LET n == OneBased(j, len) - OneBased(i, len) + 1
  IN  One(/\ InMemory(m, offset) /\ Aligned(sz, offset)
          /\ TableRangeOK(i, j, len)
          /\ EndsIn(m, offset, NvalToSize(sz, n)),
          /\ Part(i, j, len) # {} /\ Aligned(sz, offset)
          /\ Within(m, offset, Cardinality(Part(i, j, len)) * sz),
          "writet", sz, m, offset, n * sz, b)

\* Without a count, the values up to the end of the memory.
MemoryReadt(sz, m, offset, given, count) ==
  LET c == IF given THEN count ELSE SizeToNval(sz, m - offset)
  IN  One(/\ InMemory(m, offset) /\ Aligned(sz, offset)
          /\ c >= 0 /\ EndsIn(m, offset, NvalToSize(sz, c)),
          Aligned(sz, offset) /\ Within(m, offset, c * sz),
          "readt", sz, m, offset, c * sz, 0)

MemoryWrites(m, offset, len, i, j) ==
  LET n == OneBased(j, len) - ZeroBased(i, len)
  IN  One(InMemory(m, offset) /\ StringRangeOK(i, j, len) /\ EndsIn(m, offset, n),
          Part(i, j, len) # {} /\ Within(m, offset, Cardinality(Part(i, j, len))),
          "writes", 1, m, offset, n, 0)

\* A termination byte, when one is given and found at stop, ends the read.
MemoryReads(m, offset, given, count, stop) ==
  LET c == IF given THEN count ELSE m - offset
      n == IF stop < c THEN stop ELSE c
  IN  One(InMemory(m, offset) /\ c >= 0 /\ EndsIn(m, offset, c),
          Within(m, offset, c),
          "reads", 1, m, offset, n, 0)

\* n integer arguments follow the offset, at least one.
MemoryPoke(sz, m, offset, n, b) ==
  /\ n > 0
  /\ One(/\ m # 0 /\ offset >= 0 /\ Aligned(sz, offset)
         /\ EndsIn(m, offset, NvalToSize(sz, n)),
         Aligned(sz, offset) /\ Within(m, offset, n * sz),
         "poke", sz, m, offset, n * sz, b)

\* Faulty: one value fewer than documented.
PeekOneFewer(sz, m, offset, n) ==
  One(/\ InMemory(m, offset) /\ Aligned(sz, offset)
      /\ n >= 0 /\ n < MaxMultival /\ EndsIn(m, offset, NvalToSize(sz, n)),
      Aligned(sz, offset) /\ n <= MaxMultival /\ Within(m, offset, n * sz),
      "peek", sz, m, offset, n * sz, 0)

MemoryPeek(sz, m, offset, n) ==
  One(/\ InMemory(m, offset) /\ Aligned(sz, offset)
      /\ n >= 0 /\ n <= MaxMultival /\ EndsIn(m, offset, NvalToSize(sz, n)),
      Aligned(sz, offset) /\ n <= MaxMultival /\ Within(m, offset, n * sz),
      "peek", sz, m, offset, n * sz, 0)

MemoryOp(copy, m, offset, m2, offset2, n) ==
  LET ok == /\ InMemory(m, offset) /\ InMemory(m2, offset2)
            /\ n >= 0 /\ EndsIn(m, offset, n) /\ EndsIn(m2, offset2, n)
  IN  /\ Access(ok, Within(m, offset, n) /\ Within(m2, offset2, n),
                IF copy THEN "copym" ELSE "comparem", 1, m, offset, n, 0)
      /\ mem2' = m2
      /\ from2' = IF ok THEN offset2 ELSE from2

MemorySet(m, offset, given, count) ==
  LET n == IF given THEN count ELSE m - offset
  IN  One(InMemory(m, offset) /\ n >= 0 /\ EndsIn(m, offset, n),
          Within(m, offset, n),
          "set", 1, m, offset, n, 0)

\* The memory checks of Freadm and Fwritem: an offset at the very end will do.
MemoryIO(m, offset, n) ==
  One(m # 0 /\ offset >= 0 /\ n >= 0 /\ EndsIn(m, offset, n),
      m # 0 /\ offset >= 0 /\ n >= 0 /\ offset + n <= m,
      "io", 1, m, offset, n, 0)
-------------------------------------------------------------------------------
(* The accesses.                                                           *)

\* What the next access moves.
Chunk == IF op \in BulkOps THEN todo ELSE size

\* Faulty: a value is checked after it is stored.
AfterBad == bad # 0 /\ op \in StoreOps /\ done = bad * size

\* The k-th value is bad: an error is raised where it is met.
AtBad == bad # 0 /\ op \in StoreOps /\ done = (bad - 1) * size

Raise ==
  /\ pc = "access" /\ todo # 0 /\ AtBad
  /\ pc' = "raised"
  /\ UNCHANGED <<op, size, mem, mem2, legal, bad, from, from2, todo, done, ret>>

Move ==
  /\ pc = "access" /\ todo # 0 /\ ~AtBad
  /\ todo' = todo - Chunk /\ done' = done + Chunk
  /\ from' = from + Chunk
  /\ from2' = IF from2 = NoOffset THEN NoOffset ELSE from2 + Chunk
  /\ UNCHANGED <<op, size, mem, mem2, legal, bad, pc, ret>>

\* The bytes, or for readt and peek the values, that were moved.
Return ==
  /\ pc = "access" /\ todo = 0
  /\ ret' = IF op \in LoadOps THEN SizeToNval(size, done) ELSE done
  /\ pc' = "done"
  /\ UNCHANGED <<op, size, mem, mem2, legal, bad, from, from2, todo, done>>
-------------------------------------------------------------------------------
Begin ==
  /\ pc = "idle"
  /\ \E m \in Sizes, offset \in Counts :
       \/ \E sz \in Imodes, n \in Counts :
            \/ \E given \in BOOLEAN : MemoryReadt(sz, m, offset, given, n)
            \/ MemoryPeek(sz, m, offset, n)
            \/ \E b \in 0..n :
                 \* No table and no argument list is so long that its bytes
                 \* overflow a word.
                 /\ n * sz <= WordMax
                 /\ \/ MemoryPoke(sz, m, offset, n, b)
                    \/ \E i, j \in Positions : MemoryWritet(sz, m, offset, n, i, j, b)
       \/ \E n \in Counts :
            \/ \E given \in BOOLEAN :
                 \/ MemorySet(m, offset, given, n)
                 \/ \E stop \in 0..MaxSize : MemoryReads(m, offset, given, n, stop)
            \/ \E m2 \in Sizes, offset2 \in Counts, copy \in BOOLEAN :
                 MemoryOp(copy, m, offset, m2, offset2, n)
            \/ MemoryIO(m, offset, n)
            \/ \E i, j \in Positions : n >= 0 /\ MemoryWrites(m, offset, n, i, j)

Next == Begin \/ Raise \/ Move \/ Return

Spec == Init /\ [][Next]_vars
-------------------------------------------------------------------------------
(* Properties.                                                             *)

\* Every byte touched is inside its memory, in every step of a conversion, and
\* words and longs are at even addresses, the 68000 has no others: l_Mwrapm
\* checks its address and the allocators align theirs.
AccessInside ==
  pc = "access" /\ todo # 0 =>
    /\ Chunk > 0 /\ from >= 0 /\ from + Chunk <= mem
    /\ from2 # NoOffset => from2 >= 0 /\ from2 + Chunk <= mem2
    /\ Aligned(size, from)

\* The checks accept exactly the calls the documentation allows.
ChecksAreExact ==
  /\ pc = "rejected" => ~legal
  /\ pc = "access" => legal

\* A value out of range is not stored, nor any after it; those before it are,
\* though the call raises an error.
BadIsNeverStored ==
  op \in StoreOps /\ bad # 0 => done <= (bad - 1) * size
===============================================================================
