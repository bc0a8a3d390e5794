-------------------------- MODULE MemoryAccess_proofs --------------------------
(***************************************************************************)
(* Proofs about MemoryAccess, for memories and words of any size.          *)
(***************************************************************************)
EXTENDS MemoryAccess, Imode_proofs

\* The end of the values of a count after an offset fits a word.  Beyond this
\* the sum of the check wraps, and an access outside is accepted.
SumsFit == 5 * MaxCount <= WordMax
-------------------------------------------------------------------------------
(* The inductive invariant.                                                *)

TypeInv ==
  /\ op \in Ops \cup {"none"}
  /\ size \in Imodes
  /\ mem \in Nat /\ mem2 \in Nat /\ legal \in BOOLEAN
  /\ bad \in Nat /\ from \in Nat /\ from2 \in Nat \cup {NoOffset}
  /\ todo \in Nat /\ done \in Nat
  /\ pc \in {"idle", "rejected", "access", "raised", "done"}

\* Until the checks are passed nothing has happened.
NotBegun ==
  /\ pc = "idle" => bad = 0 /\ done = 0 /\ from2 = NoOffset
  /\ pc = "rejected" => ~legal /\ bad = 0

\* What is to do lies inside the memories, and is whole values.
Inside ==
  pc = "access" =>
    /\ legal /\ op \in Ops
    /\ op \in BulkOps => size = 1
    /\ Aligned(size, from) /\ todo % size = 0 /\ done % size = 0
    /\ from + todo <= mem
    /\ from2 # NoOffset => from2 + todo <= mem2

IInv == TypeInv /\ NotBegun /\ Inside /\ BadIsNeverStored

LEMMA InitInv == Init => IInv
<1> SUFFICES ASSUME Init PROVE IInv
  OBVIOUS
<1>1. TypeInv
  BY DEF Init, TypeInv, Imodes
<1>2. NotBegun /\ Inside /\ BadIsNeverStored
  BY DEF Init, NotBegun, Inside, BadIsNeverStored
<1>3. QED
  BY <1>1, <1>2 DEF IInv
-------------------------------------------------------------------------------
(* The calls.                                                              *)

\* A call whose checks agree with the documentation, and whose bytes lie in its
\* memories when they pass, begins well.
LEMMA AccessBegins ==
  ASSUME IInv,
         NEW ok \in BOOLEAN, NEW may \in BOOLEAN, NEW o \in Ops, NEW sz \in Imodes,
         NEW m \in Nat, NEW offset, NEW n, NEW b \in Nat,
         Access(ok, may, o, sz, m, offset, n, b),
         ok <=> may,
         ok => /\ offset \in Nat /\ n \in Nat /\ offset + n <= m
               /\ Aligned(sz, offset) /\ n % sz = 0 /\ (o \in BulkOps => sz = 1),
         mem2' \in Nat,
         \/ from2' = NoOffset
         \/ ok /\ from2' \in Nat /\ from2' + n <= mem2'
  PROVE  IInv'
<1>1. /\ pc = "idle" /\ op' = o /\ size' = sz /\ mem' = m /\ legal' = may
      /\ done' = 0 /\ bad = 0
  BY DEF Access, IInv, NotBegun
<1>2. CASE ~ok
  <2>1. pc' = "rejected" /\ UNCHANGED <<bad, from, todo>>
    BY <1>2 DEF Access
  <2>2. TypeInv'
    BY <1>1, <1>2, <2>1 DEF IInv, TypeInv
  <2>3. (NotBegun /\ Inside /\ BadIsNeverStored)'
    BY <1>1, <1>2, <2>1 DEF NotBegun, Inside, BadIsNeverStored
  <2>4. QED
    BY <2>2, <2>3 DEF IInv
<1>3. CASE ok
  <2>1. /\ pc' = "access" /\ bad' = b /\ from' = offset /\ todo' = n
        /\ offset \in Nat /\ n \in Nat /\ offset + n <= m
        /\ Aligned(sz, offset) /\ n % sz = 0 /\ (o \in BulkOps => sz = 1)
    BY <1>3 DEF Access
  <2>2. TypeInv'
    BY <1>1, <2>1 DEF IInv, TypeInv
  <2>3. 0 % sz = 0
    BY DEF Imodes
  <2>4. Aligned(size, from)'
    BY <1>1, <2>1 DEF Aligned
  <2>5. (NotBegun /\ Inside)'
    BY <1>1, <1>3, <2>1, <2>3, <2>4 DEF NotBegun, Inside
  <2>6. b # 0 => 0 <= (b - 1) * sz
    BY WholeProducts
  <2>7. BadIsNeverStored'
    BY <1>1, <2>1, <2>6 DEF BadIsNeverStored
  <2>8. QED
    BY <2>2, <2>5, <2>7 DEF IInv
<1>4. QED
  BY <1>2, <1>3

\* The same for a call with one memory.
LEMMA OneBegins ==
  ASSUME IInv,
         NEW ok \in BOOLEAN, NEW may \in BOOLEAN, NEW o \in Ops, NEW sz \in Imodes,
         NEW m \in Nat, NEW offset, NEW n, NEW b \in Nat,
         One(ok, may, o, sz, m, offset, n, b),
         ok <=> may,
         ok => /\ offset \in Nat /\ n \in Nat /\ offset + n <= m
               /\ Aligned(sz, offset) /\ n % sz = 0 /\ (o \in BulkOps => sz = 1)
  PROVE  IInv'
<1>1. Access(ok, may, o, sz, m, offset, n, b) /\ pc = "idle" /\ mem2' = mem2 /\ from2' = from2
  BY DEF One, Access
<1>2. mem2' \in Nat /\ from2' = NoOffset
  BY <1>1 DEF IInv, TypeInv, NotBegun
<1>3. QED
  BY <1>1, <1>2, AccessBegins

\* A sum that fits a word is compared as it is.
LEMMA EndFits ==
  ASSUME NEW m \in Nat, NEW offset \in Nat, NEW n \in Nat, offset + n <= WordMax
  PROVE  EndsIn(m, offset, n) <=> offset + n <= m
<1>1. Wrapped(offset + n) = offset + n
  BY WrappedFits, WordsAreNumbers
<1>2. QED
  BY <1>1 DEF EndsIn

\* And so are the bytes of a count of values.
LEMMA ValuesFit ==
  ASSUME NEW sz \in Imodes, NEW m \in Nat, NEW offset \in Nat, NEW n \in Nat,
         offset + 4 * n <= WordMax
  PROVE  /\ n * sz \in Nat /\ (n * sz) % sz = 0
         /\ EndsIn(m, offset, NvalToSize(sz, n)) <=> offset + n * sz <= m
<1>1. n * sz \in Nat /\ (n * sz) % sz = 0 /\ n * sz <= 4 * n
  BY WholeProducts
<1>2. NvalToSize(sz, n) = n * sz
  BY <1>1, WrappedFits, WordsAreNumbers DEF NvalToSize
<1>3. EndsIn(m, offset, n * sz) <=> offset + n * sz <= m
  BY <1>1, EndFits, WordsAreNumbers
<1>4. QED
  BY <1>1, <1>2, <1>3

\* The bounds of a call.
LEMMA Bounds ==
  ASSUME SumsFit, NEW m \in Sizes, NEW offset \in Counts, NEW n \in Counts
  PROVE  /\ m \in Nat /\ m <= WordMax /\ offset \in Int /\ n \in Int
         /\ offset >= -1 /\ n >= -1
         /\ offset \in Nat /\ n \in Nat => offset + 4 * n <= WordMax /\ offset + n <= WordMax
  BY SizesAreWords, WordsAreNumbers DEF SumsFit, Sizes, Counts

LEMMA WritetInv ==
  ASSUME SumsFit, IInv, NEW sz \in Imodes, NEW m \in Sizes, NEW offset \in Counts,
         NEW len \in Counts, NEW i \in Positions, NEW j \in Positions, NEW b \in 0..len,
         MemoryWritet(sz, m, offset, len, i, j, b)
  PROVE  IInv'
<1> DEFINE n == OneBased(j, len) - OneBased(i, len) + 1
           c == Cardinality(Part(i, j, len))
           ok == /\ InMemory(m, offset) /\ Aligned(sz, offset)
                 /\ TableRangeOK(i, j, len)
                 /\ EndsIn(m, offset, NvalToSize(sz, n))
           may == /\ Part(i, j, len) # {} /\ Aligned(sz, offset)
                  /\ Within(m, offset, c * sz)
<1>1. One(ok, may, "writet", sz, m, offset, n * sz, b)
  BY DEF MemoryWritet
<1>2. /\ m \in Nat /\ offset \in Int /\ i \in Int /\ j \in Int /\ len \in Nat /\ b \in Nat
      /\ len \in Counts
  BY Bounds, SizesAreWords DEF Positions, Counts
<1>3. OneBased(i, len) \in Int /\ OneBased(j, len) \in Int /\ n \in Int
  BY <1>2, ZeroIsOneLess
<1>4. /\ TableRangeOK(i, j, len) <=> Part(i, j, len) # {}
      /\ TableRangeOK(i, j, len) => c = n
  BY <1>2, PartIsRange
<1>5. TableRangeOK(i, j, len) => n \in Nat /\ n <= len
  BY <1>2, <1>3 DEF TableRangeOK
<1> HIDE DEF n, c
<1>6. ASSUME TableRangeOK(i, j, len), InMemory(m, offset)
      PROVE  /\ n * sz \in Nat /\ (n * sz) % sz = 0 /\ offset \in Nat
             /\ EndsIn(m, offset, NvalToSize(sz, n)) <=> offset + n * sz <= m
             /\ c * sz = n * sz
  <2>1. offset \in Nat /\ n \in Nat /\ n <= len
    BY <1>2, <1>5, <1>6 DEF InMemory
  <2>2. offset + 4 * len <= WordMax
    BY <1>2, <2>1, Bounds
  <2>3. offset + 4 * n <= WordMax
    BY <1>2, <2>1, <2>2, WordsAreNumbers
  <2>4. QED
    BY <1>2, <1>4, <1>6, <2>1, <2>3, ValuesFit
<1>7. ok <=> may
  BY <1>4, <1>6 DEF Within
<1>8. ok => /\ offset \in Nat /\ n * sz \in Nat /\ offset + n * sz <= m
            /\ Aligned(sz, offset) /\ (n * sz) % sz = 0
  BY <1>6
<1>9. ok \in BOOLEAN /\ may \in BOOLEAN
  OBVIOUS
<1>10. "writet" \in Ops /\ "writet" \notin BulkOps
  BY DEF Ops, StoreOps, BulkOps
<1> HIDE DEF ok, may
<1>11. QED
  BY <1>1, <1>2, <1>7, <1>8, <1>9, <1>10, OneBegins

LEMMA ReadtInv ==
  ASSUME SumsFit, IInv, NEW sz \in Imodes, NEW m \in Sizes, NEW offset \in Counts,
         NEW given \in BOOLEAN, NEW count \in Counts,
         MemoryReadt(sz, m, offset, given, count)
  PROVE  IInv'
<1> DEFINE c == IF given THEN count ELSE SizeToNval(sz, m - offset)
           ok == /\ InMemory(m, offset) /\ Aligned(sz, offset)
                 /\ c >= 0 /\ EndsIn(m, offset, NvalToSize(sz, c))
           may == Aligned(sz, offset) /\ Within(m, offset, c * sz)
<1>1. One(ok, may, "readt", sz, m, offset, c * sz, 0)
  BY DEF MemoryReadt
<1>2. /\ m \in Nat /\ m <= WordMax /\ offset \in Int /\ count \in Int
      /\ offset \in Nat /\ count \in Nat => offset + 4 * count <= WordMax
  BY Bounds
<1>3. ASSUME InMemory(m, offset)
      PROVE  /\ c \in Int
             /\ c >= 0 => /\ c * sz \in Nat /\ (c * sz) % sz = 0 /\ offset \in Nat
                          /\ EndsIn(m, offset, NvalToSize(sz, c)) <=> offset + c * sz <= m
  <2>1. offset \in Nat /\ offset < m /\ m - offset \in Nat
    BY <1>2, <1>3 DEF InMemory
  <2>2. CASE given
    BY <1>2, <2>1, <2>2, ValuesFit
  <2>3. CASE ~given
    <3> DEFINE room == m - offset
    <3>1. c = SizeToNval(sz, room) /\ room \in Nat
      BY <2>1, <2>3
    <3>2. room = m - offset
      OBVIOUS
    <3> HIDE DEF room, c
    <3>3. c \in Nat /\ c * sz = room - (room % sz) /\ room % sz \in 0..(sz - 1)
      BY <3>1, WholeValues
    <3>4. /\ c * sz \in Nat /\ (c * sz) % sz = 0
          /\ offset + c * sz <= m /\ c * sz <= WordMax
      <4>1. c * sz \in Nat /\ (c * sz) % sz = 0
        BY <3>3, WholeProducts
      <4>2. room % sz \in Nat
        BY <3>3 DEF Imodes
      <4>3. c * sz <= room
        BY <3>1, <3>3, <4>1, <4>2
      <4>4. QED
        BY <1>2, <2>1, <3>1, <3>2, <4>1, <4>3, WordsAreNumbers
    <3>5. NvalToSize(sz, c) = c * sz
      BY <3>4, WrappedFits, WordsAreNumbers DEF NvalToSize
    <3>6. EndsIn(m, offset, c * sz) <=> offset + c * sz <= m
      BY <1>2, <2>1, <3>4, EndFits, WordsAreNumbers
    <3>7. QED
      BY <2>1, <3>3, <3>4, <3>5, <3>6
  <2>4. QED
    BY <2>2, <2>3
<1> HIDE DEF c
<1>4. ASSUME InMemory(m, offset), ~(c >= 0)
      PROVE  ~(c * sz >= 0)
  BY <1>3, <1>4 DEF Imodes
<1>5. ok <=> may
  BY <1>3, <1>4 DEF Within
<1>6. ok => /\ offset \in Nat /\ c * sz \in Nat /\ offset + c * sz <= m
            /\ Aligned(sz, offset) /\ (c * sz) % sz = 0
  BY <1>3
<1>7. ok \in BOOLEAN /\ may \in BOOLEAN
  OBVIOUS
<1>8. "readt" \in Ops /\ "readt" \notin BulkOps
  BY DEF Ops, LoadOps, BulkOps
<1> HIDE DEF ok, may
<1>9. QED
  BY <1>1, <1>2, <1>5, <1>6, <1>7, <1>8, OneBegins

LEMMA WritesInv ==
  ASSUME SumsFit, IInv, NEW m \in Sizes, NEW offset \in Counts,
         NEW len \in Counts, NEW i \in Positions, NEW j \in Positions, len >= 0,
         MemoryWrites(m, offset, len, i, j)
  PROVE  IInv'
<1> DEFINE n == OneBased(j, len) - ZeroBased(i, len)
           c == Cardinality(Part(i, j, len))
           ok == InMemory(m, offset) /\ StringRangeOK(i, j, len) /\ EndsIn(m, offset, n)
           may == Part(i, j, len) # {} /\ Within(m, offset, c)
<1>1. One(ok, may, "writes", 1, m, offset, n, 0)
  BY DEF MemoryWrites
<1>2. /\ m \in Nat /\ offset \in Int /\ i \in Int /\ j \in Int /\ len \in Nat
  BY Bounds, SizesAreWords DEF Positions, Counts
<1>3. /\ OneBased(i, len) \in Int /\ OneBased(j, len) \in Int
      /\ ZeroBased(i, len) = OneBased(i, len) - 1
  BY <1>2, ZeroIsOneLess
<1>4. /\ StringRangeOK(i, j, len) <=> Part(i, j, len) # {}
      /\ StringRangeOK(i, j, len) => c = OneBased(j, len) - OneBased(i, len) + 1
  BY <1>2, SameRanges, PartIsRange
<1>5. StringRangeOK(i, j, len) => n \in Nat /\ n <= len /\ c = n
  <2>1. StringRangeOK(i, j, len) => TableRangeOK(i, j, len)
    BY <1>2, SameRanges
  <2> HIDE DEF c
  <2>2. QED
    BY <1>2, <1>3, <1>4, <2>1 DEF TableRangeOK
<1> HIDE DEF n, c
<1>6. ASSUME StringRangeOK(i, j, len), InMemory(m, offset)
      PROVE  offset \in Nat /\ n % 1 = 0 /\ (EndsIn(m, offset, n) <=> offset + n <= m)
  <2>1. offset \in Nat /\ n \in Nat /\ n <= len
    BY <1>2, <1>5, <1>6 DEF InMemory
  <2>2. offset + len <= WordMax
    BY <1>2, <2>1, Bounds
  <2>3. offset + n <= WordMax
    BY <1>2, <2>1, <2>2, WordsAreNumbers
  <2>4. QED
    BY <1>2, <2>1, <2>3, EndFits
<1>7. ok <=> may
  BY <1>4, <1>5, <1>6 DEF Within
<1>8. ok => offset \in Nat /\ n \in Nat /\ offset + n <= m /\ Aligned(1, offset) /\ n % 1 = 0
  BY <1>5, <1>6 DEF Aligned
<1>9. ok \in BOOLEAN /\ may \in BOOLEAN
  OBVIOUS
<1>10. "writes" \in Ops /\ 1 \in Imodes
  BY DEF Ops, BulkOps, Imodes
<1> HIDE DEF ok, may
<1>11. QED
  BY <1>1, <1>2, <1>7, <1>8, <1>9, <1>10, OneBegins

LEMMA ReadsInv ==
  ASSUME SumsFit, IInv, NEW m \in Sizes, NEW offset \in Counts,
         NEW given \in BOOLEAN, NEW count \in Counts, NEW stop \in 0..MaxSize,
         MemoryReads(m, offset, given, count, stop)
  PROVE  IInv'
<1> DEFINE c == IF given THEN count ELSE m - offset
           n == IF stop < c THEN stop ELSE c
           ok == InMemory(m, offset) /\ c >= 0 /\ EndsIn(m, offset, c)
           may == Within(m, offset, c)
<1>1. One(ok, may, "reads", 1, m, offset, n, 0)
  BY DEF MemoryReads
<1>2. /\ m \in Nat /\ m <= WordMax /\ offset \in Int /\ count \in Int /\ stop \in Nat
      /\ offset \in Nat /\ count \in Nat => offset + count <= WordMax
  BY Bounds, SizesAreWords
<1>3. ASSUME InMemory(m, offset)
      PROVE  /\ c \in Int /\ offset \in Nat
             /\ c >= 0 => offset + c <= WordMax /\ (EndsIn(m, offset, c) <=> offset + c <= m)
  <2>1. offset \in Nat /\ c \in Int /\ (c >= 0 => offset + c <= WordMax)
    BY <1>2, <1>3, WordsAreNumbers DEF InMemory
  <2> HIDE DEF c
  <2>2. QED
    BY <1>2, <2>1, EndFits
<1>4. c \in Int
  BY <1>2
<1> HIDE DEF c
<1>5. ok <=> may
  BY <1>3 DEF Within
<1>6. ok => /\ offset \in Nat /\ n \in Nat /\ offset + n <= m
            /\ Aligned(1, offset) /\ n % 1 = 0
  BY <1>2, <1>3, <1>4 DEF Aligned
<1>7. ok \in BOOLEAN /\ may \in BOOLEAN
  BY DEF Within, InMemory
<1>8. "reads" \in Ops /\ 1 \in Imodes
  BY DEF Ops, BulkOps, Imodes
<1> HIDE DEF ok, may, n
<1>9. QED
  BY <1>1, <1>2, <1>5, <1>6, <1>7, <1>8, OneBegins

LEMMA PokeInv ==
  ASSUME SumsFit, IInv, NEW sz \in Imodes, NEW m \in Sizes, NEW offset \in Counts,
         NEW n \in Counts, NEW b \in 0..n,
         MemoryPoke(sz, m, offset, n, b)
  PROVE  IInv'
<1> DEFINE ok == /\ m # 0 /\ offset >= 0 /\ Aligned(sz, offset)
                 /\ EndsIn(m, offset, NvalToSize(sz, n))
           may == Aligned(sz, offset) /\ Within(m, offset, n * sz)
<1>1. n > 0 /\ One(ok, may, "poke", sz, m, offset, n * sz, b)
  BY DEF MemoryPoke
<1>2. /\ m \in Nat /\ offset \in Int /\ n \in Nat /\ b \in Nat
      /\ offset \in Nat => offset + 4 * n <= WordMax
  BY <1>1, Bounds
<1>3. ASSUME offset >= 0
      PROVE  /\ n * sz \in Nat /\ (n * sz) % sz = 0 /\ offset \in Nat
             /\ EndsIn(m, offset, NvalToSize(sz, n)) <=> offset + n * sz <= m
  BY <1>2, <1>3, ValuesFit
<1>4. n * sz > 0
  BY <1>1, <1>2 DEF Imodes
<1>5. offset >= 0 /\ offset + n * sz <= m => m # 0 /\ offset < m
  BY <1>2, <1>3, <1>4
<1>6. ok <=> may
  BY <1>2, <1>3, <1>5 DEF Within, InMemory
<1>7. ok => /\ offset \in Nat /\ n * sz \in Nat /\ offset + n * sz <= m
            /\ Aligned(sz, offset) /\ (n * sz) % sz = 0
  BY <1>3
<1>8. ok \in BOOLEAN /\ may \in BOOLEAN
  OBVIOUS
<1>9. "poke" \in Ops /\ "poke" \notin BulkOps
  BY DEF Ops, StoreOps, BulkOps
<1> HIDE DEF ok, may
<1>10. QED
  BY <1>1, <1>2, <1>6, <1>7, <1>8, <1>9, OneBegins

LEMMA PeekInv ==
  ASSUME SumsFit, IInv, NEW sz \in Imodes, NEW m \in Sizes, NEW offset \in Counts,
         NEW n \in Counts,
         MemoryPeek(sz, m, offset, n)
  PROVE  IInv'
<1> DEFINE ok == /\ InMemory(m, offset) /\ Aligned(sz, offset)
                 /\ n >= 0 /\ n <= MaxMultival /\ EndsIn(m, offset, NvalToSize(sz, n))
           may == Aligned(sz, offset) /\ n <= MaxMultival /\ Within(m, offset, n * sz)
<1>1. One(ok, may, "peek", sz, m, offset, n * sz, 0)
  BY DEF MemoryPeek
<1>2. /\ m \in Nat /\ offset \in Int /\ n \in Int
      /\ offset \in Nat /\ n \in Nat => offset + 4 * n <= WordMax
  BY Bounds
<1>3. ASSUME InMemory(m, offset), n >= 0
      PROVE  /\ n * sz \in Nat /\ (n * sz) % sz = 0 /\ offset \in Nat
             /\ EndsIn(m, offset, NvalToSize(sz, n)) <=> offset + n * sz <= m
  BY <1>2, <1>3, ValuesFit DEF InMemory
<1>4. n * sz >= 0 => n >= 0
  BY <1>2 DEF Imodes
<1>5. ok <=> may
  BY <1>3, <1>4 DEF Within
<1>6. ok => /\ offset \in Nat /\ n * sz \in Nat /\ offset + n * sz <= m
            /\ Aligned(sz, offset) /\ (n * sz) % sz = 0
  BY <1>3
<1>7. ok \in BOOLEAN /\ may \in BOOLEAN
  OBVIOUS
<1>8. "peek" \in Ops /\ "peek" \notin BulkOps
  BY DEF Ops, LoadOps, BulkOps
<1> HIDE DEF ok, may
<1>9. QED
  BY <1>1, <1>2, <1>5, <1>6, <1>7, <1>8, OneBegins

LEMMA OpInv ==
  ASSUME SumsFit, IInv, NEW copy \in BOOLEAN, NEW m \in Sizes, NEW offset \in Counts,
         NEW m2 \in Sizes, NEW offset2 \in Counts, NEW n \in Counts,
         MemoryOp(copy, m, offset, m2, offset2, n)
  PROVE  IInv'
<1> DEFINE ok == /\ InMemory(m, offset) /\ InMemory(m2, offset2)
                 /\ n >= 0 /\ EndsIn(m, offset, n) /\ EndsIn(m2, offset2, n)
           may == Within(m, offset, n) /\ Within(m2, offset2, n)
           o == IF copy THEN "copym" ELSE "comparem"
<1>1. /\ Access(ok, may, o, 1, m, offset, n, 0)
      /\ mem2' = m2 /\ from2' = IF ok THEN offset2 ELSE from2
  BY DEF MemoryOp
<1>2. /\ m \in Nat /\ offset \in Int /\ m2 \in Nat /\ offset2 \in Int /\ n \in Int
      /\ offset \in Nat /\ n \in Nat => offset + n <= WordMax
      /\ offset2 \in Nat /\ n \in Nat => offset2 + n <= WordMax
  BY Bounds
<1>3. ASSUME InMemory(m, offset), n >= 0
      PROVE  offset \in Nat /\ n \in Nat /\ n % 1 = 0 /\ (EndsIn(m, offset, n) <=> offset + n <= m)
  BY <1>2, <1>3, EndFits DEF InMemory
<1>4. ASSUME InMemory(m2, offset2), n >= 0
      PROVE  offset2 \in Nat /\ (EndsIn(m2, offset2, n) <=> offset2 + n <= m2)
  BY <1>2, <1>4, EndFits DEF InMemory
<1>5. ok <=> may
  BY <1>3, <1>4 DEF Within
<1>6. ok => /\ offset \in Nat /\ n \in Nat /\ offset + n <= m /\ Aligned(1, offset)
            /\ n % 1 = 0 /\ offset2 \in Nat /\ offset2 + n <= m2
  BY <1>3, <1>4 DEF Aligned
<1>7. ok \in BOOLEAN /\ may \in BOOLEAN
  BY DEF Within, InMemory
<1>8. o \in Ops /\ 1 \in Imodes
  BY DEF Ops, BulkOps, Imodes
<1>9. mem2' \in Nat
  BY <1>1, <1>2
<1>10. from2 = NoOffset
  BY <1>1 DEF Access, IInv, NotBegun
<1> HIDE DEF ok, may, o
<1>11. from2' = NoOffset \/ (ok /\ from2' \in Nat /\ from2' + n <= mem2')
  BY <1>1, <1>6, <1>10
<1>12. QED
  BY <1>1, <1>2, <1>5, <1>6, <1>7, <1>8, <1>9, <1>11, AccessBegins

LEMMA SetInv ==
  ASSUME SumsFit, IInv, NEW m \in Sizes, NEW offset \in Counts,
         NEW given \in BOOLEAN, NEW count \in Counts,
         MemorySet(m, offset, given, count)
  PROVE  IInv'
<1> DEFINE n == IF given THEN count ELSE m - offset
           ok == InMemory(m, offset) /\ n >= 0 /\ EndsIn(m, offset, n)
           may == Within(m, offset, n)
<1>1. One(ok, may, "set", 1, m, offset, n, 0)
  BY DEF MemorySet
<1>2. /\ m \in Nat /\ m <= WordMax /\ offset \in Int /\ count \in Int
      /\ offset \in Nat /\ count \in Nat => offset + count <= WordMax
  BY Bounds
<1>3. ASSUME InMemory(m, offset)
      PROVE  /\ n \in Int /\ offset \in Nat
             /\ n >= 0 => n % 1 = 0 /\ (EndsIn(m, offset, n) <=> offset + n <= m)
  <2>1. offset \in Nat /\ n \in Int /\ (n >= 0 => offset + n <= WordMax)
    BY <1>2, <1>3, WordsAreNumbers DEF InMemory
  <2> HIDE DEF n
  <2>2. QED
    BY <1>2, <2>1, EndFits
<1> HIDE DEF n
<1>4. ok <=> may
  BY <1>3 DEF Within
<1>5. ok => /\ offset \in Nat /\ n \in Nat /\ offset + n <= m
            /\ Aligned(1, offset) /\ n % 1 = 0
  BY <1>3 DEF Aligned
<1>6. ok \in BOOLEAN /\ may \in BOOLEAN
  BY DEF Within, InMemory
<1>7. "set" \in Ops /\ 1 \in Imodes
  BY DEF Ops, BulkOps, Imodes
<1> HIDE DEF ok, may
<1>8. QED
  BY <1>1, <1>2, <1>4, <1>5, <1>6, <1>7, OneBegins

LEMMA IOInv ==
  ASSUME SumsFit, IInv, NEW m \in Sizes, NEW offset \in Counts, NEW n \in Counts,
         MemoryIO(m, offset, n)
  PROVE  IInv'
<1> DEFINE ok == m # 0 /\ offset >= 0 /\ n >= 0 /\ EndsIn(m, offset, n)
           may == m # 0 /\ offset >= 0 /\ n >= 0 /\ offset + n <= m
<1>1. One(ok, may, "io", 1, m, offset, n, 0)
  BY DEF MemoryIO
<1>2. /\ m \in Nat /\ offset \in Int /\ n \in Int
      /\ offset \in Nat /\ n \in Nat => offset + n <= WordMax
  BY Bounds
<1>3. ASSUME offset >= 0, n >= 0
      PROVE  offset \in Nat /\ n \in Nat /\ n % 1 = 0 /\ (EndsIn(m, offset, n) <=> offset + n <= m)
  BY <1>2, <1>3, EndFits
<1>4. ok <=> may
  BY <1>3
<1>5. ok => /\ offset \in Nat /\ n \in Nat /\ offset + n <= m
            /\ Aligned(1, offset) /\ n % 1 = 0
  BY <1>3 DEF Aligned
<1>6. ok \in BOOLEAN /\ may \in BOOLEAN
  OBVIOUS
<1>7. "io" \in Ops /\ 1 \in Imodes
  BY DEF Ops, BulkOps, Imodes
<1> HIDE DEF ok, may
<1>8. QED
  BY <1>1, <1>2, <1>4, <1>5, <1>6, <1>7, OneBegins

\* Every call begins well.
LEMMA BeginInv ==
  ASSUME SumsFit, IInv, Begin
  PROVE  IInv'
<1>1. PICK m \in Sizes, offset \in Counts :
        \/ \E sz \in Imodes, n \in Counts :
             \/ \E given \in BOOLEAN : MemoryReadt(sz, m, offset, given, n)
             \/ MemoryPeek(sz, m, offset, n)
             \/ \E b \in 0..n :
                  /\ n * sz <= WordMax
                  /\ \/ MemoryPoke(sz, m, offset, n, b)
                     \/ \E i, j \in Positions : MemoryWritet(sz, m, offset, n, i, j, b)
        \/ \E n \in Counts :
             \/ \E given \in BOOLEAN :
                  \/ MemorySet(m, offset, given, n)
                  \/ \E stop \in 0..MaxSize : MemoryReads(m, offset, given, n, stop)
             \/ \E m2 \in Sizes, offset2 \in Counts, copy \in BOOLEAN :
                  MemoryOp(copy, m, offset, m2, offset2, n)
             \/ MemoryIO(m, offset, n)
             \/ \E i, j \in Positions : n >= 0 /\ MemoryWrites(m, offset, n, i, j)
  BY DEF Begin
<1>2. ASSUME NEW sz \in Imodes, NEW n \in Counts,
             \/ \E given \in BOOLEAN : MemoryReadt(sz, m, offset, given, n)
             \/ MemoryPeek(sz, m, offset, n)
             \/ \E b \in 0..n :
                  /\ n * sz <= WordMax
                  /\ \/ MemoryPoke(sz, m, offset, n, b)
                     \/ \E i, j \in Positions : MemoryWritet(sz, m, offset, n, i, j, b)
      PROVE  IInv'
  BY <1>2, ReadtInv, PeekInv, PokeInv, WritetInv
<1>3. ASSUME NEW n \in Counts,
             \/ \E given \in BOOLEAN :
                  \/ MemorySet(m, offset, given, n)
                  \/ \E stop \in 0..MaxSize : MemoryReads(m, offset, given, n, stop)
             \/ \E m2 \in Sizes, offset2 \in Counts, copy \in BOOLEAN :
                  MemoryOp(copy, m, offset, m2, offset2, n)
             \/ MemoryIO(m, offset, n)
             \/ \E i, j \in Positions : n >= 0 /\ MemoryWrites(m, offset, n, i, j)
      PROVE  IInv'
  BY <1>3, SetInv, ReadsInv, OpInv, IOInv, WritesInv
<1>4. QED
  BY <1>1, <1>2, <1>3
-------------------------------------------------------------------------------
(* The accesses.                                                           *)

\* What the next access moves is some of what is to do, in whole values.
LEMMA ChunkFits ==
  ASSUME IInv, pc = "access", todo # 0
  PROVE  /\ Chunk \in 1..todo /\ Chunk % size = 0
         /\ op \notin BulkOps => Chunk = size
<1>1. TypeInv /\ Inside
  BY DEF IInv
<1>2. size \in Imodes /\ todo \in Nat \ {0} /\ todo % size = 0
  BY <1>1 DEF TypeInv, Inside
<1>3. size \in Nat \ {0} /\ size % size = 0
  BY <1>2 DEF Imodes
<1>4. size <= todo
  <2>1. CASE size = 1
    BY <1>2, <2>1
  <2>2. CASE size = 2
    BY <1>2, <2>2
  <2>3. CASE size = 4
    BY <1>2, <2>3
  <2>4. QED
    BY <1>2, <2>1, <2>2, <2>3 DEF Imodes
<1>5. QED
  BY <1>2, <1>3, <1>4 DEF Chunk

LEMMA MoveInv ==
  ASSUME IInv, Move
  PROVE  IInv'
<1> DEFINE chunk == Chunk
<1>1. /\ pc = "access" /\ todo # 0 /\ ~AtBad
      /\ todo' = todo - chunk /\ done' = done + chunk /\ from' = from + chunk
      /\ from2' = IF from2 = NoOffset THEN NoOffset ELSE from2 + chunk
      /\ UNCHANGED <<op, size, mem, mem2, legal, bad, pc, ret>>
  BY DEF Move
<1>2. TypeInv /\ Inside /\ BadIsNeverStored
  BY DEF IInv
<1>3. /\ chunk \in 1..todo /\ chunk % size = 0
      /\ op \notin BulkOps => chunk = size
  BY <1>1, ChunkFits
<1>4. /\ size \in Imodes /\ todo \in Nat /\ done \in Nat /\ from \in Nat /\ mem \in Nat
      /\ mem2 \in Nat /\ bad \in Nat /\ from2 \in Nat \cup {NoOffset}
  BY <1>2 DEF TypeInv
<1>5. /\ legal /\ op \in Ops /\ Aligned(size, from) /\ todo % size = 0 /\ done % size = 0
      /\ op \in BulkOps => size = 1
      /\ from + todo <= mem /\ (from2 # NoOffset => from2 + todo <= mem2)
  BY <1>1, <1>2 DEF Inside
<1> HIDE DEF chunk
<1>6. chunk \in Nat /\ chunk <= todo
  BY <1>3, <1>4
<1>7. (todo - chunk) % size = 0 /\ (done + chunk) % size = 0
  BY <1>3, <1>4, <1>5, <1>6, WholeSums
<1>8. Aligned(size, from + chunk)
  <2>1. CASE size = 1
    BY <2>1 DEF Aligned
  <2>2. CASE size \in {2, 4}
    <3>1. from % 2 = 0 /\ chunk % 2 = 0
      BY <1>3, <1>4, <1>5, <1>6, <2>2 DEF Aligned
    <3>2. (from + chunk) % 2 = 0
      BY <1>4, <1>6, <3>1
    <3>3. QED
      BY <3>2 DEF Aligned
  <2>3. QED
    BY <1>4, <2>1, <2>2 DEF Imodes
<1>9. from2' \in Nat \cup {NoOffset} /\ (from2' # NoOffset => from2 # NoOffset /\ from2' = from2 + chunk)
  BY <1>1, <1>4, <1>6 DEF NoOffset
<1>10. TypeInv'
  <2>1. todo' \in Nat /\ done' \in Nat /\ from' \in Nat
    BY <1>1, <1>4, <1>6
  <2>2. QED
    BY <1>1, <1>2, <1>9, <2>1 DEF TypeInv
<1>11. NotBegun'
  BY <1>1 DEF NotBegun
<1>12. Inside'
  <2>1. from' + todo' <= mem
    BY <1>1, <1>4, <1>5, <1>6
  <2>2. from2' # NoOffset => from2' + todo' <= mem2
    BY <1>1, <1>4, <1>5, <1>6, <1>9
  <2>3. Aligned(size, from)'
    BY <1>1, <1>8 DEF Aligned
  <2>4. QED
    BY <1>1, <1>5, <1>7, <2>1, <2>2, <2>3 DEF Inside
<1>13. ASSUME op \in StoreOps, bad # 0
       PROVE  done + chunk <= (bad - 1) * size
  <2>1. done <= (bad - 1) * size /\ done # (bad - 1) * size
    BY <1>1, <1>2, <1>13 DEF BadIsNeverStored, AtBad
  <2>2. bad - 1 \in Nat
    BY <1>4, <1>13
  <2>3. (bad - 1) * size \in Nat /\ ((bad - 1) * size) % size = 0
    BY <1>4, <2>2, WholeProducts
  <2>4. done < (bad - 1) * size
    BY <1>4, <2>1, <2>3
  <2>5. done + size <= (bad - 1) * size
    BY <1>4, <1>5, <2>3, <2>4, WholeSums
  <2>6. chunk = size
    BY <1>3, <1>13 DEF StoreOps, BulkOps
  <2>7. QED
    BY <2>5, <2>6
<1>14. BadIsNeverStored'
  BY <1>1, <1>13 DEF BadIsNeverStored
<1>15. QED
  BY <1>10, <1>11, <1>12, <1>14 DEF IInv
-------------------------------------------------------------------------------
(* The theorems.                                                           *)

\* Every step keeps the invariant.
LEMMA StepInv ==
  ASSUME SumsFit, IInv, [Next]_vars
  PROVE  IInv'
<1>1. CASE Begin
  BY <1>1, BeginInv
<1>2. CASE Raise
  BY <1>2 DEF Raise, IInv, TypeInv, NotBegun, Inside, BadIsNeverStored
<1>3. CASE Move
  BY <1>3, MoveInv
<1>4. CASE Return
  BY <1>4 DEF Return, IInv, TypeInv, NotBegun, Inside, BadIsNeverStored
<1>5. CASE UNCHANGED vars
  BY <1>5 DEF vars, IInv, TypeInv, NotBegun, Inside, BadIsNeverStored, Aligned
<1>6. QED
  BY <1>1, <1>2, <1>3, <1>4, <1>5 DEF Next

LEMMA SpecInv ==
  ASSUME SumsFit
  PROVE  Spec => []IInv
  BY InitInv, StepInv, PTL DEF Spec

\* Every byte touched is inside its memory, and every word and long at an even
\* address, in memories of any size.
THEOREM AccessAlwaysInside ==
  ASSUME SumsFit
  PROVE  Spec => []AccessInside
<1>1. IInv => AccessInside
  <2>1. SUFFICES ASSUME IInv, pc = "access", todo # 0
                 PROVE  /\ Chunk > 0 /\ from >= 0 /\ from + Chunk <= mem
                        /\ from2 # NoOffset => from2 >= 0 /\ from2 + Chunk <= mem2
                        /\ Aligned(size, from)
    BY DEF AccessInside
  <2> DEFINE chunk == Chunk
  <2>2. chunk \in 1..todo
    BY <2>1, ChunkFits
  <2>3. /\ todo \in Nat /\ from \in Nat /\ mem \in Nat /\ mem2 \in Nat
        /\ from2 \in Nat \cup {NoOffset}
    BY <2>1 DEF IInv, TypeInv
  <2>4. /\ from + todo <= mem /\ (from2 # NoOffset => from2 + todo <= mem2)
        /\ Aligned(size, from)
    BY <2>1 DEF IInv, Inside
  <2> HIDE DEF chunk
  <2>5. chunk > 0 /\ from >= 0 /\ from + chunk <= mem
    BY <2>2, <2>3, <2>4
  <2>6. from2 # NoOffset => from2 >= 0 /\ from2 + chunk <= mem2
    BY <2>2, <2>3, <2>4
  <2>7. QED
    BY <2>4, <2>5, <2>6 DEF chunk
<1>2. QED
  BY <1>1, SpecInv, PTL

\* The checks of the nine access functions, and of the memory side of Freadm
\* and Fwritem, accept exactly the calls the documentation allows.
THEOREM ChecksAlwaysExact ==
  ASSUME SumsFit
  PROVE  Spec => []ChecksAreExact
<1>1. IInv => ChecksAreExact
  BY DEF IInv, NotBegun, Inside, ChecksAreExact
<1>2. QED
  BY <1>1, SpecInv, PTL

\* No value out of range is stored, nor any after it.
THEOREM BadNeverStored ==
  ASSUME SumsFit
  PROVE  Spec => []BadIsNeverStored
<1>1. IInv => BadIsNeverStored
  BY DEF IInv
<1>2. QED
  BY <1>1, SpecInv, PTL
===============================================================================
