-------------------------- MODULE FileTransfer_proofs --------------------------
(***************************************************************************)
(* Proofs about FileTransfer, for blocks, lengths and words of any size.   *)
(***************************************************************************)
EXTENDS FileTransfer, Imode_proofs

\* The bytes of a count fit a word.  Without this the byte count of Freadt
\* wraps, and is not what was asked for.
BytesFit == 4 * MaxCount <= WordMax
-------------------------------------------------------------------------------
(* The inductive invariant.                                                *)

TypeInv ==
  /\ op \in Ops \cup {"none"}
  /\ size \in Imodes
  /\ want \in [legal : BOOLEAN, first : Nat, bytes : Nat]
  /\ bad \in Nat /\ count \in Nat /\ remaining \in Nat /\ from \in Nat
  /\ amount \in Nat /\ moved \in Nat /\ stored \in Nat
  /\ result \in Int /\ ret \in Int
  /\ pc \in {"idle", "rejected", "loop", "ask", "end", "raised", "done"}

\* Until the checks are passed nothing has happened.
NotBegun ==
  pc \in {"idle", "rejected"} =>
    /\ moved = 0 /\ stored = 0 /\ result = 0 /\ ret = 0 /\ bad = 0
    /\ pc = "rejected" => ~want.legal

\* A call in progress does what was asked for, in whole values.
AsAsked ==
  pc \notin {"idle", "rejected"} =>
    /\ op \in Ops /\ want.legal /\ count = want.bytes
    /\ want.first % size = 0 /\ want.bytes % size = 0
    /\ op \in ByteOps => size = 1
    /\ op \in ValueOps => want.first = 0
    /\ moved <= want.bytes

\* What remains begins where the next block does; only a write of values may
\* have left parts of them out.
Loops ==
  pc \in {"loop", "ask"} =>
    /\ from + remaining = want.first + want.bytes
    /\ from % size = 0
    /\ IF op = "writei"
       THEN want.first + moved <= from /\ (moved = 0 => from = want.first)
       ELSE from = want.first + moved
    /\ result >= 0

\* The block asked for is made of whole values and of what remains.
Asks ==
  pc = "ask" =>
    /\ amount \in 1..remaining /\ amount <= BlockSize
    /\ amount % size = 0
    /\ op \in ValueOps => amount = size

\* The loop was left because of the last answer.
Ends ==
  pc = "end" =>
    /\ op \in ByteOps => result <= 0
    /\ op \in TableOps \cup {"readi"} => result < amount
    /\ op \notin ValueOps => remaining = want.bytes - moved

\* In every state of a read the script has the whole values of what was moved.
Stores ==
  pc \notin {"idle", "rejected"} /\ op \in ReadOps => stored = moved - (moved % size)

\* The next block begins, and the one asked for ends, before a bad value.
BeforeBad ==
  op \in {"writet", "writei"} /\ bad * size > want.first =>
    /\ pc = "loop" => from <= (bad - 1) * size
    /\ pc = "ask" => from + amount <= (bad - 1) * size

IInv ==
  /\ TypeInv /\ NotBegun /\ AsAsked /\ Loops /\ Asks /\ Ends /\ Stores /\ BeforeBad
  /\ BadIsNeverWritten /\ ReturnTellsMoved

LEMMA InitInv == Init => IInv
  BY WholeValues DEF Init, IInv, TypeInv, NotBegun, AsAsked, Loops, Asks, Ends, Stores,
     BeforeBad, BadIsNeverWritten, ReturnTellsMoved, NotAllowed, Asked, Imodes
-------------------------------------------------------------------------------
(* The calls.                                                              *)

\* What a call asks for is whole values.
Whole(o, sz, asked) ==
  /\ asked.first % sz = 0 /\ asked.bytes % sz = 0
  /\ o \in ByteOps => sz = 1
  /\ o \in ValueOps => asked.first = 0

\* A call whose checks and sums agree with the documentation begins well.
LEMMA CallBegins ==
  ASSUME IInv,
         NEW ok \in BOOLEAN, NEW o \in Ops, NEW sz \in Imodes,
         NEW asked \in [legal : BOOLEAN, first : Nat, bytes : Nat],
         NEW b \in Nat, NEW index, NEW c,
         Call(ok, o, sz, asked, b, index, c),
         ok <=> asked.legal,
         ok => index = asked.first /\ c = asked.bytes /\ Whole(o, sz, asked)
  PROVE  IInv'
<1>1. /\ pc = "idle" /\ op' = o /\ size' = sz /\ want' = asked
      /\ UNCHANGED <<amount, result, moved, stored, ret>>
      /\ moved = 0 /\ stored = 0 /\ result = 0 /\ ret = 0 /\ bad = 0
  BY DEF Call, IInv, NotBegun
<1>2. CASE ~ok
  <2>1. pc' = "rejected" /\ UNCHANGED <<bad, count, remaining, from>>
    BY <1>2 DEF Call
  <2>2. TypeInv'
    BY <1>1, <2>1 DEF IInv, TypeInv
  <2>3. bad' * size' = 0
    BY <1>1, <2>1 DEF Imodes
  <2>4. (NotBegun /\ AsAsked /\ Loops /\ Asks /\ Ends /\ Stores)'
    BY <1>1, <1>2, <2>1 DEF NotBegun, AsAsked, Loops, Asks, Ends, Stores
  <2>5. (BeforeBad /\ BadIsNeverWritten /\ ReturnTellsMoved)'
    BY <1>1, <2>1, <2>3 DEF BeforeBad, BadIsNeverWritten, ReturnTellsMoved
  <2>6. QED
    BY <2>2, <2>4, <2>5 DEF IInv
<1>3. CASE ok
  <2>1. /\ pc' = "loop" /\ bad' = b /\ count' = asked.bytes
        /\ remaining' = asked.bytes /\ from' = asked.first
        /\ asked.legal /\ Whole(o, sz, asked)
    BY <1>3 DEF Call
  <2>2. TypeInv'
    BY <1>1, <2>1 DEF IInv, TypeInv
  <2>3. 0 % sz = 0
    BY DEF Imodes
  <2>4. (NotBegun /\ AsAsked /\ Loops /\ Asks /\ Ends /\ Stores)'
    BY <1>1, <2>1, <2>3 DEF NotBegun, AsAsked, Loops, Asks, Ends, Stores, Whole
  <2>5. b * sz > asked.first => asked.first <= (b - 1) * sz
    <3>1. asked.first % sz = 0 /\ asked.first \in Nat
      BY <2>1 DEF Whole
    <3>2. b * sz \in Nat /\ (b * sz) % sz = 0 /\ (b # 0 => (b - 1) * sz = b * sz - sz)
      BY WholeProducts
    <3>3. b = 0 => b * sz = 0
      BY DEF Imodes
    <3>4. asked.first < b * sz => asked.first + sz <= b * sz
      BY <3>1, <3>2, WholeSums
    <3>5. sz \in Nat
      BY DEF Imodes
    <3>6. QED
      BY <3>1, <3>2, <3>3, <3>4, <3>5
  <2>6. (BeforeBad /\ BadIsNeverWritten /\ ReturnTellsMoved)'
    BY <1>1, <2>1, <2>5 DEF BeforeBad, BadIsNeverWritten, ReturnTellsMoved
  <2>7. QED
    BY <2>2, <2>4, <2>6 DEF IInv
<1>4. QED
  BY <1>2, <1>3

\* A part of a table or of a string is asked for as the checks have it.
LEMMA PartAsked ==
  ASSUME NEW mode \in Modes, NEW sz \in Imodes, NEW len \in Nat,
         NEW i \in Int, NEW j \in Int
  PROVE  /\ AskedPart(mode, sz, i, j, len) \in [legal : BOOLEAN, first : Nat, bytes : Nat]
         /\ AskedPart(mode, sz, i, j, len).legal
              <=> Writable(mode) /\ TableRangeOK(i, j, len)
         /\ TableRangeOK(i, j, len) =>
              /\ AskedPart(mode, sz, i, j, len).first = (OneBased(i, len) - 1) * sz
              /\ AskedPart(mode, sz, i, j, len).bytes
                   = (OneBased(j, len) - OneBased(i, len) + 1) * sz
              /\ OneBased(i, len) - 1 \in Nat
              /\ OneBased(j, len) - OneBased(i, len) + 1 \in 1..len
<1> DEFINE a == OneBased(i, len)
           z == OneBased(j, len)
           part == Part(i, j, len)
<1>1. a \in Int /\ z \in Int
  BY ZeroIsOneLess
<1>2. CASE ~TableRangeOK(i, j, len)
  BY <1>2, PartIsRange DEF AskedPart, NotAllowed, Asked
<1>3. CASE TableRangeOK(i, j, len)
  <2>1. a >= 1 /\ a <= z /\ z <= len
    BY <1>1, <1>3 DEF TableRangeOK
  <2>2. part # {} /\ part = a..z /\ Cardinality(part) = z - a + 1
    BY <1>3, PartIsRange
  <2>3. (CHOOSE k \in part : k - 1 \notin part) = a
    BY <1>1, <2>1, <2>2, FirstOfRange
  <2>4. AskedPart(mode, sz, i, j, len)
          = [legal |-> Writable(mode), first |-> (a - 1) * sz, bytes |-> (z - a + 1) * sz]
    BY <2>2, <2>3 DEF AskedPart, Asked
  <2>5. a - 1 \in Nat /\ z - a + 1 \in 1..len /\ z - a + 1 \in Nat
    BY <1>1, <2>1
  <2>6. (a - 1) * sz \in Nat /\ (z - a + 1) * sz \in Nat
    BY <2>5, WholeProducts
  <2>7. Writable(mode) \in BOOLEAN
    BY DEF Writable
  <2>8. AskedPart(mode, sz, i, j, len) \in [legal : BOOLEAN, first : Nat, bytes : Nat]
    BY <2>4, <2>6, <2>7
  <2>9. /\ AskedPart(mode, sz, i, j, len).legal = Writable(mode)
        /\ AskedPart(mode, sz, i, j, len).first = (a - 1) * sz
        /\ AskedPart(mode, sz, i, j, len).bytes = (z - a + 1) * sz
    BY <2>4
  <2> HIDE DEF a, z
  <2>10. QED
    BY <1>3, <2>5, <2>7, <2>8, <2>9, Zenon DEF a, z
<1>4. QED
  BY <1>2, <1>3

\* The code's checks of what a file is open for are those of the documentation.
LEMMA ModesChecked ==
  ASSUME NEW mode \in Modes
  PROVE  /\ ReadOK(mode) = Readable(mode) /\ WriteOK(mode) = Writable(mode)
         /\ Readable(mode) \in BOOLEAN /\ Writable(mode) \in BOOLEAN
  BY DEF Modes, ReadOK, WriteOK, Readable, Writable

\* The operations of each kind are operations, and of no other kind.
LEMMA OpsOf ==
  /\ {"reads", "readm", "writes", "writem"} \subseteq ByteOps
  /\ ByteOps \subseteq Ops /\ ValueOps \subseteq Ops /\ TableOps \subseteq Ops
  /\ {"readt", "writet"} \subseteq TableOps /\ {"readi", "writei"} \subseteq ValueOps
  /\ ByteOps \cap TableOps = {} /\ ByteOps \cap ValueOps = {}
  /\ TableOps \cap ValueOps = {}
  BY DEF ByteOps, TableOps, ValueOps, Ops

LEMMA AskedFields ==
  ASSUME NEW ok \in BOOLEAN, NEW f \in Nat, NEW k \in Nat
  PROVE  /\ Asked(ok, f, k) \in [legal : BOOLEAN, first : Nat, bytes : Nat]
         /\ Asked(ok, f, k).legal = ok
         /\ Asked(ok, f, k).first = f /\ Asked(ok, f, k).bytes = k
  BY DEF Asked

\* The bytes of a count are whole values and fit a word.
LEMMA CountBytes ==
  ASSUME BytesFit, NEW sz \in Imodes, NEW k \in Nat, k <= MaxCount
  PROVE  /\ k * sz \in Nat /\ (k * sz) % sz = 0 /\ 0 % sz = 0
         /\ NvalToSize(sz, k) = k * sz
<1>1. k * sz \in Nat /\ (k * sz) % sz = 0 /\ k * sz <= 4 * k
  BY WholeProducts
<1>2. k * sz <= WordMax
  BY <1>1, CountsAreWords, WordsAreNumbers DEF BytesFit
<1>3. NvalToSize(sz, k) = k * sz
  BY <1>1, <1>2, WrappedFits, WordsAreNumbers DEF NvalToSize
<1>4. 0 % sz = 0
  BY DEF Imodes
<1>5. QED
  BY <1>1, <1>3, <1>4

\* The number of values is checked as the documentation has it: a negative one
\* is refused, and so is one beyond the largest of the call.
LEMMA NumberAsked ==
  ASSUME NEW mode \in Modes, NEW sz \in Imodes, NEW n \in Int, NEW numbers \in SUBSET Nat
  PROVE  /\ AskedNumber(mode, sz, n, numbers) \in [legal : BOOLEAN, first : Nat, bytes : Nat]
         /\ AskedNumber(mode, sz, n, numbers).legal <=> Readable(mode) /\ n \in numbers
         /\ n \in numbers => /\ AskedNumber(mode, sz, n, numbers).first = 0
                            /\ AskedNumber(mode, sz, n, numbers).bytes = n * sz
<1>1. CASE n \in numbers
  <2>1. AskedNumber(mode, sz, n, numbers) = Asked(Readable(mode), 0, n * sz)
    BY <1>1 DEF AskedNumber
  <2>2. n \in Nat /\ n * sz \in Nat
    BY <1>1, WholeProducts
  <2>3. QED
    BY <1>1, <2>1, <2>2, AskedFields, ModesChecked
<1>2. CASE n \notin numbers
  BY <1>2, AskedFields DEF AskedNumber, NotAllowed
<1>3. QED
  BY <1>1, <1>2

\* A read of a number of values begins well, if its checks are those of the
\* documentation.
LEMMA ReadOfNumberBegins ==
  ASSUME BytesFit, IInv, NEW mode \in Modes, NEW n \in Numbers, NEW sz \in Imodes,
         NEW numbers \in SUBSET Nat, NEW ok \in BOOLEAN,
         NEW o \in {"reads", "readt", "readi"}, o = "reads" => sz = 1, NEW c,
         ok <=> ReadOK(mode) /\ n \in numbers,
         n \in Nat => c = n * sz,
         Call(ok, o, sz, AskedNumber(mode, sz, n, numbers), 0, 0, c)
  PROVE  IInv'
<1> DEFINE asked == AskedNumber(mode, sz, n, numbers)
<1>1. n \in Int /\ n <= MaxCount
  BY CountsAreWords DEF Numbers
<1>2. /\ asked \in [legal : BOOLEAN, first : Nat, bytes : Nat]
      /\ asked.legal <=> Readable(mode) /\ n \in numbers
      /\ n \in numbers => asked.first = 0 /\ asked.bytes = n * sz
  BY <1>1, NumberAsked
<1>3. Call(ok, o, sz, asked, 0, 0, c)
  OBVIOUS
<1> HIDE DEF asked
<1>4. ok <=> asked.legal
  BY <1>2, ModesChecked
<1>5. o \in Ops /\ (o \in ByteOps => sz = 1)
  BY OpsOf
<1>6. ASSUME ok
      PROVE  0 = asked.first /\ c = asked.bytes /\ Whole(o, sz, asked)
  <2>1. n \in numbers /\ n \in Nat
    BY <1>6
  <2>2. (n * sz) % sz = 0 /\ 0 % sz = 0
    BY <1>1, <2>1, CountBytes
  <2>3. QED
    BY <1>2, <1>5, <2>1, <2>2 DEF Whole
<1>7. QED
  BY <1>2, <1>3, <1>4, <1>5, <1>6, CallBegins

\* Freads, Freadt and Freadi begin well.
LEMMA ReadsInv ==
  ASSUME BytesFit, IInv, NEW mode \in Modes, Reads(mode)
  PROVE  IInv'
<1>1. PICK n \in Numbers :
        \/ l_Freads(mode, n)
        \/ \E sz \in Imodes : l_Freadt(mode, sz, n) \/ l_Freadi(mode, sz, n)
  BY DEF Reads
<1>2. n \in Int /\ n <= MaxCount /\ MaxMultival \in Nat
  BY CountsAreWords, MultivalIsNumber DEF Numbers
<1>3. /\ n \in Nat <=> n >= 0
      /\ n \in 0..MaxMultival <=> n >= 0 /\ n <= MaxMultival
  BY <1>2
<1>4. Nat \in SUBSET Nat /\ 0..MaxMultival \in SUBSET Nat
  OBVIOUS
<1>5. ReadOK(mode) \in BOOLEAN
  BY DEF ReadOK
<1>6. CASE l_Freads(mode, n)
  <2> DEFINE ok == ReadOK(mode) /\ n >= 0
  <2>1. Call(ok, "reads", 1, AskedNumber(mode, 1, n, Nat), 0, 0, n)
    BY <1>6 DEF l_Freads
  <2>2. ok \in BOOLEAN /\ (ok <=> ReadOK(mode) /\ n \in Nat)
    BY <1>3
  <2>3. 1 \in Imodes /\ (n \in Nat => n = n * 1)
    BY DEF Imodes
  <2> HIDE DEF ok
  <2>4. QED
    BY <1>4, <2>1, <2>2, <2>3, ReadOfNumberBegins
<1>7. ASSUME NEW sz \in Imodes, l_Freadt(mode, sz, n)
      PROVE  IInv'
  <2> DEFINE ok == ReadOK(mode) /\ n >= 0
             c == NvalToSize(sz, n)
  <2>1. Call(ok, "readt", sz, AskedNumber(mode, sz, n, Nat), 0, 0, c)
    BY <1>7 DEF l_Freadt
  <2>2. ok \in BOOLEAN /\ (ok <=> ReadOK(mode) /\ n \in Nat)
    BY <1>3
  <2>3. n \in Nat => c = n * sz
    BY <1>2, CountBytes
  <2> HIDE DEF ok, c
  <2>4. QED
    BY <1>4, <2>1, <2>2, <2>3, ReadOfNumberBegins
<1>8. ASSUME NEW sz \in Imodes, l_Freadi(mode, sz, n)
      PROVE  IInv'
  <2> DEFINE ok == ReadOK(mode) /\ n >= 0 /\ n <= MaxMultival
             c == n * sz
  <2>1. Call(ok, "readi", sz, AskedNumber(mode, sz, n, 0..MaxMultival), 0, 0, c)
    BY <1>8 DEF l_Freadi
  <2>2. ok \in BOOLEAN /\ (ok <=> ReadOK(mode) /\ n \in 0..MaxMultival)
    BY <1>3
  <2>3. n \in Nat => c = n * sz
    OBVIOUS
  <2> HIDE DEF ok, c
  <2>4. QED
    BY <1>4, <2>1, <2>2, <2>3, ReadOfNumberBegins
<1>9. QED
  BY <1>1, <1>6, <1>7, <1>8

\* Freadm and Fwritem begin well.
LEMMA MemoryIOInv ==
  ASSUME BytesFit, IInv, NEW mode \in Modes, NEW n \in Counts,
         NEW read \in BOOLEAN, NEW offset \in {0, 1}, MemoryIO(read, mode, offset, n)
  PROVE  IInv'
<1> DEFINE ok == IF read THEN ReadOK(mode) ELSE WriteOK(mode)
           may == IF read THEN Readable(mode) ELSE Writable(mode)
           o == IF read THEN "readm" ELSE "writem"
<1>1. ok = may /\ may \in BOOLEAN /\ o \in ByteOps /\ o \in Ops /\ o \notin ValueOps
  BY ModesChecked, OpsOf
<1>2. Call(ok, o, 1, Asked(may, offset, n), 0, offset, n)
  BY DEF MemoryIO
<1> HIDE DEF ok, may, o
<1>3. n \in Nat /\ offset \in Nat /\ 1 \in Imodes /\ n % 1 = 0 /\ offset % 1 = 0
  BY CountsAreWords DEF Counts, Imodes
<1>4. Whole(o, 1, Asked(may, offset, n))
  BY <1>1, <1>3, AskedFields DEF Whole
<1>5. QED
  BY <1>1, <1>2, <1>3, <1>4, AskedFields, CallBegins

\* Fwrites, Fwritet and Fwritei begin well.
LEMMA WritesInv ==
  ASSUME BytesFit, IInv, NEW mode \in Modes, Writes(mode)
  PROVE  IInv'
<1>1. PICK n \in Counts :
        \/ \E i, j \in Positions : l_Fwrites(mode, n, i, j)
        \/ \E sz \in Imodes, b \in 0..n :
             /\ Fits(n, sz)
             /\ \/ l_Fwritei(mode, sz, n, b)
                \/ \E i, j \in Positions : l_Fwritet(mode, sz, n, i, j, b)
  BY DEF Writes
<1>2. n \in Nat /\ n <= MaxCount /\ Positions \subseteq Int
  BY CountsAreWords DEF Counts, Positions
<1>3. WriteOK(mode) = Writable(mode) /\ Writable(mode) \in BOOLEAN
  BY ModesChecked
<1>4. 1 \in Imodes /\ \A x \in Nat : x % 1 = 0
  BY DEF Imodes
<1>5. ASSUME NEW sz \in Imodes, NEW k \in Nat, k <= n
      PROVE  /\ k * sz \in Nat /\ (k * sz) % sz = 0 /\ 0 % sz = 0
             /\ NvalToSize(sz, k) = k * sz
  <2>1. k <= MaxCount
    BY <1>2, <1>5, CountsAreWords
  <2>2. QED
    BY <2>1, CountBytes
<1>6. ASSUME NEW i \in Positions, NEW j \in Positions, l_Fwrites(mode, n, i, j)
       PROVE  IInv'
  <2> DEFINE asked == AskedPart(mode, 1, i, j, n)
             ok == WriteOK(mode) /\ StringRangeOK(i, j, n)
  <2>1. i \in Int /\ j \in Int
    BY <1>2
  <2>2. /\ asked \in [legal : BOOLEAN, first : Nat, bytes : Nat]
        /\ ok <=> asked.legal
    BY <1>2, <1>3, <1>4, <2>1, SameRanges, PartAsked
  <2>3. ASSUME ok
        PROVE  /\ asked.first = ZeroBased(i, n)
               /\ asked.bytes = OneBased(j, n) - ZeroBased(i, n)
               /\ Whole("writes", 1, asked)
    <3>1. /\ asked.first = (OneBased(i, n) - 1) * 1
          /\ asked.bytes = (OneBased(j, n) - OneBased(i, n) + 1) * 1
      BY <1>2, <1>4, <2>1, <2>3, SameRanges, PartAsked
    <3>2. /\ ZeroBased(i, n) = OneBased(i, n) - 1
          /\ OneBased(i, n) \in Int /\ OneBased(j, n) \in Int
      BY <1>2, <2>1, ZeroIsOneLess
    <3>3. asked.first % 1 = 0 /\ asked.bytes % 1 = 0
      BY <1>4, <2>2
    <3> HIDE DEF asked
    <3>4. QED
      BY OpsOf, <3>1, <3>2, <3>3 DEF Whole
  <2>4. Call(ok, "writes", 1, asked, 0, ZeroBased(i, n), OneBased(j, n) - ZeroBased(i, n))
    BY <1>6 DEF l_Fwrites
  <2>5. ok \in BOOLEAN
    OBVIOUS
  <2> HIDE DEF ok, asked
  <2>6. QED
    BY <1>4, OpsOf, <2>2, <2>3, <2>4, <2>5, CallBegins
<1>7. ASSUME NEW sz \in Imodes, NEW b \in 0..n, l_Fwritei(mode, sz, n, b)
       PROVE  IInv'
  <2> DEFINE asked == Asked(Writable(mode), 0, n * sz)
  <2>1. Call(Writable(mode), "writei", sz, asked, b, 0, n * sz)
    BY <1>3, <1>7 DEF l_Fwritei
  <2>2. /\ asked \in [legal : BOOLEAN, first : Nat, bytes : Nat]
        /\ asked.legal = Writable(mode) /\ asked.first = 0 /\ asked.bytes = n * sz
    BY <1>2, <1>3, AskedFields, <1>5
  <2> HIDE DEF asked
  <2>3. Whole("writei", sz, asked) /\ b \in Nat
    BY <1>2, OpsOf, <1>5, <2>2 DEF Whole
  <2>4. QED
    BY <1>3, OpsOf, <2>1, <2>2, <2>3, CallBegins
<1>8. ASSUME NEW sz \in Imodes, NEW b \in 0..n, NEW i \in Positions, NEW j \in Positions,
              l_Fwritet(mode, sz, n, i, j, b)
       PROVE  IInv'
  <2> DEFINE asked == AskedPart(mode, sz, i, j, n)
             ok == WriteOK(mode) /\ TableRangeOK(i, j, n)
             k == OneBased(j, n) - OneBased(i, n) + 1
  <2>1. i \in Int /\ j \in Int /\ b \in Nat
    BY <1>2
  <2>2. /\ asked \in [legal : BOOLEAN, first : Nat, bytes : Nat]
        /\ ok <=> asked.legal
    BY <1>2, <1>3, <2>1, PartAsked
  <2>3. ASSUME ok
        PROVE  /\ asked.first = (OneBased(i, n) - 1) * sz
               /\ asked.bytes = NvalToSize(sz, k)
               /\ Whole("writet", sz, asked)
    <3>1. /\ asked.first = (OneBased(i, n) - 1) * sz /\ asked.bytes = k * sz
          /\ OneBased(i, n) - 1 \in Nat /\ k \in 1..n
      BY <1>2, <2>1, <2>3, PartAsked
    <3>2. asked.first % sz = 0
      BY <3>1, WholeProducts
    <3> HIDE DEF asked, k
    <3>3. k \in Nat /\ k <= n
      BY <1>2, <3>1
    <3>4. asked.bytes % sz = 0 /\ asked.bytes = NvalToSize(sz, k)
      BY <1>5, <3>1, <3>3
    <3>5. QED
      BY OpsOf, <3>1, <3>2, <3>4 DEF Whole
  <2>4. Call(ok, "writet", sz, asked, b, (OneBased(i, n) - 1) * sz, NvalToSize(sz, k))
    BY <1>8 DEF l_Fwritet
  <2>5. ok \in BOOLEAN
    OBVIOUS
  <2> HIDE DEF ok, asked, k
  <2>6. QED
    BY OpsOf, <2>1, <2>2, <2>3, <2>4, <2>5, CallBegins
<1>9. QED
  BY <1>1, <1>6, <1>7, <1>8

\* Every call begins well.
LEMMA BeginInv ==
  ASSUME BytesFit, IInv, Begin
  PROVE  IInv'
  BY ReadsInv, WritesInv, MemoryIOInv DEF Begin
-------------------------------------------------------------------------------
(* The loops.                                                              *)

\* The longest block is made of whole values.
LEMMA BlockSizeWhole ==
  ASSUME TypeInv, AsAsked, pc \notin {"idle", "rejected"}
  PROVE  BlockSize \in Nat \ {0} /\ BlockSize % size = 0 /\ (op \in ValueOps => BlockSize = size)
<1>1. CASE op \in ByteOps
  <2>1. size = 1 /\ op \notin ValueOps
    BY <1>1 DEF AsAsked, ByteOps, ValueOps
  <2>2. BlockSize = LargeBlock
    BY <1>1 DEF BlockSize, ByteOps, TableOps, ValueOps
  <2>3. QED
    BY <2>1, <2>2, BlocksHoldValues
<1>2. CASE op \in TableOps
  <2>1. BlockSize = SmallBlock /\ op \notin ValueOps
    BY <1>2 DEF BlockSize, ByteOps, TableOps, ValueOps
  <2>2. SmallBlock % 1 = 0 /\ SmallBlock % 2 = 0 /\ SmallBlock % 4 = 0
    BY BlocksHoldValues
  <2>3. QED
    BY <2>1, <2>2, BlocksHoldValues DEF TypeInv, Imodes
<1>3. CASE op \in ValueOps
  <2>1. BlockSize = size
    BY <1>3 DEF BlockSize, ByteOps, TableOps, ValueOps
  <2>2. QED
    BY <2>1 DEF TypeInv, Imodes
<1>4. QED
  BY <1>1, <1>2, <1>3 DEF AsAsked, Ops

\* What remains in the loop, and what the device has moved but for a write of
\* values, is whole values.
LEMMA LoopsWhole ==
  ASSUME IInv, pc \in {"loop", "ask"}
  PROVE  remaining % size = 0 /\ (op # "writei" => moved % size = 0)
<1>1. /\ want.first \in Nat /\ want.bytes \in Nat /\ from \in Nat /\ remaining \in Nat
      /\ size \in Imodes /\ moved \in Nat
  BY DEF IInv, TypeInv
<1>2. /\ want.first % size = 0 /\ want.bytes % size = 0 /\ from % size = 0
      /\ from + remaining = want.first + want.bytes
      /\ op # "writei" => from = want.first + moved
  BY DEF IInv, AsAsked, Loops
<1>3. (want.first + want.bytes) % size = 0
  BY <1>1, <1>2, WholeSums
<1>4. (from + remaining) % size = remaining % size
  BY <1>1, <1>2, WholeSums
<1>5. (want.first + moved) % size = moved % size
  BY <1>1, <1>2, WholeSums
<1>6. QED
  BY <1>2, <1>3, <1>4, <1>5

\* The next block.
LEMMA NextBlockInv ==
  ASSUME IInv, NextBlock
  PROVE  IInv'
<1> DEFINE amt == IF remaining > BlockSize THEN BlockSize ELSE remaining
<1>1. /\ pc = "loop" /\ remaining # 0 /\ amount' = amt
      /\ pc' = IF BlockIsBad(amt) THEN "raised" ELSE "ask"
      /\ UNCHANGED <<op, size, want, bad, count, remaining, from, result, moved, stored, ret>>
  BY DEF NextBlock
<1>2. TypeInv /\ AsAsked /\ Loops /\ Stores /\ BeforeBad /\ BadIsNeverWritten
  BY DEF IInv
<1>3. /\ BlockSize \in Nat \ {0} /\ BlockSize % size = 0
      /\ op \in ValueOps => BlockSize = size
  BY <1>1, <1>2, BlockSizeWhole
<1>4. /\ size \in Imodes /\ size \in Nat \ {0} /\ remaining \in Nat /\ from \in Nat /\ bad \in Nat
      /\ want.first \in Nat /\ bad * size \in Nat /\ (bad - 1) * size \in Int
  <2>1. /\ size \in Imodes /\ remaining \in Nat /\ from \in Nat /\ bad \in Nat
        /\ want.first \in Nat
    BY <1>2 DEF TypeInv
  <2>2. size \in Nat \ {0}
    BY <2>1 DEF Imodes
  <2>3. QED
    BY <2>1, <2>2
<1>5. remaining % size = 0
  BY <1>1, LoopsWhole
<1>6. size <= remaining
  <2>1. CASE size = 1
    BY <1>1, <1>4, <2>1
  <2>2. CASE size = 2
    BY <1>1, <1>4, <1>5, <2>2
  <2>3. CASE size = 4
    BY <1>1, <1>4, <1>5, <2>3
  <2>4. QED
    BY <1>4, <2>1, <2>2, <2>3 DEF Imodes
<1>7. /\ amt \in 1..remaining /\ amt <= BlockSize /\ amt % size = 0
      /\ op \in ValueOps => amt = size
  BY <1>1, <1>3, <1>4, <1>5, <1>6
<1>8. ASSUME ~BlockIsBad(amt), op \in {"writet", "writei"}, bad * size > want.first
      PROVE  from + amt <= (bad - 1) * size
  <2>1. from <= (bad - 1) * size
    BY <1>1, <1>2, <1>8 DEF BeforeBad
  <2>2. bad # 0
    BY <1>4, <1>8 DEF Imodes
  <2>3. (bad - 1) * size < bad * size
    BY <1>4, <2>2 DEF Imodes
  <2>4. ~((bad - 1) * size < from + amt)
    BY <1>4, <1>8, <2>1, <2>2, <2>3 DEF BlockIsBad
  <2>5. QED
    BY <1>4, <1>7, <2>4
<1>9. BlockSize' = BlockSize
  BY <1>1 DEF BlockSize
<1> HIDE DEF amt
<1>10. amt \in Nat
  BY <1>4, <1>7
<1>11. TypeInv'
  BY <1>1, <1>2, <1>10 DEF TypeInv
<1>12. (NotBegun /\ AsAsked /\ Loops /\ Ends)'
  BY <1>1, <1>2 DEF NotBegun, AsAsked, Loops, Ends
<1>13. Stores'
  BY <1>1, <1>2 DEF Stores
<1>14. Asks'
  BY <1>1, <1>7, <1>9 DEF Asks
<1>15. BeforeBad'
  BY <1>1, <1>8 DEF BeforeBad
<1>16. (BadIsNeverWritten /\ ReturnTellsMoved)'
  BY <1>1, <1>2 DEF BadIsNeverWritten, ReturnTellsMoved
<1>17. QED
  BY <1>11, <1>12, <1>13, <1>14, <1>15, <1>16 DEF IInv

\* What the answers have in common: r of the bytes asked for are moved, and
\* they are neither beyond what was asked for nor, in a write, bad.
LEMMA Answers ==
  ASSUME IInv, NEW r \in {Error} \cup 0..amount, Answered(r)
  PROVE  /\ pc = "ask" /\ result' = r /\ r \in Int /\ r <= amount
         /\ UNCHANGED <<op, size, want, bad, count, amount, ret>>
         /\ moved' \in Nat /\ moved' <= want.bytes
         /\ moved' = IF r > 0 THEN moved + r ELSE moved
         /\ BadIsNeverWritten'
<1>1. /\ pc = "ask" /\ result' = r
      /\ UNCHANGED <<op, size, want, bad, count, amount, ret>>
      /\ moved' = moved + (IF r > 0 THEN r ELSE 0)
  BY DEF Answered
<1>2. /\ TypeInv /\ AsAsked /\ Loops /\ Asks /\ BeforeBad /\ BadIsNeverWritten
  BY DEF IInv
<1>3. /\ amount \in Nat /\ moved \in Nat /\ from \in Nat /\ remaining \in Nat
      /\ bad \in Nat /\ want.first \in Nat /\ want.bytes \in Nat /\ size \in Imodes
  BY <1>2 DEF TypeInv
<1>4. r \in Int /\ r <= amount
  BY <1>3 DEF Error
<1>5. /\ from + remaining = want.first + want.bytes /\ amount <= remaining
      /\ want.first + moved <= from
  BY <1>1, <1>2, <1>3 DEF Loops, Asks
<1>6. /\ moved' \in Nat /\ moved' = IF r > 0 THEN moved + r ELSE moved
      /\ want.first + moved' <= from + amount /\ moved' <= want.bytes
  BY <1>1, <1>3, <1>4, <1>5
<1>7. ASSUME op \in {"writet", "writei"}, bad * size > want.first
      PROVE  want.first + moved' <= (bad - 1) * size
  <2>1. from + amount <= (bad - 1) * size
    BY <1>1, <1>2, <1>7 DEF BeforeBad
  <2>2. (bad - 1) * size \in Int
    BY <1>3 DEF Imodes
  <2>3. QED
    BY <1>3, <1>6, <2>1, <2>2
<1>8. BadIsNeverWritten'
  BY <1>1, <1>7 DEF BadIsNeverWritten
<1>9. QED
  BY <1>1, <1>4, <1>6, <1>8

\* An answer about bytes.
LEMMA ByteAnswerInv ==
  ASSUME IInv, NEW r \in {Error} \cup 0..amount, ByteAnswer(r)
  PROVE  IInv'
<1>1. /\ op \in ByteOps /\ Answered(r)
      /\ IF r > 0
         THEN /\ remaining' = remaining - r /\ from' = from + r
              /\ stored' = stored + (IF op \in ReadOps THEN r ELSE 0)
              /\ pc' = "loop"
         ELSE pc' = "end" /\ UNCHANGED <<remaining, from, stored>>
  BY DEF ByteAnswer, Kept
<1>2. /\ pc = "ask" /\ result' = r /\ r \in Int /\ r <= amount
      /\ UNCHANGED <<op, size, want, bad, count, amount, ret>>
      /\ moved' \in Nat /\ moved' <= want.bytes
      /\ moved' = IF r > 0 THEN moved + r ELSE moved
      /\ BadIsNeverWritten'
  BY <1>1, Answers
<1>3. TypeInv /\ AsAsked /\ Loops /\ Asks /\ Stores
  BY DEF IInv
<1>4. /\ amount \in Nat /\ moved \in Nat /\ from \in Nat /\ remaining \in Nat
      /\ stored \in Nat /\ want.first \in Nat /\ want.bytes \in Nat
  BY <1>3 DEF TypeInv
<1>5. /\ size = 1 /\ op # "writei" /\ op \notin TableOps \cup ValueOps \cup {"readi", "writet"}
      /\ amount <= remaining /\ from = want.first + moved
      /\ from + remaining = want.first + want.bytes
  BY <1>1, <1>2, <1>3, <1>4 DEF AsAsked, Loops, Asks, ByteOps, TableOps, ValueOps
<1>6. \A x \in Nat : x % 1 = 0
  OBVIOUS
<1>7. TypeInv'
  <2>1. CASE r > 0
    <3>1. /\ remaining' \in Nat /\ from' \in Nat /\ stored' \in Nat /\ pc' = "loop"
      BY <1>1, <1>2, <1>4, <1>5, <2>1
    <3>2. QED
      BY <1>2, <1>3, <3>1 DEF TypeInv
  <2>2. CASE ~(r > 0)
    BY <1>1, <1>2, <1>3, <2>2 DEF TypeInv
  <2>3. QED
    BY <2>1, <2>2
<1>8. (NotBegun /\ AsAsked /\ Asks)'
  BY <1>1, <1>2, <1>3 DEF NotBegun, AsAsked, Asks
<1>9. Loops'
  BY <1>1, <1>2, <1>4, <1>5, <1>6 DEF Loops
<1>10. Ends'
  BY <1>1, <1>2, <1>4, <1>5 DEF Ends
<1>11. Stores'
  <2>1. op \in ReadOps => stored = moved
    BY <1>2, <1>3, <1>4, <1>5, <1>6 DEF Stores
  <2>2. op \in ReadOps => stored' = moved'
    BY <1>1, <1>2, <1>4, <2>1
  <2>3. QED
    BY <1>2, <1>5, <1>6, <2>2 DEF Stores
<1>12. (BeforeBad /\ ReturnTellsMoved)'
  BY <1>1, <1>2, <1>5 DEF BeforeBad, ReturnTellsMoved
<1>13. QED
  BY <1>2, <1>7, <1>8, <1>9, <1>10, <1>11, <1>12 DEF IInv

\* An answer about a block of a table.
LEMMA TableAnswerInv ==
  ASSUME IInv, NEW r \in {Error} \cup 0..amount, TableAnswer(r)
  PROVE  IInv'
<1> DEFINE whole == SizeToNval(size, r) * size
<1>1. /\ op \in TableOps /\ Answered(r)
      /\ remaining' = remaining - (IF r > 0 THEN r ELSE 0)
      /\ IF r > 0 /\ (op = "readt" \/ r = amount)
         THEN /\ from' = from + whole
              /\ stored' = stored + (IF op \in ReadOps THEN whole ELSE 0)
         ELSE UNCHANGED <<from, stored>>
      /\ pc' = IF r = amount THEN "loop" ELSE "end"
  BY DEF TableAnswer, Kept
<1>2. /\ pc = "ask" /\ result' = r /\ r \in Int /\ r <= amount
      /\ UNCHANGED <<op, size, want, bad, count, amount, ret>>
      /\ moved' \in Nat /\ moved' <= want.bytes
      /\ moved' = IF r > 0 THEN moved + r ELSE moved
      /\ BadIsNeverWritten'
  BY <1>1, Answers
<1>3. TypeInv /\ AsAsked /\ Loops /\ Asks /\ Stores /\ BeforeBad
  BY DEF IInv
<1>4. /\ amount \in Nat /\ moved \in Nat /\ from \in Nat /\ remaining \in Nat
      /\ stored \in Nat /\ want.first \in Nat /\ want.bytes \in Nat /\ size \in Imodes
  BY <1>3 DEF TypeInv
<1>5. /\ op \notin ByteOps \cup ValueOps \cup {"readi", "writei"}
      /\ amount \in 1..remaining /\ amount % size = 0 /\ from = want.first + moved
      /\ from + remaining = want.first + want.bytes /\ from % size = 0
  BY <1>1, <1>2, <1>3 DEF Loops, Asks, ByteOps, TableOps, ValueOps
<1>6. moved % size = 0
  BY <1>2, <1>5, LoopsWhole
<1>7. r > 0 => whole \in Nat /\ whole = r - (r % size) /\ r % size \in Nat /\ r % size <= r
  <2>1. SUFFICES ASSUME r > 0 PROVE whole \in Nat /\ whole = r - (r % size) /\ r % size \in Nat /\ r % size <= r
    OBVIOUS
  <2>2. r \in Nat
    BY <1>2, <2>1
  <2>3. whole = r - (r % size) /\ r % size \in 0..(size - 1) /\ r % size <= r
    BY <1>4, <2>2, WholeValues
  <2> HIDE DEF whole
  <2>4. QED
    BY <1>4, <2>2, <2>3 DEF Imodes
<1>8. r = amount => r > 0 /\ whole = amount /\ (from + amount) % size = 0
  <2>1. (from + amount) % size = 0
    BY <1>4, <1>5, WholeSums
  <2> HIDE DEF whole
  <2>2. QED
    BY <1>2, <1>4, <1>5, <1>7, <2>1
<1> HIDE DEF whole
<1>9. TypeInv'
  <2>1. remaining' \in Nat
    BY <1>1, <1>2, <1>4, <1>5
  <2>2. from' \in Nat /\ stored' \in Nat
    BY <1>1, <1>4, <1>7
  <2>3. pc' \in {"loop", "end"}
    BY <1>1
  <2>4. QED
    BY <1>2, <1>3, <2>1, <2>2, <2>3 DEF TypeInv
<1>10. (NotBegun /\ AsAsked /\ Asks)'
  BY <1>1, <1>2, <1>3 DEF NotBegun, AsAsked, Asks
<1>11. Loops'
  BY <1>1, <1>2, <1>4, <1>5, <1>8 DEF Loops
<1>12. Ends'
  <2>1. pc' = "end" => r < amount /\ remaining' = want.bytes - moved'
    BY <1>1, <1>2, <1>4, <1>5
  <2>2. QED
    BY <1>2, <1>5, <2>1 DEF Ends
<1>13. Stores'
  <2>1. SUFFICES ASSUME op \in ReadOps PROVE stored' = moved' - (moved' % size)
    BY <1>2 DEF Stores
  <2>2. op = "readt" /\ stored = moved
    BY <1>1, <1>2, <1>3, <1>4, <1>6, <2>1 DEF Stores, ReadOps, TableOps
  <2>3. CASE r > 0
    <3>1. stored' = stored + whole /\ moved' = moved + r
      BY <1>1, <1>2, <2>1, <2>2, <2>3
    <3>2. (moved + r) % size = r % size
      BY <1>2, <1>4, <1>6, <2>3, WholeSums
    <3>3. QED
      BY <1>2, <1>4, <1>7, <2>2, <2>3, <3>1, <3>2
  <2>4. CASE ~(r > 0)
    BY <1>1, <1>2, <1>4, <1>6, <2>2, <2>4
  <2>5. QED
    BY <2>3, <2>4
<1>14. (BeforeBad /\ ReturnTellsMoved)'
  <2>1. pc' = "loop" => from' = from + amount
    BY <1>1, <1>2, <1>8
  <2>2. pc' \in {"loop", "end"}
    BY <1>1
  <2>3. QED
    BY <1>2, <1>3, <2>1, <2>2 DEF BeforeBad, ReturnTellsMoved
<1>15. QED
  BY <1>2, <1>9, <1>10, <1>11, <1>12, <1>13, <1>14 DEF IInv

\* An answer about one value.
LEMMA ValueAnswerInv ==
  ASSUME IInv, NEW r \in {Error} \cup 0..amount, ValueAnswer(r)
  PROVE  IInv'
<1>1. /\ op \in ValueOps /\ Answered(r)
      /\ IF r > 0 /\ (op = "writei" \/ r = size)
         THEN /\ remaining' = remaining - size /\ from' = from + size
              /\ stored' = stored + (IF op \in ReadOps THEN size ELSE 0)
              /\ pc' = "loop"
         ELSE pc' = "end" /\ UNCHANGED <<remaining, from, stored>>
  BY DEF ValueAnswer, Kept
<1>2. /\ pc = "ask" /\ result' = r /\ r \in Int /\ r <= amount
      /\ UNCHANGED <<op, size, want, bad, count, amount, ret>>
      /\ moved' \in Nat /\ moved' <= want.bytes
      /\ moved' = IF r > 0 THEN moved + r ELSE moved
      /\ BadIsNeverWritten'
  BY <1>1, Answers
<1>3. TypeInv /\ AsAsked /\ Loops /\ Asks /\ Stores /\ BeforeBad
  BY DEF IInv
<1>4. /\ amount \in Nat /\ moved \in Nat /\ from \in Nat /\ remaining \in Nat
      /\ stored \in Nat /\ want.first \in Nat /\ want.bytes \in Nat /\ size \in Imodes
  BY <1>3 DEF TypeInv
<1>5. /\ op \in {"readi", "writei"} /\ op \notin ByteOps \cup TableOps \cup {"writet"}
      /\ amount \in 1..remaining /\ amount = size /\ amount % size = 0
      /\ from + remaining = want.first + want.bytes /\ from % size = 0
      /\ want.first + moved <= from
      /\ op = "readi" => from = want.first + moved
  BY <1>1, <1>2, <1>3, <1>4 DEF Loops, Asks, ByteOps, TableOps, ValueOps
<1>6. (from + size) % size = 0
  BY <1>4, <1>5, WholeSums
<1>7. TypeInv'
  <2>1. remaining' \in Nat /\ from' \in Nat /\ stored' \in Nat /\ pc' \in {"loop", "end"}
    BY <1>1, <1>4, <1>5
  <2>2. QED
    BY <1>2, <1>3, <2>1 DEF TypeInv
<1>8. (NotBegun /\ AsAsked /\ Asks)'
  BY <1>1, <1>2, <1>3 DEF NotBegun, AsAsked, Asks
<1>9. Loops'
  <2>1. SUFFICES ASSUME pc' = "loop" PROVE Loops'
    BY <1>1 DEF Loops
  <2>2. /\ r > 0 /\ remaining' = remaining - size /\ from' = from + size
        /\ op = "writei" \/ r = size
    BY <1>1, <2>1
  <2>3. from' + remaining' = want.first + want.bytes /\ from' % size = 0
    BY <1>4, <1>5, <1>6, <2>2
  <2>4. IF op = "writei"
        THEN want.first + moved' <= from' /\ (moved' = 0 => from' = want.first)
        ELSE from' = want.first + moved'
    BY <1>2, <1>4, <1>5, <2>2
  <2>5. QED
    BY <1>2, <2>2, <2>3, <2>4 DEF Loops
<1>10. Ends'
  <2>1. pc' = "end" /\ op = "readi" => r < amount
    BY <1>1, <1>2, <1>4, <1>5
  <2>2. QED
    BY <1>1, <1>2, <1>5, <2>1 DEF Ends
<1>11. Stores'
  <2>1. SUFFICES ASSUME op \in ReadOps PROVE stored' = moved' - (moved' % size)
    BY <1>2 DEF Stores
  <2>2. op = "readi"
    BY <1>5, <2>1 DEF ReadOps
  <2>3. moved % size = 0 /\ stored = moved
    <3>1. moved % size = 0
      BY <1>2, <2>2, LoopsWhole
    <3>2. QED
      BY <1>2, <1>3, <1>4, <2>1, <3>1 DEF Stores
  <2>4. CASE r > 0
    <3>1. moved' = moved + r /\ (moved + r) % size = r % size
      BY <1>2, <1>4, <2>3, <2>4, WholeSums
    <3>2. CASE r = size
      BY <1>1, <1>4, <1>5, <2>1, <2>2, <2>3, <2>4, <3>1, <3>2
    <3>3. CASE r # size
      <4>1. stored' = stored /\ r \in 1..(size - 1)
        BY <1>1, <1>2, <1>5, <2>2, <2>4, <3>3
      <4>2. r % size = r
        BY <1>4, <4>1 DEF Imodes
      <4>3. QED
        BY <1>4, <2>3, <3>1, <4>1, <4>2
    <3>4. QED
      BY <3>2, <3>3
  <2>5. CASE ~(r > 0)
    BY <1>1, <1>2, <1>4, <2>3, <2>5
  <2>6. QED
    BY <2>4, <2>5
<1>12. (BeforeBad /\ ReturnTellsMoved)'
  <2>1. pc' = "loop" => from' = from + amount
    BY <1>1, <1>5
  <2>2. pc' \in {"loop", "end"}
    BY <1>1
  <2>3. QED
    BY <1>2, <1>3, <2>1, <2>2 DEF BeforeBad, ReturnTellsMoved
<1>13. QED
  BY <1>2, <1>7, <1>8, <1>9, <1>10, <1>11, <1>12 DEF IInv

\* The end of the call.
LEMMA ReturnInv ==
  ASSUME IInv, Return
  PROVE  IInv'
<1>1. /\ pc = "end" \/ (pc = "loop" /\ remaining = 0)
      /\ ret' = IF result < 0 THEN result
                ELSE IF op \in ValueOps THEN moved
                ELSE count - remaining
      /\ pc' = "done"
      /\ UNCHANGED <<op, size, want, bad, count, remaining, from, amount, result, moved, stored>>
  BY DEF Return
<1>2. /\ TypeInv /\ AsAsked /\ Loops /\ Ends /\ Stores /\ BadIsNeverWritten
  BY DEF IInv
<1>3. /\ amount \in Nat /\ moved \in Nat /\ from \in Nat /\ remaining \in Nat /\ count \in Nat
      /\ want.first \in Nat /\ want.bytes \in Nat /\ result \in Int
  BY <1>2 DEF TypeInv
<1>4. /\ op \in Ops /\ count = want.bytes /\ moved <= want.bytes
  BY <1>1, <1>2 DEF AsAsked
<1>5. pc = "loop" /\ op # "writei" => moved = want.bytes
  BY <1>1, <1>2, <1>3 DEF Loops
<1>6. "writei" \in ValueOps
  BY DEF ValueOps
<1>7. op \notin ValueOps => count - remaining = moved
  BY <1>1, <1>2, <1>3, <1>4, <1>5, <1>6 DEF Ends
<1>8. ret' = IF result < 0 THEN result ELSE moved
  BY <1>1, <1>7
<1>9. result >= 0 /\ moved < want.bytes =>
        IF op \in ByteOps THEN result = 0 ELSE op = "writei" \/ result < amount
  <2>1. SUFFICES ASSUME result >= 0, moved < want.bytes
                 PROVE  IF op \in ByteOps THEN result = 0
                        ELSE op = "writei" \/ result < amount
    OBVIOUS
  <2>2. CASE op = "writei"
    BY <2>2 DEF ByteOps
  <2>3. CASE op # "writei"
    <3>1. pc = "end"
      BY <1>1, <1>3, <1>5, <2>1, <2>3
    <3>2. op \in ByteOps \/ op \in TableOps \cup {"readi"}
      BY <1>4, <2>3 DEF Ops, ValueOps
    <3>3. QED
      BY <1>2, <1>3, <2>1, <3>1, <3>2 DEF Ends
  <2>4. QED
    BY <2>2, <2>3
<1>10. ReturnTellsMoved'
  BY <1>1, <1>3, <1>4, <1>8, <1>9 DEF ReturnTellsMoved
<1>11. TypeInv'
  BY <1>1, <1>2, <1>3, <1>8 DEF TypeInv
<1>12. (NotBegun /\ AsAsked /\ Loops /\ Asks /\ Ends)'
  BY <1>1, <1>2 DEF NotBegun, AsAsked, Loops, Asks, Ends
<1>13. (Stores /\ BeforeBad /\ BadIsNeverWritten)'
  BY <1>1, <1>2 DEF Stores, BeforeBad, BadIsNeverWritten
<1>14. QED
  BY <1>10, <1>11, <1>12, <1>13 DEF IInv
-------------------------------------------------------------------------------
(* The theorems.                                                           *)

\* Every step keeps the invariant.
LEMMA StepInv ==
  ASSUME BytesFit, IInv, [Next]_vars
  PROVE  IInv'
<1>1. CASE Begin
  BY <1>1, BeginInv
<1>2. CASE NextBlock
  BY <1>2, NextBlockInv
<1>3. CASE Answer
  BY <1>3, ByteAnswerInv, TableAnswerInv, ValueAnswerInv DEF Answer
<1>4. CASE Return
  BY <1>4, ReturnInv
<1>5. CASE UNCHANGED vars
  <2>1. UNCHANGED <<op, size, want, bad, count, remaining, from, amount, result, moved,
                    stored, pc, ret>>
    BY <1>5 DEF vars
  <2>2. TypeInv' /\ NotBegun' /\ AsAsked'
    BY <2>1 DEF IInv, TypeInv, NotBegun, AsAsked
  <2>3. Loops' /\ Ends' /\ Stores'
    BY <2>1 DEF IInv, Loops, Ends, Stores
  <2>4. Asks'
    BY <2>1 DEF IInv, Asks, BlockSize
  <2>5. (BeforeBad /\ BadIsNeverWritten /\ ReturnTellsMoved)'
    BY <2>1 DEF IInv, BeforeBad, BadIsNeverWritten, ReturnTellsMoved
  <2>6. QED
    BY <2>2, <2>3, <2>4, <2>5 DEF IInv
<1>6. QED
  BY <1>1, <1>2, <1>3, <1>4, <1>5 DEF Next

LEMMA SpecInv ==
  ASSUME BytesFit
  PROVE  Spec => []IInv
  BY InitInv, StepInv, PTL DEF Spec

\* The argument checks accept what the documentation allows and nothing else,
\* negative numbers of values and files of every mode included, and the range
\* computed is the one asked for, for strings, tables and numbers of any size.
THEOREM RangeAlwaysAsked ==
  ASSUME BytesFit
  PROVE  Spec => []RangeIsAsked
<1>1. IInv => RangeIsAsked
  <2>1. SUFFICES ASSUME IInv PROVE RangeIsAsked
    OBVIOUS
  <2>2. pc = "rejected" => ~want.legal
    BY <2>1 DEF IInv, NotBegun
  <2>3. ASSUME pc = "loop", moved = 0
        PROVE  want.legal /\ from = want.first /\ count = want.bytes /\ remaining = count
    <3>1. want.first \in Nat /\ want.bytes \in Nat /\ remaining \in Nat /\ from \in Nat
      BY <2>1 DEF IInv, TypeInv
    <3>2. want.legal /\ count = want.bytes
      BY <2>1, <2>3 DEF IInv, AsAsked
    <3>3. from = want.first /\ from + remaining = want.first + want.bytes
      BY <2>1, <2>3, <3>1 DEF IInv, Loops
    <3>4. QED
      BY <3>1, <3>2, <3>3
  <2>4. QED
    BY <2>2, <2>3 DEF RangeIsAsked
<1>2. QED
  BY <1>1, SpecInv, PTL

\* Each block starts where the device left off, after any mix of short blocks.
THEOREM BlocksAlwaysContiguous ==
  ASSUME BytesFit
  PROVE  Spec => []BlocksAreContiguous
<1>1. IInv => BlocksAreContiguous
  <2>1. SUFFICES ASSUME IInv, pc = "ask"
                 PROVE  IF op = "writei" THEN from >= moved /\ from % size = 0
                        ELSE from = want.first + moved
    BY DEF BlocksAreContiguous
  <2>2. want.first \in Nat /\ moved \in Nat /\ from \in Nat
    BY <2>1 DEF IInv, TypeInv
  <2>3. QED
    BY <2>1, <2>2 DEF IInv, Loops
<1>2. QED
  BY <1>1, SpecInv, PTL

\* A block is not empty, and fits its buffer and the data it belongs to.
THEOREM AmountAlwaysFits ==
  ASSUME BytesFit
  PROVE  Spec => []AmountFitsBlock
<1>1. IInv => AmountFitsBlock
  <2>1. SUFFICES ASSUME IInv, pc = "ask"
                 PROVE  amount \in 1..BlockSize /\ from + amount <= want.first + want.bytes
    BY DEF AmountFitsBlock
  <2>2. /\ want.first \in Nat /\ want.bytes \in Nat /\ remaining \in Nat /\ from \in Nat
        /\ amount \in Nat
    BY <2>1 DEF IInv, TypeInv
  <2>3. BlockSize \in Nat
    BY <2>1, BlockSizeWhole DEF IInv
  <2>4. amount \in 1..remaining /\ amount <= BlockSize
    BY <2>1 DEF IInv, Asks
  <2>5. from + remaining = want.first + want.bytes
    BY <2>1 DEF IInv, Loops
  <2>6. QED
    BY <2>2, <2>3, <2>4, <2>5
<1>2. QED
  BY <1>1, SpecInv, PTL

\* The number returned is the number of bytes the device moved, whatever it
\* answered before.
THEOREM ReturnAlwaysTellsMoved ==
  ASSUME BytesFit
  PROVE  Spec => []ReturnTellsMoved
<1>1. IInv => ReturnTellsMoved
  BY DEF IInv
<1>2. QED
  BY <1>1, SpecInv, PTL

\* A script receives every whole value that was read and no part of another.
THEOREM WholeValuesAlwaysStored ==
  ASSUME BytesFit
  PROVE  Spec => []WholeValuesAreStored
<1>1. IInv => WholeValuesAreStored
  BY DEF IInv, Stores, WholeValuesAreStored
<1>2. QED
  BY <1>1, SpecInv, PTL

\* No value out of the range of the imode reaches the device, nor any after it.
THEOREM BadNeverWritten ==
  ASSUME BytesFit
  PROVE  Spec => []BadIsNeverWritten
<1>1. IInv => BadIsNeverWritten
  BY DEF IInv
<1>2. QED
  BY <1>1, SpecInv, PTL
-------------------------------------------------------------------------------
(* The refinement.                                                         *)

\* Every step of a call is a step of the promise, or is not the script's
\* business.
LEMMA StepKeepsPromise ==
  ASSUME IInv, IInv', [Next]_vars
  PROVE  [Promise!Next]_(Promise!vars)
<1> DEFINE phase == CASE pc = "idle" -> "idle"
                      [] pc \in {"loop", "ask", "end"} -> "moving"
                      [] pc \in {"raised", "rejected"} -> "raised"
                      [] pc = "done" -> IF ret < 0 THEN "failed" ELSE "returned"
           told == IF pc = "done" /\ ret >= 0 THEN ret ELSE 0
<1>1. /\ pc = "idle" => phase = "idle" /\ told = 0
      /\ pc \in {"loop", "ask", "end"} => phase = "moving" /\ told = 0
  OBVIOUS
<1>2. /\ pc' \in {"loop", "ask", "end"} => phase' = "moving" /\ told' = 0
      /\ pc' \in {"raised", "rejected"} => phase' = "raised" /\ told' = 0
      /\ pc' = "done" => /\ phase' = IF ret' < 0 THEN "failed" ELSE "returned"
                         /\ told' = IF ret' >= 0 THEN ret' ELSE 0
  OBVIOUS
<1>3. CASE Begin
  <2>1. /\ pc = "idle" /\ pc' \in {"loop", "rejected"} /\ moved' = moved
    BY <1>3 DEF Begin, Reads, Writes, l_Freads, MemoryIO, l_Fwrites, l_Fwritet, l_Freadt,
       l_Fwritei, l_Freadi, Call
  <2>2. want'.bytes \in Nat
    BY DEF IInv, TypeInv
  <2> HIDE DEF phase, told
  <2>3. /\ phase = "idle" /\ phase' \in {"moving", "raised"} /\ told' = told
    BY <1>1, <1>2, <2>1
  <2>4. Promise!Start
    BY <2>1, <2>2, <2>3 DEF Promise!Start, phase, told
  <2>5. QED
    BY <2>4 DEF Promise!Next
<1>4. CASE NextBlock
  <2>1. /\ pc = "loop" /\ pc' \in {"raised", "ask"}
        /\ UNCHANGED <<want, moved>>
    BY <1>4 DEF NextBlock
  <2> HIDE DEF phase, told
  <2>2. phase = "moving" /\ phase' \in {"moving", "raised"} /\ told' = told
    BY <1>1, <1>2, <2>1
  <2>3. CASE phase' = "moving"
    BY <2>1, <2>2, <2>3 DEF Promise!vars, phase, told
  <2>4. CASE phase' = "raised"
    BY <2>1, <2>2, <2>4 DEF Promise!Next, Promise!Fail, phase, told
  <2>5. QED
    BY <2>2, <2>3, <2>4
<1>5. CASE Answer
  <2>1. PICK r \in {Error} \cup 0..amount : ByteAnswer(r) \/ TableAnswer(r) \/ ValueAnswer(r)
    BY <1>5 DEF Answer
  <2>2. Answered(r) /\ pc' \in {"loop", "end"}
    BY <2>1 DEF ByteAnswer, TableAnswer, ValueAnswer
  <2>3. /\ pc = "ask" /\ want' = want /\ moved' <= want.bytes
        /\ r \in Int /\ moved' = IF r > 0 THEN moved + r ELSE moved
    BY <2>2, Answers
  <2>4. moved \in Nat
    BY DEF IInv, TypeInv
  <2> HIDE DEF phase, told
  <2>5. phase = "moving" /\ phase' = "moving" /\ told' = told
    BY <1>1, <1>2, <2>2, <2>3
  <2>6. CASE r > 0
    <3>1. moved' > moved
      BY <2>3, <2>4, <2>6
    <3>2. Promise!Move
      BY <2>3, <2>5, <3>1 DEF Promise!Move, phase, told
    <3>3. QED
      BY <3>2 DEF Promise!Next
  <2>7. CASE ~(r > 0)
    BY <2>3, <2>5, <2>7 DEF Promise!vars, phase, told
  <2>8. QED
    BY <2>6, <2>7
<1>6. CASE Return
  <2>1. /\ pc \in {"loop", "end"} /\ pc' = "done" /\ UNCHANGED <<want, moved>>
    BY <1>6 DEF Return
  <2>2. ret' \in Int
    BY DEF IInv, TypeInv
  <2>3. ret' >= 0 => ret' = moved
    BY <2>1, <2>2 DEF IInv, ReturnTellsMoved
  <2> HIDE DEF phase, told
  <2>4. phase = "moving" /\ told = 0
    BY <1>1, <2>1
  <2>5. CASE ret' < 0
    <3>1. phase' = "failed" /\ told' = told
      BY <1>2, <2>1, <2>2, <2>4, <2>5
    <3>2. QED
      BY <2>1, <2>4, <3>1 DEF Promise!Next, Promise!Fail, phase, told
  <2>6. CASE ~(ret' < 0)
    <3>1. phase' = "returned" /\ told' = moved
      BY <1>2, <2>1, <2>2, <2>3, <2>6
    <3>2. QED
      BY <2>1, <2>4, <3>1 DEF Promise!Next, Promise!Return, phase, told
  <2>7. QED
    BY <2>5, <2>6
<1>7. CASE UNCHANGED vars
  BY <1>7 DEF vars, Promise!vars
<1>8. QED
  BY <1>3, <1>4, <1>5, <1>6, <1>7 DEF Next

\* A transfer keeps the promise of Transfer: how many blocks it takes, where
\* they end and how a value is cut is not the script's business.
THEOREM TransferKeepsPromise ==
  ASSUME BytesFit
  PROVE  Spec => MovesAsPromised
<1>1. Init => Promise!Init
  BY DEF Init, NotAllowed, Asked, Promise!Init
<1>2. IInv /\ IInv' /\ [Next]_vars => [Promise!Next]_(Promise!vars)
  BY StepKeepsPromise
<1>3. QED
  BY <1>1, <1>2, SpecInv, PTL DEF Spec, MovesAsPromised, Promise!Spec
-------------------------------------------------------------------------------
(* What liveness rests on.                                                 *)

\* How far a call is from its end.
Left ==
  4 * remaining + (IF pc = "loop" THEN 3 ELSE IF pc = "ask" THEN 2
                   ELSE IF pc = "end" THEN 1 ELSE 0)

\* Every step of a call in progress brings it nearer to its end, whatever the
\* device answers.
TransferAdvances ==
  [][(pc \in {"loop", "ask", "end"}) => Left' \in 0..(Left - 1)]_vars

\* So no call goes on for ever, whatever was asked for and in whatever pieces
\* the device moves it: that every call returns rests on each of its steps being
\* taken, and on nothing else.
THEOREM TransferAlwaysAdvances ==
  ASSUME BytesFit
  PROVE  Spec => TransferAdvances
<1>1. IInv /\ IInv' /\ [Next]_vars =>
        [(pc \in {"loop", "ask", "end"}) => Left' \in 0..(Left - 1)]_vars
  <2> SUFFICES ASSUME IInv, IInv', Next, pc \in {"loop", "ask", "end"}
               PROVE  Left' \in 0..(Left - 1)
    OBVIOUS
  <2>1. PICK n \in Nat, m \in Nat : n = remaining /\ m = remaining'
    BY DEF IInv, TypeInv
  <2>2. CASE NextBlock
    <3>1. pc = "loop" /\ pc' \in {"ask", "raised"} /\ m = n
      BY <2>1, <2>2 DEF NextBlock
    <3>2. QED
      BY <2>1, <3>1 DEF Left
  <2>3. CASE Return
    <3>1. pc \in {"loop", "end"} /\ pc' = "done" /\ m = n
      BY <2>1, <2>3 DEF Return
    <3>2. QED
      BY <2>1, <3>1 DEF Left
  <2>4. CASE Answer
    <3>1. PICK r \in {Error} \cup 0..amount : ByteAnswer(r) \/ TableAnswer(r) \/ ValueAnswer(r)
      BY <2>4 DEF Answer
    <3>2. pc = "ask"
      BY <3>1 DEF ByteAnswer, TableAnswer, ValueAnswer, Answered
    <3>3. PICK a \in Nat, s \in Nat, q \in Int :
            /\ a = amount /\ a \in 1..n /\ s = size /\ s >= 1 /\ q = r
            /\ op \in ValueOps => a = s
      BY <2>1, <3>2 DEF IInv, TypeInv, Asks, Imodes, Error
    <3>4. (pc' = "end" /\ m <= n) \/ (pc' = "loop" /\ m < n)
      <4>1. CASE ByteAnswer(r)
        BY <2>1, <3>3, <4>1 DEF ByteAnswer
      <4>2. CASE TableAnswer(r)
        <5>1. m = n - (IF q > 0 THEN q ELSE 0) /\ pc' = IF q = a THEN "loop" ELSE "end"
          BY <2>1, <3>3, <4>2 DEF TableAnswer
        <5>2. QED
          BY <3>3, <5>1
      <4>3. CASE ValueAnswer(r)
        BY <2>1, <3>3, <4>3 DEF ValueAnswer
      <4>4. QED
        BY <3>1, <4>1, <4>2, <4>3
    <3>5. Left = 4 * n + 2
      BY <2>1, <3>2 DEF Left
    <3>6. Left' = IF pc' = "end" THEN 4 * m + 1 ELSE 4 * m + 3
      BY <2>1, <3>4 DEF Left
    <3>7. CASE pc' = "end" /\ m <= n
      <4>1. Left' = 4 * m + 1
        BY <3>6, <3>7
      <4>2. 4 * m + 1 \in 0..((4 * n + 2) - 1)
        BY <3>7
      <4>3. QED
        BY <3>5, <4>1, <4>2
    <3>8. CASE pc' = "loop" /\ m < n
      <4>1. Left' = 4 * m + 3
        BY <3>6, <3>8
      <4>2. 4 * m + 3 \in 0..((4 * n + 2) - 1)
        BY <3>8
      <4>3. QED
        BY <3>5, <4>1, <4>2
    <3>9. QED
      BY <3>4, <3>7, <3>8
  <2>5. ~Begin
    BY DEF Begin, Reads, Writes, l_Freads, MemoryIO, l_Fwrites, l_Freadt, l_Freadi,
           l_Fwritei, l_Fwritet, Call
  <2>6. QED
    BY <2>2, <2>3, <2>4, <2>5 DEF Next
<1>2. QED
  BY <1>1, SpecInv, PTL DEF Spec, TransferAdvances
===============================================================================
