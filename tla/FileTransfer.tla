----------------------------- MODULE FileTransfer -----------------------------
(***************************************************************************)
(* One call of a function of src/gemdos/gemdos_f.c that moves bytes between*)
(* a GEMDOS file and a string, a memory, a table or integers: its argument *)
(* checks, its loop over blocks or values, and what it returns.            *)
(*                                                                         *)
(* Bytes are known by their offset: a block is where it starts in the      *)
(* script's data and its length.  The device is free: it takes or gives as *)
(* many bytes of a block as it likes, none, or fails.                      *)
(***************************************************************************)
EXTENDS Imode, FiniteSets

CONSTANTS
  SmallBlock,      \* SMALL_BLOCK_SIZE, the temporary buffer of tables
  LargeBlock,      \* LARGE_BLOCK_SIZE
  MaxCount         \* largest count, length and position tried (a bound)

ASSUME BlocksHoldValues ==
  /\ SmallBlock \in Nat \ {0} /\ SmallBlock % 4 = 0
  /\ LargeBlock \in Nat \ {0}

ASSUME CountsAreWords == MaxCount \in 0..WordMax

VARIABLES
  op,          \* the function called
  size,        \* bytes in a value: 1, 2 or 4; 1 when bytes are moved
  want,        \* what the script asked for: the first offset, the bytes and
               \* whether it may, as the documentation has it
  bad,         \* first value out of the range of the imode, or 0
  count,       \* bytes to move, as the function computed them
  remaining,   \* bytes of count not moved, or of the values not tried
  from,        \* where the next block starts in the script's data
  amount,      \* length of the block asked for
  result,      \* the device's last answer
  moved,       \* bytes the device has taken or given
  stored,      \* bytes of values and strings that reached the script's data
  pc, ret

vars == <<op, size, want, bad, count, remaining, from, amount, result, moved,
          stored, pc, ret>>
-------------------------------------------------------------------------------
ByteOps == {"reads", "writes", "readm", "writem"}
TableOps == {"readt", "writet"}
ValueOps == {"readi", "writei"}
Ops == ByteOps \cup TableOps \cup ValueOps
ReadOps == {"reads", "readm", "readt", "readi"}

\* The length of a string or a table; a position in it; a number that a script
\* asks for, which may as well be negative.
Counts == 0..MaxCount
Positions == (-MaxCount - 1)..MaxCount
Numbers == (-MaxCount - 1)..MaxCount

\* What a file is open for, if it is, as the code checks it.
Modes == {"invalid", "read", "write", "rw"}
ReadOK(mode) == mode # "invalid" /\ mode # "write"
WriteOK(mode) == mode # "invalid" /\ mode # "read"

\* The longest block a function asks for.
BlockSize ==
  CASE op \in ByteOps  -> LargeBlock
    [] op \in TableOps -> SmallBlock
    [] op \in ValueOps -> size

Error == -1

Asked(legal, first, bytes) == [legal |-> legal, first |-> first, bytes |-> bytes]
NotAllowed == Asked(FALSE, 0, 0)

Init ==
  /\ op = "none" /\ size = 1
  /\ want = NotAllowed /\ bad = 0
  /\ count = 0 /\ remaining = 0 /\ from = 0 /\ amount = 0 /\ result = 0
  /\ moved = 0 /\ stored = 0
  /\ pc = "idle" /\ ret = 0
-------------------------------------------------------------------------------
(* What the documentation allows (README.md, Freads to Fwritei).            *)

Readable(mode) == mode \in {"read", "rw"}
Writable(mode) == mode \in {"write", "rw"}

\* n values of sz bytes are to be read; numbers are those that may be.
AskedNumber(mode, sz, n, numbers) ==
  IF n \in numbers THEN Asked(Readable(mode), 0, n * sz) ELSE NotAllowed

\* A part of len elements of sz bytes is to be written.
AskedPart(mode, sz, i, j, len) ==
  LET part == Part(i, j, len)
  IN  IF part = {} THEN NotAllowed
      ELSE Asked(Writable(mode), ((CHOOSE k \in part : k - 1 \notin part) - 1) * sz,
                 Cardinality(part) * sz)
-------------------------------------------------------------------------------
(* The calls, up to their loop.                                            *)

\* asked is what the documentation says of the arguments; ok is the outcome of
\* the argument checks, index and c are what the code computes.
Call(ok, o, sz, asked, b, index, c) ==
  /\ pc = "idle"
  /\ op' = o /\ size' = sz /\ want' = asked
  /\ IF ok
     THEN /\ bad' = b /\ count' = c /\ remaining' = c /\ from' = index
          /\ pc' = "loop"
     ELSE pc' = "rejected" /\ UNCHANGED <<bad, count, remaining, from>>
  /\ UNCHANGED <<amount, result, moved, stored, ret>>

\* Faulty: the number of characters is not checked.
FreadsTakesNegative(mode, n) ==
  Call(ReadOK(mode), "reads", 1, AskedNumber(mode, 1, n, Nat), 0, 0, n)

l_Freads(mode, n) ==
  Call(ReadOK(mode) /\ n >= 0, "reads", 1, AskedNumber(mode, 1, n, Nat), 0, 0, n)

\* offset is inside the memory and n bytes fit (MemoryAccess has the checks).
MemoryIO(read, mode, offset, n) ==
  LET ok  == IF read THEN ReadOK(mode) ELSE WriteOK(mode)
      may == IF read THEN Readable(mode) ELSE Writable(mode)
      o   == IF read THEN "readm" ELSE "writem"
  IN  Call(ok, o, 1, Asked(may, offset, n), 0, offset, n)

l_Fwrites(mode, len, i, j) ==
  Call(WriteOK(mode) /\ StringRangeOK(i, j, len), "writes", 1,
       AskedPart(mode, 1, i, j, len), 0,
       ZeroBased(i, len), OneBased(j, len) - ZeroBased(i, len))

\* from is the offset of key_base.
l_Fwritet(mode, sz, len, i, j, b) ==
  Call(WriteOK(mode) /\ TableRangeOK(i, j, len), "writet", sz,
       AskedPart(mode, sz, i, j, len), b,
       (OneBased(i, len) - 1) * sz,
       NvalToSize(sz, OneBased(j, len) - OneBased(i, len) + 1))

l_Freadt(mode, sz, n) ==
  Call(ReadOK(mode) /\ n >= 0, "readt", sz, AskedNumber(mode, sz, n, Nat), 0,
       0, NvalToSize(sz, n))

\* n integer arguments follow the imode, at least one.
l_Fwritei(mode, sz, n, b) ==
  /\ n > 0
  /\ Call(WriteOK(mode), "writei", sz, Asked(Writable(mode), 0, n * sz), b,
          0, n * sz)

l_Freadi(mode, sz, n) ==
  Call(ReadOK(mode) /\ n >= 0 /\ n <= MaxMultival, "readi", sz,
       AskedNumber(mode, sz, n, 0..MaxMultival), 0, 0, n * sz)
-------------------------------------------------------------------------------
(* The loops.                                                              *)

\* Faulty: only the first value of a block is checked.
FirstIsBad(amt) ==
  bad # 0 /\ op \in {"writet", "writei"} /\ from = (bad - 1) * size

\* Some value of the block about to be written is out of range: an error is
\* raised, whatever was written before.  Values are known by their position.
BlockIsBad(amt) ==
  /\ bad # 0 /\ op \in {"writet", "writei"}
  /\ from < bad * size /\ (bad - 1) * size < from + amt

\* Faulty: the last block is as long as the others.
NextBlockIsFull ==
  /\ pc = "loop" /\ remaining # 0
  /\ amount' = BlockSize
  /\ pc' = IF BlockIsBad(BlockSize) THEN "raised" ELSE "ask"
  /\ UNCHANGED <<op, size, want, bad, count, remaining, from, result,
                 moved, stored, ret>>

NextBlock ==
  LET amt == IF remaining > BlockSize THEN BlockSize ELSE remaining
  IN  /\ pc = "loop" /\ remaining # 0
      /\ amount' = amt
      /\ pc' = IF BlockIsBad(amt) THEN "raised" ELSE "ask"
      /\ UNCHANGED <<op, size, want, bad, count, remaining, from, result,
                     moved, stored, ret>>

\* The device answers r, in one of the three loops.
Answered(r) ==
  /\ pc = "ask"
  /\ result' = r
  /\ moved' = moved + (IF r > 0 THEN r ELSE 0)
  /\ UNCHANGED <<op, size, want, bad, count, amount, ret>>

Kept(bytes) == stored' = stored + (IF op \in ReadOps THEN bytes ELSE 0)

\* Faulty: a short block ends the loop.
ByteAnswerStopsShort(r) ==
  /\ op \in ByteOps
  /\ Answered(r)
  /\ remaining' = remaining - (IF r > 0 THEN r ELSE 0)
  /\ from' = from + (IF r > 0 THEN r ELSE 0)
  /\ Kept(IF r > 0 THEN r ELSE 0)
  /\ pc' = IF r = amount THEN "loop" ELSE "end"

\* Faulty: only an error ends the loop.
ByteAnswerIgnoresEof(r) ==
  /\ op \in ByteOps
  /\ Answered(r)
  /\ IF r >= 0
     THEN /\ remaining' = remaining - r /\ from' = from + r
          /\ Kept(r)
          /\ pc' = "loop"
     ELSE pc' = "end" /\ UNCHANGED <<remaining, from, stored>>

\* Bytes: a short block is not the end, the loop asks for the rest.
ByteAnswer(r) ==
  /\ op \in ByteOps
  /\ Answered(r)
  /\ IF r > 0
     THEN /\ remaining' = remaining - r /\ from' = from + r
          /\ Kept(r)
          /\ pc' = "loop"
     ELSE pc' = "end" /\ UNCHANGED <<remaining, from, stored>>

\* Faulty: a short block is followed by another.
TableAnswerGoesOn(r) ==
  LET whole == SizeToNval(size, r) * size
  IN  /\ op \in TableOps
      /\ Answered(r)
      /\ remaining' = remaining - (IF r > 0 THEN r ELSE 0)
      /\ IF r > 0 THEN from' = from + whole /\ Kept(whole)
         ELSE UNCHANGED <<from, stored>>
      /\ pc' = IF r > 0 THEN "loop" ELSE "end"

\* Tables: a short block ends the loop; key_base counts whole values, and so
\* does what a table receives.
TableAnswer(r) ==
  LET whole == SizeToNval(size, r) * size
  IN  /\ op \in TableOps
      /\ Answered(r)
      /\ remaining' = remaining - (IF r > 0 THEN r ELSE 0)
      /\ IF r > 0 /\ (op = "readt" \/ r = amount)
         THEN from' = from + whole /\ Kept(whole)
         ELSE UNCHANGED <<from, stored>>
      /\ pc' = IF r = amount THEN "loop" ELSE "end"

\* Integers: one value after the other.  A short one ends a read; a write goes
\* on with the next value.
ValueAnswer(r) ==
  /\ op \in ValueOps
  /\ Answered(r)
  /\ IF r > 0 /\ (op = "writei" \/ r = size)
     THEN /\ remaining' = remaining - size /\ from' = from + size
          /\ Kept(size)
          /\ pc' = "loop"
     ELSE pc' = "end" /\ UNCHANGED <<remaining, from, stored>>

Answer == \E r \in {Error} \cup 0..amount :
            ByteAnswer(r) \/ TableAnswer(r) \/ ValueAnswer(r)

\* Faulty: what was asked for is returned.
ReturnsCount ==
  /\ pc = "end" \/ (pc = "loop" /\ remaining = 0)
  /\ ret' = IF result < 0 THEN result ELSE count
  /\ pc' = "done"
  /\ UNCHANGED <<op, size, want, bad, count, remaining, from, amount, result,
                 moved, stored>>

\* What is returned: the device's error, or the number of bytes.
Return ==
  /\ pc = "end" \/ (pc = "loop" /\ remaining = 0)
  /\ ret' = IF result < 0 THEN result
            ELSE IF op \in ValueOps THEN moved
            ELSE count - remaining
  /\ pc' = "done"
  /\ UNCHANGED <<op, size, want, bad, count, remaining, from, amount, result,
                 moved, stored>>
-------------------------------------------------------------------------------
\* No table and no argument list is so long that its bytes overflow a word: it
\* would not fit the memory.
Fits(n, sz) == n * sz <= WordMax

Reads(mode) ==
  \E n \in Numbers :
    \/ l_Freads(mode, n)
    \/ \E sz \in Imodes : l_Freadt(mode, sz, n) \/ l_Freadi(mode, sz, n)

Writes(mode) ==
  \E n \in Counts :
    \/ \E i, j \in Positions : l_Fwrites(mode, n, i, j)
    \/ \E sz \in Imodes, b \in 0..n :
         /\ Fits(n, sz)
         /\ \/ l_Fwritei(mode, sz, n, b)
            \/ \E i, j \in Positions : l_Fwritet(mode, sz, n, i, j, b)

Begin ==
  /\ pc = "idle"
  /\ \E mode \in Modes :
       \/ Reads(mode) \/ Writes(mode)
       \/ \E read \in BOOLEAN, offset \in {0, 1}, n \in Counts :
            MemoryIO(read, mode, offset, n)

Next == Begin \/ NextBlock \/ Answer \/ Return

Spec == Init /\ [][Next]_vars

\* GEMDOS calls return, and C code goes on.
FairSpec == Spec /\ WF_vars(NextBlock \/ Answer \/ Return)
-------------------------------------------------------------------------------
(* Properties.                                                             *)

\* The argument checks accept what the documentation allows and nothing else: no
\* negative number of values, not more of them than a call returns, no file that
\* is not open for it.  The range computed is the range asked for: positions from
\* the end, one-based keys and zero-based pointers agree.
RangeIsAsked ==
  /\ pc = "rejected" => ~want.legal
  /\ pc = "loop" /\ moved = 0 =>
       want.legal /\ from = want.first /\ count = want.bytes /\ remaining = count

\* Each block starts where the device left off, after any mix of short blocks:
\* nothing is skipped or moved twice.  Fwritei alone goes on after a value it
\* wrote only in part, with the next one.
BlocksAreContiguous ==
  pc = "ask" =>
    IF op = "writei"
    THEN from >= moved /\ from % size = 0
    ELSE from = want.first + moved

\* A block is not empty and fits the buffer it passes through and the data it
\* belongs to.
AmountFitsBlock ==
  pc = "ask" =>
    /\ amount \in 1..BlockSize
    /\ from + amount <= want.first + want.bytes

\* The number returned is the number of bytes the device moved; it is less
\* than was asked only if the device's last answer was short, and for strings
\* and memories only at the end of the file.  An error is the device's own.
ReturnTellsMoved ==
  pc = "done" =>
    IF ret < 0 THEN ret = result
    ELSE /\ ret = moved /\ ret \in 0..want.bytes
         /\ ret < want.bytes =>
              IF op \in ByteOps THEN result = 0
              ELSE op = "writei" \/ result < amount

\* A table or a list of integers receives every whole value that was read and
\* no part of another one.
WholeValuesAreStored ==
  pc = "done" /\ op \in ReadOps => stored = moved - (moved % size)

\* No value out of range reaches the device, nor any value after it, though
\* the blocks before it are already written when the error is raised.
BadIsNeverWritten ==
  op \in {"writet", "writei"} /\ bad * size > want.first =>
    want.first + moved <= (bad - 1) * size

\* Every call returns or raises an error.
CallsReturn == pc = "loop" ~> pc \in {"done", "raised"}

\* The call implements the promise of Transfer.
Promise ==
  INSTANCE Transfer WITH
    phase <- CASE pc = "idle" -> "idle"
               [] pc \in {"loop", "ask", "end"} -> "moving"
               [] pc \in {"raised", "rejected"} -> "raised"
               [] pc = "done" -> IF ret < 0 THEN "failed" ELSE "returned",
    asked <- want.bytes,
    told <- IF pc = "done" /\ ret >= 0 THEN ret ELSE 0

MovesAsPromised == Promise!Spec
===============================================================================
