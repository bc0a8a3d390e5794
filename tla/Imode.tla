--------------------------------- MODULE Imode ---------------------------------
(***************************************************************************)
(* The arithmetic shared by the functions that move values: integer modes  *)
(* (src/gemdos/gemdosi.h), and the positions with which a script names a   *)
(* part of a string or of a table.                                         *)
(***************************************************************************)
EXTENDS LuaWords

CONSTANT MaxMultival      \* TOSBINDL_GEMDOS_MAX_MULTIVAL

ASSUME MultivalIsNumber == MaxMultival \in Nat

\* An integer mode is the bytes of its values; signedness plays no part.
Imodes == {1, 2, 4}

\* IMODE_NVAL_TO_SIZE and IMODE_SIZE_TO_NVAL.
NvalToSize(sz, n) == Wrapped(n * sz)

\* Faulty: a value cut short counts.
SizeToNvalRoundsUp(sz, b) == (b + sz - 1) \div sz

SizeToNval(sz, b) == b \div sz

\* IMODE_OFFSET_CHECK_ALIGNED
Aligned(sz, offset) == sz = 1 \/ offset % 2 = 0

\* How the code turns a position into a zero-based or a one-based index.
ZeroBased(p, len) == IF p < 0 THEN len + p ELSE p - 1
OneBased(p, len) == IF p < 0 THEN len + p + 1 ELSE p

\* The index checks of the functions that take a part of a string, and of
\* those that take a part of a table.
StringRangeOK(i, j, len) ==
  LET index == ZeroBased(i, len)
      end   == OneBased(j, len)
  IN  index >= 0 /\ index < len /\ end > 0 /\ end <= len /\ index < end

TableRangeOK(i, j, len) ==
  LET start == OneBased(i, len)
      end   == OneBased(j, len)
  IN  start > 0 /\ start <= len /\ end > 0 /\ end <= len /\ start <= end
-------------------------------------------------------------------------------
(* What the documentation says of positions (README.md, Fwrites and        *)
(* Fwritet): from 1 at the start, from -1 at the end.                      *)

Names(p, len, k) == k \in 1..len /\ (p = k \/ p = k - len - 1)

\* The elements from position i to position j; none if there is no such range.
Part(i, j, len) ==
  {k \in 1..len : /\ \E a \in 1..k : Names(i, len, a)
                  /\ \E b \in k..len : Names(j, len, b)}
===============================================================================
