--------------------------------- MODULE GemPb ---------------------------------
(***************************************************************************)
(* A GEM parameter block, src/gempb/tbgempb.c: arrays of 16- and 32-bit    *)
(* words that a script fills, hands to the VDI or the AES with a trap, and *)
(* reads back; and Call, which does all three in a call whose arguments    *)
(* say, as they are parsed, how many more of them there are.               *)
(*                                                                         *)
(* Words hold no numbers here.  One of them, any one, is watched, and what *)
(* it holds is told by where that came from.                               *)
(***************************************************************************)
EXTENDS LuaWords, Sequences

CONSTANTS
  Size,            \* array_sizes
  ShortMax,        \* the largest short
  MaxTop,          \* stack slots of the longest call (a bound)
  MaxArg,          \* largest offset and count tried (a bound)
  MaxNegative      \* the least count given to a trap is its negative (a bound)

VdiArray == {"vdi_control", "vdi_intin", "vdi_ptsin", "vdi_intout", "vdi_ptsout"}
AesArray == {"aes_control", "aes_global", "aes_intin", "aes_intout",
             "aes_addrin", "aes_addrout"}
ControlArray == {"vdi_control", "aes_control"}
Array == VdiArray \cup AesArray

\* What a trap may write.
Output == ControlArray \cup
  {"vdi_intout", "vdi_ptsout", "aes_global", "aes_intout", "aes_addrout"}

ASSUME ArraysHaveSizes ==
  /\ Size \in [Array -> 1..WordMax]
  /\ Size["vdi_control"] >= 11 /\ Size["aes_control"] >= 5
  /\ ShortMax \in Nat \ {0}

ASSUME BoundsAreNumbers == MaxTop \in Nat /\ MaxArg \in Nat /\ MaxNegative \in Nat

VARIABLES
  watched,         \* a word: the array it is in and its place there
  holds,           \* what that word holds
  access,          \* the words asked for, the array's size, whether they are given
  call             \* the call of vdi, aes or call in progress, or the last one

vars == <<watched, holds, access, call>>
-------------------------------------------------------------------------------
\* The words of the control arrays, in their order, as the traps want them.
ControlWords == [
  vdi_control |-> <<"opcode", "nptsin", "zero", "nintin", "zero", "subopcode",
                    "handle", "addr1 high", "addr1 low", "addr2 high", "addr2 low">>,
  aes_control |-> <<"opcode", "nintin", "nintout", "naddrin", "naddrout">>]

Holds == {"zero", "script", "system"} \cup
  UNION {{ControlWords[c][k] : k \in 1..Len(ControlWords[c])} : c \in ControlArray}

\* The arguments that go into a control array: how many there must be, how
\* many there may be, and which of them counts the words of which array.
Least == [vdi_control |-> 2, aes_control |-> 1]
Most  == [vdi_control |-> 7, aes_control |-> 5]
Counts == [
  vdi_control |-> [vdi_intin |-> 4, vdi_ptsin |-> 5],
  aes_control |-> [aes_intin |-> 2, aes_intout |-> 3, aes_addrin |-> 4,
                   aes_addrout |-> 5]]

\* A point is two words.
Unit(a) == IF a = "vdi_ptsin" THEN 2 ELSE 1

NoCounts == <<>>
NoAccess == [size |-> 0, first |-> 0, num |-> 0, ok |-> TRUE]
NoCall == [op |-> "none", stage |-> "idle", index |-> 1, top |-> 1,
           control |-> "none", counts |-> NoCounts]

\* l_create_pb clears the block.
Init ==
  /\ watched \in {[array |-> a, at |-> k] : a \in Array, k \in 0..MaxArg + 11}
  /\ watched.at < Size[watched.array]
  /\ holds = "zero" /\ access = NoAccess /\ call = NoCall

Idle == call.stage = "idle"
Ended == call.stage \in {"returned", "raised"}
AtOnce == [NoCall EXCEPT !.stage = "returned"]

\* Is the watched word one of the n words of a from first?
Covers(a, first, n) == watched.array = a /\ watched.at \in first..(first + n - 1)

Part(a, first, num, ok) ==
  [size |-> Size[a], first |-> first, num |-> num, ok |-> ok]

\* The checks let num words of a be read from first.
Reads(a, first, num, ok) ==
  /\ Idle
  /\ access' = Part(a, first, num, ok)
  /\ call' = AtOnce
  /\ UNCHANGED <<watched, holds>>

\* Of num values the first n are stored: the next is out of the range of the
\* array, or there is none.
Stores(a, first, num, n, ok) ==
  /\ Idle
  /\ access' = Part(a, first, num, ok)
  /\ holds' = IF ok /\ Covers(a, first, n) THEN "script" ELSE holds
  /\ call' = AtOnce
  /\ UNCHANGED watched
-------------------------------------------------------------------------------
(* set, get, poke, peek, setstr and getstr.                                *)

InArray(a, first) == first >= 0 /\ first < Size[a]

\* The length of the table is num, which its __len may make negative.
ArraySet(a, first, num, n) ==
  /\ n <= num \/ (num < 0 /\ n = 0)
  /\ Stores(a, first, num, n,
            InArray(a, first) /\ num >= 0 /\ num <= Size[a] - first)

\* At least one value follows the offset.
ArrayPoke(a, first, num, n) ==
  /\ num > 0 /\ n <= num
  /\ Stores(a, first, num, n, first >= 0 /\ Wrapped(first + num) <= Size[a])

ArrayGet(a, first, given, count) ==
  LET num == IF given THEN count ELSE Size[a] - first
  IN  Reads(a, first, num,
            InArray(a, first) /\ num >= 0 /\ Wrapped(first + num) <= Size[a])

\* Faulty: a negative number of values is let through.
PeekTakesNegative(a, first, num) ==
  Reads(a, first, num, InArray(a, first) /\ Wrapped(first + num) <= Size[a])

ArrayPeek(a, first, num) ==
  Reads(a, first, num,
        InArray(a, first) /\ num >= 0 /\ Wrapped(first + num) <= Size[a])

ArraySetStr(first, len) ==
  Stores("vdi_intin", first, len, len,
         InArray("vdi_intin", first) /\ Wrapped(len + first) <= Size["vdi_intin"])

\* A zero among the first count words ends the string.
ArrayGetStr(first, count) ==
  Reads("vdi_intout", first, count,
        /\ InArray("vdi_intout", first)
        /\ count >= 0 /\ count <= Size["vdi_intout"] - first)
-------------------------------------------------------------------------------
(* The traps.  Their arguments follow the stack slot index: n of them.     *)

Raised(c) == [c EXCEPT !.stage = "raised"]

CountsGiven(c, n) ==
  {f \in [DOMAIN Counts[c] -> (-MaxNegative)..MaxArg] :
     \A a \in DOMAIN f : Counts[c][a] > n => f[a] = 0}

Takes(c, n, left) == n \in Least[c]..Most[c] /\ n <= left

TooMany(f) == \E a \in DOMAIN f : f[a] > Size[a] \div Unit(a)

\* Faulty: only the words that arguments are given for are set.
WordsGiven(c, n) ==
  IF Covers(c, 0, n) THEN ControlWords[c][watched.at + 1] ELSE holds

\* What the watched word holds when n arguments have gone into c: those that
\* are missing count as zero.
WordsSet(c, n) ==
  IF Covers(c, 0, Len(ControlWords[c])) THEN ControlWords[c][watched.at + 1] ELSE holds

\* The counts are checked from above only, then cut to the words of the
\* control array; an opcode that is not positive skips the trap.
SetsControl(c, before, n, index, after) ==
  /\ IF Takes(c, n, before.top - index)
     THEN \E f \in CountsGiven(c, n), opcode \in {0, 1} :
            IF TooMany(f)
            THEN call' = Raised(before) /\ UNCHANGED holds
            ELSE
              /\ holds' = WordsSet(c, n)
              /\ call' = [before EXCEPT
                   !.control = c,
                   !.index = index + n + 1,
                   !.stage = IF opcode > 0 THEN "trap" ELSE after,
                   !.counts = IF opcode > 0
                              THEN [a \in DOMAIN f |-> Truncated(f[a], ShortMax)]
                              ELSE NoCounts]
     ELSE call' = Raised(before) /\ UNCHANGED holds
  /\ access' = NoAccess
  /\ UNCHANGED watched

\* What the VDI or the AES writes is theirs to choose.
Trap ==
  /\ call.stage = "trap"
  /\ holds' \in IF watched.array \in Output THEN {holds, "system"} ELSE {holds}
  /\ call' = [call EXCEPT !.stage = IF call.op = "call" THEN "peek" ELSE "returned",
                          !.counts = NoCounts]
  /\ UNCHANGED <<watched, access>>

VDITrap(before, n, index, after) ==
  SetsControl("vdi_control", before, n, index, after)

AESTrap(before, n, index, after) ==
  SetsControl("aes_control", before, n, index, after)

\* The vdi and aes methods: every argument is one for the control array.
VDITrap_ctrl(top) ==
  Idle /\ VDITrap([NoCall EXCEPT !.op = "vdi", !.top = top], top - 1, 1, "returned")

AESTrap_ctrl(top) ==
  Idle /\ AESTrap([NoCall EXCEPT !.op = "aes", !.top = top], top - 1, 1, "returned")
-------------------------------------------------------------------------------
(* Call: its three stages, a run of arguments at a time.                   *)

BeginCall(top) ==
  /\ Idle
  /\ call' = [NoCall EXCEPT !.op = "call", !.stage = "poke", !.index = 2, !.top = top]
  /\ UNCHANGED <<watched, holds, access>>

\* Faulty: the last array and span are left unread.
InCallStopsEarly(stage) == call.stage = stage /\ call.index < call.top - 1

\* An array and a span are still to come.
InCall(stage) == call.stage = stage /\ call.index <= call.top - 1

\* What must be an array or an integer is something else.
BadArgument ==
  /\ InCall("poke") \/ InCall("peek")
  /\ call' = Raised(call)
  /\ UNCHANGED <<watched, holds, access>>

\* Stage one.  Of the values of the run the first n are good.
PokeRun(a, offset, numval, n) ==
  LET ok   == offset + numval <= Size[a]
      span == call.index + 1
  IN  /\ InCall("poke") /\ a \notin ControlArray /\ n <= numval
      /\ IF ok /\ numval <= call.top - span
         THEN /\ access' = Part(a, offset, numval, TRUE)
              /\ holds' = IF Covers(a, offset, n) THEN "script" ELSE holds
              /\ call' = IF n = numval
                         THEN [call EXCEPT !.index = span + numval + 1]
                         ELSE Raised(call)
         ELSE /\ access' = IF ok THEN access ELSE Part(a, offset, numval, FALSE)
              /\ call' = Raised(call)
              /\ UNCHANGED holds
      /\ UNCHANGED watched

\* Faulty: the pokes go on after the trap.
CallTrapGoesOn(n) ==
  /\ InCall("poke")
  /\ \/ VDITrap(call, n, call.index + 1, "poke")
     \/ AESTrap(call, n, call.index + 1, "poke")

\* Stage two.
CallTrap(n) ==
  /\ InCall("poke")
  /\ \/ VDITrap(call, n, call.index + 1, "peek")
     \/ AESTrap(call, n, call.index + 1, "peek")

\* Faulty: the index stays where it is.
PeekRunStays(a, offset, numval) ==
  /\ InCall("peek") /\ offset + numval <= Size[a]
  /\ access' = Part(a, offset, numval, TRUE)
  /\ UNCHANGED <<watched, holds, call>>

\* Stage three.
PeekRun(a, offset, numval) ==
  LET ok == offset + numval <= Size[a]
  IN  /\ InCall("peek")
      /\ access' = Part(a, offset, numval, ok)
      /\ call' = IF ok THEN [call EXCEPT !.index = call.index + 2] ELSE Raised(call)
      /\ UNCHANGED <<watched, holds>>

CallReturns ==
  /\ call.stage \in {"poke", "peek"} /\ ~InCall(call.stage)
  /\ call' = [call EXCEPT !.stage = "returned"]
  /\ UNCHANGED <<watched, holds, access>>

\* The script has its results, or its error, and goes on.
Resumes ==
  /\ Ended
  /\ access' = NoAccess /\ call' = NoCall
  /\ UNCHANGED <<watched, holds>>
-------------------------------------------------------------------------------
Args == 0..MaxArg

Call ==
  \/ BadArgument \/ Trap \/ CallReturns \/ Resumes
  \/ \E a \in Array, offset, numval \in Args :
       PeekRun(a, offset, numval) \/ \E n \in Args : PokeRun(a, offset, numval, n)
  \/ \E n \in 0..MaxTop : CallTrap(n)

Script ==
  \/ \E a \in Array, first, num \in (-1)..MaxArg :
       \/ \E n \in Args : ArraySet(a, first, num, n) \/ ArrayPoke(a, first, num, n)
       \/ \E given \in BOOLEAN : ArrayGet(a, first, given, num)
       \/ ArrayPeek(a, first, num)
  \/ \E first \in (-1)..MaxArg :
       \/ \E len \in Args : ArraySetStr(first, len)
       \/ \E count \in (-1)..MaxArg : ArrayGetStr(first, count)
  \/ \E top \in 1..MaxTop :
       BeginCall(top) \/ VDITrap_ctrl(top) \/ AESTrap_ctrl(top)

Next == Call \/ Script

Spec == Init /\ [][Next]_vars
-------------------------------------------------------------------------------
(* Properties.                                                             *)

\* The checks refuse exactly what does not fit: no word beside an array, a C
\* array of fixed size, is touched, by a negative number of values neither, and
\* its last words can be reached (the limits tested in src/gempb/unittest).  Only
\* of no words at the end of an array nothing is said: call's runs accept that
\* offset, the array functions do not.
ChecksAreExact ==
  LET fits == /\ access.first >= 0 /\ access.num >= 0
              /\ access.first + access.num <= access.size
  IN  /\ access.ok => fits
      /\ fits /\ access.first < access.size => access.ok

\* A trap finds in the words of its control array what its own arguments say,
\* whatever earlier calls and answers left there.
TrapSeesItsArguments ==
  call.stage = "trap" /\ Covers(call.control, 0, Len(ControlWords[call.control])) =>
    holds = ControlWords[call.control][watched.at + 1]

\* A trap is told of no more words than its arrays have, and of no fewer than
\* none ("Too many vdi_control intin values must fail", call.lua).
CountsFit ==
  \A a \in DOMAIN call.counts : call.counts[a] * Unit(a) \in 0..Size[a]

\* A call that returns has given a meaning to all its arguments, but perhaps
\* to a last one without a span.
ArgumentsAreUsed ==
  call.stage = "returned" => call.index \in {call.top, call.top + 1}

\* Once a call has set the control array only the trap changes the block: it
\* traps once, and what it returns is what the trap left.
ResultsAreTheTraps ==
  [][~Ended /\ call.control # "none" /\ call.stage # "trap" => holds' = holds]_vars

\* Every step of a call brings it nearer its end: parsing goes on, through runs
\* of any length, and the trap is made once.  As the index is bounded and some
\* step is always possible (there is no deadlock), every call returns.
ParsingAdvances ==
  [][call.stage \in {"poke", "trap", "peek"} =>
       \/ Ended'
       \/ call'.index > call.index
       \/ call.stage = "trap" /\ call'.stage = "peek"]_vars
===============================================================================
