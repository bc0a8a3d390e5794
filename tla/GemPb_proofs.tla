------------------------------ MODULE GemPb_proofs ------------------------------
(***************************************************************************)
(* Proofs about GemPb, for arrays and words of any size and calls of any   *)
(* length.                                                                 *)
(***************************************************************************)
EXTENDS GemPb, TLAPS

\* Two arguments can be added without leaving a word.  Beyond this the sum of
\* the checks of poke, peek, get and setstr wraps.
SumsFit == 2 * MaxArg <= WordMax
-------------------------------------------------------------------------------
(* The inductive invariant.                                                *)

Stages == {"idle", "poke", "trap", "peek", "returned", "raised"}

CallOf(o, s, i, t, c, k) ==
  [op |-> o, stage |-> s, index |-> i, top |-> t, control |-> c, counts |-> k]

\* The call is a record of these fields, whatever its counts are.
CallTyped ==
  /\ call = CallOf(call.op, call.stage, call.index, call.top, call.control, call.counts)
  /\ call.stage \in Stages
  /\ call.index \in Nat /\ call.top \in Nat

\* A call that may still store values has set no control array.
NoControlYet == call.stage \in {"idle", "poke"} => call.control = "none"

\* The arguments read so far are arguments of the call; vdi and aes, which are
\* not parsed, take theirs at once.
IndexInside ==
  /\ call.stage = "poke" => call.op = "call"
  /\ call.stage \in {"poke", "trap", "peek"} => call.index <= call.top + 1
  /\ call.stage = "trap" /\ call.op # "call" => call.index = call.top + 1

CallInv == CallTyped /\ NoControlYet /\ IndexInside /\ ArgumentsAreUsed

IInv == CallInv /\ ChecksAreExact /\ TrapSeesItsArguments
-------------------------------------------------------------------------------
(* Calls as records.                                                       *)

LEMMA Fields ==
  ASSUME NEW o, NEW s, NEW i, NEW t, NEW c, NEW k
  PROVE  /\ CallOf(o, s, i, t, c, k).op = o /\ CallOf(o, s, i, t, c, k).stage = s
         /\ CallOf(o, s, i, t, c, k).index = i /\ CallOf(o, s, i, t, c, k).top = t
         /\ CallOf(o, s, i, t, c, k).control = c /\ CallOf(o, s, i, t, c, k).counts = k
  BY DEF CallOf

\* What the updates of the code make of a call.
LEMMA UpdateStage ==
  ASSUME NEW o, NEW s, NEW i, NEW t, NEW c, NEW k, NEW before,
         before = CallOf(o, s, i, t, c, k),
         NEW s1
  PROVE  [before EXCEPT !.stage = s1] = CallOf(o, s1, i, t, c, k)
  BY DEF CallOf

LEMMA UpdateIndex ==
  ASSUME NEW o, NEW s, NEW i, NEW t, NEW c, NEW k, NEW before,
         before = CallOf(o, s, i, t, c, k),
         NEW i1
  PROVE  [before EXCEPT !.index = i1] = CallOf(o, s, i1, t, c, k)
  BY DEF CallOf

LEMMA UpdateCounts ==
  ASSUME NEW o, NEW s, NEW i, NEW t, NEW c, NEW k, NEW before,
         before = CallOf(o, s, i, t, c, k),
         NEW k1
  PROVE  [before EXCEPT !.counts = k1] = CallOf(o, s, i, t, c, k1)
  BY DEF CallOf

LEMMA UpdateControl ==
  ASSUME NEW o, NEW s, NEW i, NEW t, NEW c, NEW k, NEW before,
         before = CallOf(o, s, i, t, c, k),
         NEW c1
  PROVE  [before EXCEPT !.control = c1] = CallOf(o, s, i, t, c1, k)
  BY DEF CallOf

LEMMA UpdateOp ==
  ASSUME NEW o, NEW s, NEW i, NEW t, NEW c, NEW k, NEW before,
         before = CallOf(o, s, i, t, c, k),
         NEW o1
  PROVE  [before EXCEPT !.op = o1] = CallOf(o1, s, i, t, c, k)
  BY DEF CallOf

LEMMA UpdateTop ==
  ASSUME NEW o, NEW s, NEW i, NEW t, NEW c, NEW k, NEW before,
         before = CallOf(o, s, i, t, c, k),
         NEW t1
  PROVE  [before EXCEPT !.top = t1] = CallOf(o, s, i, t1, c, k)
  BY DEF CallOf

LEMMA NoCallIs == NoCall = CallOf("none", "idle", 1, 1, "none", NoCounts)
  BY DEF NoCall, CallOf

\* A call in its stages, and one that ends, is as the invariant has it.
LEMMA CallMade ==
  ASSUME NEW o, NEW s \in Stages, NEW i \in Nat, NEW t \in Nat, NEW c, NEW k,
         call' = CallOf(o, s, i, t, c, k),
         s \in {"idle", "poke"} => c = "none",
         s = "poke" => o = "call",
         s \in {"poke", "trap", "peek"} => i <= t + 1,
         s = "trap" /\ o # "call" => i = t + 1,
         s = "returned" => i \in {t, t + 1}
  PROVE  CallInv'
<1>1. /\ call'.op = o /\ call'.stage = s /\ call'.index = i /\ call'.top = t
      /\ call'.control = c /\ call'.counts = k
  BY Fields
<1>2. CallTyped'
  BY <1>1 DEF CallTyped
<1>3. (NoControlYet /\ IndexInside /\ ArgumentsAreUsed)'
  BY <1>1 DEF NoControlYet, IndexInside, ArgumentsAreUsed
<1>4. QED
  BY <1>2, <1>3 DEF CallInv

\* What a trap's arguments do: an error, or the words are set and the call
\* goes on behind them.
LEMMA ControlSet ==
  ASSUME NEW c \in ControlArray, NEW o, NEW s, NEW i, NEW t \in Nat, NEW d, NEW k,
         NEW before, before = CallOf(o, s, i, t, d, k),
         NEW n \in Nat, NEW index \in Nat, NEW after,
         SetsControl(c, before, n, index, after)
  PROVE  /\ watched' = watched /\ access' = NoAccess
         /\ \/ call' = CallOf(o, "raised", i, t, d, k) /\ holds' = holds
            \/ /\ n <= t - index /\ holds' = WordsSet(c, n)
               /\ \E counts : \E stage \in {"trap", after} :
                    call' = CallOf(o, stage, index + n + 1, t, c, counts)
<1>1. watched' = watched /\ access' = NoAccess
  BY DEF SetsControl
<1>2. before.top = t
  BY Fields
<1>3. Raised(before) = CallOf(o, "raised", i, t, d, k)
  BY UpdateStage DEF Raised
<1>4. CASE call' = Raised(before) /\ UNCHANGED holds
  BY <1>1, <1>3, <1>4
<1>5. CASE ~(call' = Raised(before) /\ UNCHANGED holds)
  <2>1. Takes(c, n, t - index)
    BY <1>2, <1>5 DEF SetsControl
  <2>2. PICK f \in CountsGiven(c, n), opcode \in {0, 1} :
           /\ holds' = WordsSet(c, n)
           /\ call' = [before EXCEPT
                !.control = c,
                !.index = index + n + 1,
                !.stage = IF opcode > 0 THEN "trap" ELSE after,
                !.counts = IF opcode > 0
                           THEN [a \in DOMAIN f |-> Truncated(f[a], ShortMax)]
                           ELSE NoCounts]
    BY <1>2, <1>5, <2>1 DEF SetsControl
  <2> DEFINE stage == IF opcode > 0 THEN "trap" ELSE after
             counts == IF opcode > 0
                       THEN [a \in DOMAIN f |-> Truncated(f[a], ShortMax)]
                       ELSE NoCounts
  <2>3. call' = CallOf(o, stage, index + n + 1, t, c, counts)
    <3>1. call' = [before EXCEPT !.control = c, !.index = index + n + 1, !.stage = stage,
                                 !.counts = counts]
      BY <2>2
    <3> HIDE DEF stage, counts
    <3>2. call' = [[[[before EXCEPT !.control = c] EXCEPT !.index = index + n + 1]
                      EXCEPT !.stage = stage] EXCEPT !.counts = counts]
      BY <3>1
    <3>3. [before EXCEPT !.control = c] = CallOf(o, s, i, t, c, k)
      BY UpdateControl
    <3>4. [CallOf(o, s, i, t, c, k) EXCEPT !.index = index + n + 1]
            = CallOf(o, s, index + n + 1, t, c, k)
      BY UpdateIndex
    <3>5. [CallOf(o, s, index + n + 1, t, c, k) EXCEPT !.stage = stage]
            = CallOf(o, stage, index + n + 1, t, c, k)
      BY UpdateStage
    <3>6. [CallOf(o, stage, index + n + 1, t, c, k) EXCEPT !.counts = counts]
            = CallOf(o, stage, index + n + 1, t, c, counts)
      BY UpdateCounts
    <3>7. QED
      BY <3>2, <3>3, <3>4, <3>5, <3>6
  <2>4. stage \in {"trap", after}
    OBVIOUS
  <2>5. n <= t - index
    BY <2>1 DEF Takes
  <2> HIDE DEF stage, counts
  <2>6. QED
    BY <1>1, <2>2, <2>3, <2>4, <2>5
<1>6. QED
  BY <1>4, <1>5
-------------------------------------------------------------------------------
(* Steps.                                                                  *)

\* The action properties, of one step.
KeepsResults ==
  ~Ended /\ call.control # "none" /\ call.stage # "trap" => holds' = holds

Advances ==
  call.stage \in {"poke", "trap", "peek"} =>
    \/ Ended'
    \/ call'.index > call.index
    \/ call.stage = "trap" /\ call'.stage = "peek"

GoodStep == IInv' /\ KeepsResults /\ Advances

\* What a step owes the invariant and the action properties.
LEMMA StepMade ==
  ASSUME IInv, NEW o, NEW s \in Stages, NEW i \in Nat, NEW t \in Nat, NEW c, NEW k,
         call' = CallOf(o, s, i, t, c, k),
         s \in {"idle", "poke"} => c = "none",
         s = "poke" => o = "call",
         s \in {"poke", "trap", "peek"} => i <= t + 1,
         s = "trap" /\ o # "call" => i = t + 1,
         s = "returned" => i \in {t, t + 1},
         watched' = watched, ChecksAreExact',
         s = "trap" /\ Covers(c, 0, Len(ControlWords[c])) =>
           holds' = ControlWords[c][watched.at + 1],
         holds' = holds \/ call.stage \in {"idle", "poke", "trap"},
         \/ call.stage \notin {"poke", "trap", "peek"}
         \/ s \in {"returned", "raised"} \/ i > call.index
         \/ call.stage = "trap" /\ s = "peek"
  PROVE  GoodStep
<1>1. CallInv'
  BY CallMade
<1>2. call'.stage = s /\ call'.index = i /\ call'.control = c
  BY Fields
<1>3. TrapSeesItsArguments'
  BY <1>2 DEF TrapSeesItsArguments, Covers
<1>4. KeepsResults
  BY DEF KeepsResults, IInv, CallInv, NoControlYet, Ended
<1>5. Advances
  BY <1>2 DEF Advances, Ended
<1>6. QED
  BY <1>1, <1>3, <1>4, <1>5 DEF GoodStep, IInv

LEMMA NothingAsked ==
  ASSUME access' = NoAccess
  PROVE  ChecksAreExact'
  BY DEF ChecksAreExact, NoAccess

\* A check that lets through what fits and nothing else, but perhaps no words
\* at the end of an array.
Exact(size, first, num, ok) ==
  LET fits == first >= 0 /\ num >= 0 /\ first + num <= size
  IN  (ok => fits) /\ (fits /\ first < size => ok)

LEMMA PartChecked ==
  ASSUME NEW a, NEW first, NEW num, NEW ok,
         access' = Part(a, first, num, ok),
         Exact(Size[a], first, num, ok)
  PROVE  ChecksAreExact'
<1>1. access'.num = num /\ access'.ok = ok /\ access'.first = first /\ access'.size = Size[a]
  BY DEF Part
<1>2. QED
  BY <1>1 DEF ChecksAreExact, Exact

\* The fields of a typed call are those of the record it is.
LEMMA CallIs ==
  ASSUME IInv
  PROVE  /\ call = CallOf(call.op, call.stage, call.index, call.top, call.control, call.counts)
         /\ call.stage \in Stages /\ call.index \in Nat /\ call.top \in Nat
  BY DEF IInv, CallInv, CallTyped

\* A call of an array function is over at once.
LEMMA AtOnceGood ==
  ASSUME IInv, Idle, call' = AtOnce, watched' = watched, ChecksAreExact'
  PROVE  GoodStep
<1>1. AtOnce = CallOf("none", "returned", 1, 1, "none", NoCounts)
  BY NoCallIs, UpdateStage DEF AtOnce
<1>2. call.stage = "idle"
  BY DEF Idle
<1>3. "returned" \in Stages
  BY DEF Stages
<1>4. QED
  BY <1>1, <1>2, <1>3, StepMade

LEMMA ReadsGood ==
  ASSUME IInv, NEW a, NEW first, NEW num, NEW ok, Reads(a, first, num, ok),
         Exact(Size[a], first, num, ok)
  PROVE  GoodStep
  BY PartChecked, AtOnceGood DEF Reads

LEMMA StoresGood ==
  ASSUME IInv, NEW a, NEW first, NEW num, NEW n, NEW ok, Stores(a, first, num, n, ok),
         Exact(Size[a], first, num, ok)
  PROVE  GoodStep
  BY PartChecked, AtOnceGood DEF Stores

\* A number that fits its type is left alone.
LEMMA TruncatedFits ==
  ASSUME NEW max \in Nat, NEW x \in Int, -max - 1 <= x, x <= max
  PROVE  Truncated(x, max) = x
<1>1. ASSUME NEW a \in Nat, NEW m \in Nat, a < m PROVE a % m = a
  BY <1>1
<1>2. (x + max + 1) % (2 * (max + 1)) = x + max + 1
  BY <1>1
<1>3. QED
  BY <1>2 DEF Truncated

\* Sums of two arguments are compared as they are.
LEMMA SumsCompared ==
  ASSUME NEW x \in Nat, NEW y \in Nat, x + y <= WordMax
  PROVE  Wrapped(x + y) = x + y
  BY TruncatedFits, WordsAreNumbers DEF Wrapped

LEMMA ArraySizes ==
  ASSUME NEW a \in Array
  PROVE  Size[a] \in Nat /\ Size[a] >= 1 /\ Size[a] <= WordMax
  BY ArraysHaveSizes, WordsAreNumbers

\* set, get, poke, peek, setstr and getstr.
LEMMA ArrayFunctionsGood ==
  ASSUME SumsFit, IInv, NEW a \in Array, NEW first \in (-1)..MaxArg, NEW num \in (-1)..MaxArg,
         \/ \E n \in Args : ArraySet(a, first, num, n) \/ ArrayPoke(a, first, num, n)
         \/ \E given \in BOOLEAN : ArrayGet(a, first, given, num)
         \/ ArrayPeek(a, first, num)
         \/ num \in Args /\ ArraySetStr(first, num)
         \/ ArrayGetStr(first, num)
  PROVE  GoodStep
<1>1. /\ first \in Int /\ first <= MaxArg /\ num \in Int /\ num <= MaxArg
      /\ 2 * MaxArg <= WordMax /\ MaxArg \in Nat /\ WordMax \in Nat
  BY BoundsAreNumbers, WordsAreNumbers DEF SumsFit
<1>2. \A b \in Array : Size[b] \in Nat /\ Size[b] >= 1 /\ Size[b] <= WordMax
  BY ArraySizes
<1>3. ASSUME first >= 0, num >= 0
      PROVE  Wrapped(first + num) = first + num /\ Wrapped(num + first) = first + num
  BY <1>1, <1>3, SumsCompared
<1>4. ASSUME NEW n \in Args, ArraySet(a, first, num, n) PROVE GoodStep
  <2> DEFINE ok == InArray(a, first) /\ num >= 0 /\ num <= Size[a] - first
  <2>1. Stores(a, first, num, n, ok)
    BY <1>4 DEF ArraySet
  <2>2. Exact(Size[a], first, num, ok)
    BY <1>1, <1>2 DEF InArray, Exact
  <2> HIDE DEF ok
  <2>3. QED
    BY <2>1, <2>2, StoresGood
<1>5. ASSUME NEW n \in Args, ArrayPoke(a, first, num, n) PROVE GoodStep
  <2> DEFINE ok == first >= 0 /\ Wrapped(first + num) <= Size[a]
  <2>1. Stores(a, first, num, n, ok) /\ num > 0
    BY <1>5 DEF ArrayPoke
  <2>2. Exact(Size[a], first, num, ok)
    BY <1>1, <1>2, <1>3, <2>1 DEF Exact
  <2> HIDE DEF ok
  <2>3. QED
    BY <2>1, <2>2, StoresGood
<1>6. ASSUME NEW given \in BOOLEAN, ArrayGet(a, first, given, num) PROVE GoodStep
  <2> DEFINE c == IF given THEN num ELSE Size[a] - first
             ok == InArray(a, first) /\ c >= 0 /\ Wrapped(first + c) <= Size[a]
  <2>1. Reads(a, first, c, ok)
    BY <1>6 DEF ArrayGet
  <2>2. ASSUME InArray(a, first), c >= 0
        PROVE  Wrapped(first + c) = first + c
    <3>1. first \in Nat /\ c \in Nat /\ first + c <= WordMax
      BY <1>1, <1>2, <2>2 DEF InArray
    <3> HIDE DEF c
    <3>2. QED
      BY <3>1, SumsCompared
  <2>3. c \in Int
    BY <1>1, <1>2
  <2> HIDE DEF c
  <2>4. Exact(Size[a], first, c, ok)
    BY <1>1, <1>2, <2>2, <2>3 DEF InArray, Exact
  <2> HIDE DEF ok
  <2>5. QED
    BY <2>1, <2>4, ReadsGood
<1>7. ASSUME ArrayPeek(a, first, num) PROVE GoodStep
  <2> DEFINE ok == InArray(a, first) /\ num >= 0 /\ Wrapped(first + num) <= Size[a]
  <2>1. Reads(a, first, num, ok)
    BY <1>7 DEF ArrayPeek
  <2>2. Exact(Size[a], first, num, ok)
    BY <1>1, <1>2, <1>3 DEF InArray, Exact
  <2> HIDE DEF ok
  <2>3. QED
    BY <2>1, <2>2, ReadsGood
<1>8. ASSUME num \in Args, ArraySetStr(first, num) PROVE GoodStep
  <2> DEFINE b == "vdi_intin"
             ok == InArray(b, first) /\ Wrapped(num + first) <= Size[b]
  <2>1. Stores(b, first, num, num, ok)
    BY <1>8 DEF ArraySetStr
  <2>2. b \in Array
    BY DEF Array, VdiArray
  <2> HIDE DEF b
  <2>3. Exact(Size[b], first, num, ok)
    <3>1. num >= 0
      BY <1>8 DEF Args
    <3>2. QED
      BY <1>1, <1>2, <1>3, <2>2, <3>1 DEF InArray, Exact
  <2> HIDE DEF ok
  <2>4. QED
    BY <2>1, <2>3, StoresGood
<1>9. ASSUME ArrayGetStr(first, num) PROVE GoodStep
  <2> DEFINE b == "vdi_intout"
             ok == InArray(b, first) /\ num >= 0 /\ num <= Size[b] - first
  <2>1. Reads(b, first, num, ok)
    BY <1>9 DEF ArrayGetStr
  <2>2. b \in Array
    BY DEF Array, VdiArray
  <2> HIDE DEF b
  <2>3. Exact(Size[b], first, num, ok)
    BY <1>1, <1>2, <2>2 DEF InArray, Exact
  <2> HIDE DEF ok
  <2>4. QED
    BY <2>1, <2>3, ReadsGood
<1>10. QED
  BY <1>4, <1>5, <1>6, <1>7, <1>8, <1>9
-------------------------------------------------------------------------------
(* The traps.                                                              *)

\* A trap's arguments, wherever they stand in a call that has not trapped.
LEMMA SetsControlGood ==
  ASSUME IInv, NEW c \in ControlArray,
         NEW o, NEW s, NEW i \in Nat, NEW t \in Nat, NEW d, NEW k,
         NEW before, before = CallOf(o, s, i, t, d, k),
         NEW n \in Nat, NEW index \in Nat, NEW after \in {"peek", "returned"},
         SetsControl(c, before, n, index, after),
         call.stage \in {"idle", "poke"},
         call.stage = "poke" => index > call.index,
         o = "call" \/ index + n = t,
         after = "returned" => index + n = t
  PROVE  GoodStep
<1>1. /\ watched' = watched /\ access' = NoAccess
      /\ \/ call' = CallOf(o, "raised", i, t, d, k) /\ holds' = holds
         \/ /\ n <= t - index /\ holds' = WordsSet(c, n)
            /\ \E counts : \E stage \in {"trap", after} :
                 call' = CallOf(o, stage, index + n + 1, t, c, counts)
  BY ControlSet
<1>2. ChecksAreExact'
  BY <1>1, NothingAsked
<1>3. call.index \in Nat
  BY CallIs
<1>4. CASE call' = CallOf(o, "raised", i, t, d, k) /\ holds' = holds
  <2>1. "raised" \in Stages
    BY DEF Stages
  <2>2. QED
    BY <1>1, <1>2, <1>4, <2>1, StepMade
<1>5. ASSUME n <= t - index, holds' = WordsSet(c, n),
             NEW stage \in {"trap", after}, NEW counts,
             call' = CallOf(o, stage, index + n + 1, t, c, counts)
      PROVE  GoodStep
  <2> DEFINE end == index + n + 1
  <2>1. /\ end \in Nat /\ end <= t + 1 /\ (call.stage = "poke" => end > call.index)
        /\ stage = "trap" /\ o # "call" => end = t + 1
        /\ stage = "returned" => end = t + 1
    BY <1>3, <1>5
  <2>2. stage \in Stages \ {"idle", "poke"}
    BY DEF Stages
  <2>3. Covers(c, 0, Len(ControlWords[c])) => holds' = ControlWords[c][watched.at + 1]
    BY <1>5 DEF WordsSet
  <2>4. call' = CallOf(o, stage, end, t, c, counts)
    BY <1>5
  <2> HIDE DEF end
  <2>5. stage = "returned" => end \in {t, t + 1}
    BY <2>1
  <2>6. \/ call.stage \notin {"poke", "trap", "peek"}
        \/ stage \in {"returned", "raised"} \/ end > call.index
        \/ call.stage = "trap" /\ stage = "peek"
    BY <2>1
  <2>7. stage \in Stages /\ stage # "idle" /\ stage # "poke"
    BY <2>2
  <2>8. QED
    BY <1>1, <1>2, <2>1, <2>3, <2>4, <2>5, <2>6, <2>7, StepMade
<1>6. QED
  BY <1>1, <1>4, <1>5

\* The vdi and aes methods.
LEMMA MethodsGood ==
  ASSUME IInv, NEW top \in 1..MaxTop, VDITrap_ctrl(top) \/ AESTrap_ctrl(top)
  PROVE  GoodStep
<1>1. PICK o \in {"vdi", "aes"}, c \in ControlArray :
        Idle /\ SetsControl(c, [NoCall EXCEPT !.op = o, !.top = top], top - 1, 1, "returned")
  BY DEF VDITrap_ctrl, AESTrap_ctrl, VDITrap, AESTrap, ControlArray
<1> DEFINE before == [NoCall EXCEPT !.op = o, !.top = top]
<1>2. before = CallOf(o, "idle", 1, top, "none", NoCounts)
  <2>1. before = [[NoCall EXCEPT !.op = o] EXCEPT !.top = top]
    OBVIOUS
  <2>2. [NoCall EXCEPT !.op = o] = CallOf(o, "idle", 1, 1, "none", NoCounts)
    BY NoCallIs, UpdateOp
  <2>3. [CallOf(o, "idle", 1, 1, "none", NoCounts) EXCEPT !.top = top]
          = CallOf(o, "idle", 1, top, "none", NoCounts)
    BY UpdateTop
  <2>4. QED
    BY <2>1, <2>2, <2>3
<1>3. top \in Nat /\ top - 1 \in Nat /\ 1 + (top - 1) = top
  BY BoundsAreNumbers
<1>4. call.stage = "idle" /\ SetsControl(c, before, top - 1, 1, "returned")
  BY <1>1 DEF Idle
<1> HIDE DEF before
<1>5. QED
  BY <1>2, <1>3, <1>4, SetsControlGood

\* The second stage of call.
LEMMA CallTrapGood ==
  ASSUME IInv, NEW n \in 0..MaxTop, CallTrap(n)
  PROVE  GoodStep
<1>1. PICK c \in ControlArray :
        InCall("poke") /\ SetsControl(c, call, n, call.index + 1, "peek")
  BY DEF CallTrap, VDITrap, AESTrap, ControlArray
<1>2. /\ call = CallOf(call.op, call.stage, call.index, call.top, call.control, call.counts)
      /\ call.index \in Nat /\ call.top \in Nat /\ n \in Nat
      /\ call.index + 1 \in Nat /\ call.index + 1 > call.index
  BY CallIs, BoundsAreNumbers
<1>3. call.stage = "poke" /\ call.op = "call"
  BY <1>1 DEF InCall, IInv, CallInv, IndexInside
<1>4. QED
  BY <1>1, <1>2, <1>3, SetsControlGood

\* The trap itself.
LEMMA TrapGood ==
  ASSUME IInv, Trap
  PROVE  GoodStep
<1> DEFINE stage == IF call.op = "call" THEN "peek" ELSE "returned"
<1>1. /\ call.stage = "trap" /\ UNCHANGED <<watched, access>>
      /\ call' = [call EXCEPT !.stage = stage, !.counts = NoCounts]
  BY DEF Trap
<1>2. /\ call = CallOf(call.op, call.stage, call.index, call.top, call.control, call.counts)
      /\ call.index \in Nat /\ call.top \in Nat
  BY CallIs
<1>3. /\ stage \in Stages /\ stage \in {"peek", "returned"}
      /\ stage = "returned" => call.op # "call"
  BY DEF Stages
<1> HIDE DEF stage
<1>4. call' = CallOf(call.op, stage, call.index, call.top, call.control, NoCounts)
  <2>1. call' = [[call EXCEPT !.stage = stage] EXCEPT !.counts = NoCounts]
    BY <1>1
  <2>2. [call EXCEPT !.stage = stage]
          = CallOf(call.op, stage, call.index, call.top, call.control, call.counts)
    BY <1>2, UpdateStage
  <2>3. [CallOf(call.op, stage, call.index, call.top, call.control, call.counts)
           EXCEPT !.counts = NoCounts]
          = CallOf(call.op, stage, call.index, call.top, call.control, NoCounts)
    BY UpdateCounts
  <2>4. QED
    BY <2>1, <2>2, <2>3
<1>5. call.index <= call.top + 1 /\ (call.op # "call" => call.index = call.top + 1)
  BY <1>1 DEF IInv, CallInv, IndexInside
<1>6. ChecksAreExact'
  BY <1>1 DEF IInv, ChecksAreExact
<1>7. QED
  BY <1>1, <1>2, <1>3, <1>4, <1>5, <1>6, StepMade
-------------------------------------------------------------------------------
(* The parsing of call.                                                    *)

LEMMA BeginCallGood ==
  ASSUME IInv, NEW top \in 1..MaxTop, BeginCall(top)
  PROVE  GoodStep
<1>1. /\ call.stage = "idle" /\ UNCHANGED <<watched, holds, access>>
      /\ call' = [NoCall EXCEPT !.op = "call", !.stage = "poke", !.index = 2, !.top = top]
  BY DEF BeginCall, Idle
<1>2. call' = CallOf("call", "poke", 2, top, "none", NoCounts)
  <2>1. call' = [[[[NoCall EXCEPT !.op = "call"] EXCEPT !.stage = "poke"]
                    EXCEPT !.index = 2] EXCEPT !.top = top]
    BY <1>1
  <2>2. [NoCall EXCEPT !.op = "call"] = CallOf("call", "idle", 1, 1, "none", NoCounts)
    BY NoCallIs, UpdateOp
  <2>3. [CallOf("call", "idle", 1, 1, "none", NoCounts) EXCEPT !.stage = "poke"]
          = CallOf("call", "poke", 1, 1, "none", NoCounts)
    BY UpdateStage
  <2>4. [CallOf("call", "poke", 1, 1, "none", NoCounts) EXCEPT !.index = 2]
          = CallOf("call", "poke", 2, 1, "none", NoCounts)
    BY UpdateIndex
  <2>5. [CallOf("call", "poke", 2, 1, "none", NoCounts) EXCEPT !.top = top]
          = CallOf("call", "poke", 2, top, "none", NoCounts)
    BY UpdateTop
  <2>6. QED
    BY <2>1, <2>2, <2>3, <2>4, <2>5
<1>3. top \in Nat /\ 2 <= top + 1
  BY BoundsAreNumbers
<1>4. "poke" \in Stages /\ 2 \in Nat
  BY DEF Stages
<1>5. ChecksAreExact'
  BY <1>1 DEF IInv, ChecksAreExact
<1>6. QED
  BY <1>1, <1>2, <1>3, <1>4, <1>5, StepMade

\* An error ends the call.
LEMMA RaisedGood ==
  ASSUME IInv, call' = Raised(call), UNCHANGED <<watched, holds>>, ChecksAreExact'
  PROVE  GoodStep
<1>1. /\ call = CallOf(call.op, call.stage, call.index, call.top, call.control, call.counts)
      /\ call.index \in Nat /\ call.top \in Nat
  BY CallIs
<1>2. call' = CallOf(call.op, "raised", call.index, call.top, call.control, call.counts)
  BY <1>1, UpdateStage DEF Raised
<1>3. "raised" \in Stages
  BY DEF Stages
<1>4. QED
  BY <1>1, <1>2, <1>3, StepMade

LEMMA BadArgumentGood ==
  ASSUME IInv, BadArgument
  PROVE  GoodStep
<1>1. ChecksAreExact'
  BY DEF BadArgument, IInv, ChecksAreExact
<1>2. QED
  BY <1>1, RaisedGood DEF BadArgument

LEMMA PokeRunGood ==
  ASSUME IInv, NEW a \in Array, NEW offset \in Args, NEW numval \in Args, NEW n \in Args,
         PokeRun(a, offset, numval, n)
  PROVE  GoodStep
<1> DEFINE ok == offset + numval <= Size[a]
           span == call.index + 1
<1>1. /\ call.stage = "poke" /\ n <= numval /\ watched' = watched
      /\ IF ok /\ numval <= call.top - span
         THEN /\ access' = Part(a, offset, numval, TRUE)
              /\ holds' = IF Covers(a, offset, n) THEN "script" ELSE holds
              /\ call' = IF n = numval
                         THEN [call EXCEPT !.index = span + numval + 1]
                         ELSE Raised(call)
         ELSE /\ access' = IF ok THEN access ELSE Part(a, offset, numval, FALSE)
              /\ call' = Raised(call)
              /\ UNCHANGED holds
  BY DEF PokeRun, InCall
<1>2. /\ call = CallOf(call.op, call.stage, call.index, call.top, call.control, call.counts)
      /\ call.index \in Nat /\ call.top \in Nat
  BY CallIs
<1>3. offset \in Nat /\ numval \in Nat /\ Size[a] \in Nat
  BY ArraySizes, BoundsAreNumbers DEF Args
<1>4. call.op = "call" /\ call.control = "none"
  BY <1>1 DEF IInv, CallInv, IndexInside, NoControlYet
<1>5. Raised(call)
        = CallOf(call.op, "raised", call.index, call.top, call.control, call.counts)
  BY <1>2, UpdateStage DEF Raised
<1>6. "raised" \in Stages /\ "poke" \in Stages
  BY DEF Stages
<1>7. ASSUME ok, numval <= call.top - span
      PROVE  GoodStep
  <2>1. access' = Part(a, offset, numval, TRUE)
    BY <1>1, <1>7
  <2>2. ChecksAreExact'
    <3>1. Exact(Size[a], offset, numval, TRUE)
      BY <1>3, <1>7 DEF Exact
    <3>2. QED
      BY <2>1, <3>1, PartChecked
  <2>3. CASE n = numval
    <3> DEFINE end == span + numval + 1
    <3>1. end \in Nat /\ end <= call.top + 1 /\ end > call.index
      BY <1>2, <1>3, <1>7
    <3>2. call' = [call EXCEPT !.index = end]
      BY <1>1, <1>7, <2>3
    <3> HIDE DEF end
    <3>3. call' = CallOf(call.op, call.stage, end, call.top, call.control, call.counts)
      BY <1>2, <3>2, UpdateIndex
    <3>4. call' = CallOf("call", "poke", end, call.top, "none", call.counts)
      BY <1>1, <1>4, <3>3
    <3>5. QED
      BY <1>1, <1>2, <1>6, <2>2, <3>1, <3>4, StepMade
  <2>4. CASE n # numval
    <3>1. call' = Raised(call)
      BY <1>1, <1>7, <2>4
    <3>2. QED
      BY <1>1, <1>2, <1>5, <1>6, <2>2, <3>1, StepMade
  <2>5. QED
    BY <2>3, <2>4
<1>8. ASSUME ~(ok /\ numval <= call.top - span)
      PROVE  GoodStep
  <2>1. /\ access' = IF ok THEN access ELSE Part(a, offset, numval, FALSE)
        /\ call' = Raised(call) /\ UNCHANGED <<watched, holds>>
    BY <1>1, <1>8
  <2>2. ChecksAreExact'
    <3>1. CASE ok
      BY <2>1, <3>1 DEF IInv, ChecksAreExact
    <3>2. CASE ~ok
      <4>1. Exact(Size[a], offset, numval, FALSE)
        BY <1>3, <3>2 DEF Exact
      <4>2. QED
        BY <2>1, <3>2, <4>1, PartChecked
    <3>3. QED
      BY <3>1, <3>2
  <2>3. QED
    BY <2>1, <2>2, RaisedGood
<1>9. QED
  BY <1>7, <1>8

LEMMA PeekRunGood ==
  ASSUME IInv, NEW a \in Array, NEW offset \in Args, NEW numval \in Args,
         PeekRun(a, offset, numval)
  PROVE  GoodStep
<1> DEFINE ok == offset + numval <= Size[a]
<1>1. /\ call.stage = "peek" /\ call.index <= call.top - 1 /\ UNCHANGED <<watched, holds>>
      /\ access' = Part(a, offset, numval, ok)
      /\ call' = IF ok THEN [call EXCEPT !.index = call.index + 2] ELSE Raised(call)
  BY DEF PeekRun, InCall
<1>2. /\ call = CallOf(call.op, call.stage, call.index, call.top, call.control, call.counts)
      /\ call.index \in Nat /\ call.top \in Nat
  BY CallIs
<1>3. offset \in Nat /\ numval \in Nat /\ Size[a] \in Nat
  BY ArraySizes, BoundsAreNumbers DEF Args
<1>4. ChecksAreExact'
  <2>1. Exact(Size[a], offset, numval, ok)
    BY <1>3 DEF Exact
  <2> HIDE DEF ok
  <2>2. QED
    BY <1>1, <2>1, PartChecked
<1>5. CASE ok
  <2> DEFINE end == call.index + 2
  <2>1. end \in Nat /\ end <= call.top + 1 /\ end > call.index
    BY <1>1, <1>2
  <2>2. call' = [call EXCEPT !.index = end]
    BY <1>1, <1>5
  <2> HIDE DEF end
  <2>3. call' = CallOf(call.op, call.stage, end, call.top, call.control, call.counts)
    BY <1>2, <2>2, UpdateIndex
  <2>4. call' = CallOf(call.op, "peek", end, call.top, call.control, call.counts)
    BY <1>1, <2>3
  <2>5. "peek" \in Stages
    BY DEF Stages
  <2>6. QED
    BY <1>1, <1>2, <1>4, <2>1, <2>4, <2>5, StepMade
<1>6. CASE ~ok
  <2>1. call' = Raised(call)
    BY <1>1, <1>6
  <2>2. QED
    BY <1>1, <1>4, <2>1, RaisedGood
<1>7. QED
  BY <1>5, <1>6

LEMMA CallReturnsGood ==
  ASSUME IInv, CallReturns
  PROVE  GoodStep
<1>1. /\ call.stage \in {"poke", "peek"} /\ ~(call.index <= call.top - 1)
      /\ call' = [call EXCEPT !.stage = "returned"] /\ UNCHANGED <<watched, holds, access>>
  BY DEF CallReturns, InCall
<1>2. /\ call = CallOf(call.op, call.stage, call.index, call.top, call.control, call.counts)
      /\ call.index \in Nat /\ call.top \in Nat
  BY CallIs
<1>3. call' = CallOf(call.op, "returned", call.index, call.top, call.control, call.counts)
  BY <1>1, <1>2, UpdateStage
<1>4. call.index <= call.top + 1
  BY <1>1 DEF IInv, CallInv, IndexInside
<1>5. call.index \in {call.top, call.top + 1}
  BY <1>1, <1>2, <1>4
<1>6. "returned" \in Stages
  BY DEF Stages
<1>7. ChecksAreExact'
  BY <1>1 DEF IInv, ChecksAreExact
<1>8. QED
  BY <1>1, <1>2, <1>3, <1>5, <1>6, <1>7, StepMade

LEMMA ResumesGood ==
  ASSUME IInv, Resumes
  PROVE  GoodStep
<1>1. /\ call.stage \in {"returned", "raised"} /\ access' = NoAccess
      /\ call' = CallOf("none", "idle", 1, 1, "none", NoCounts) /\ UNCHANGED <<watched, holds>>
  BY NoCallIs DEF Resumes, Ended
<1>2. "idle" \in Stages
  BY DEF Stages
<1>3. QED
  BY <1>1, <1>2, NothingAsked, StepMade
-------------------------------------------------------------------------------
(* The theorems.                                                           *)

LEMMA InitInv == Init => IInv
<1> SUFFICES ASSUME Init PROVE IInv
  OBVIOUS
<1>1. /\ call = CallOf("none", "idle", 1, 1, "none", NoCounts) /\ access = NoAccess
  BY NoCallIs DEF Init
<1>2. /\ call.op = "none" /\ call.stage = "idle" /\ call.index = 1 /\ call.top = 1
      /\ call.control = "none" /\ call.counts = NoCounts
  BY <1>1, Fields
<1>3. CallTyped
  BY <1>1, <1>2 DEF CallTyped, Stages
<1>4. NoControlYet /\ IndexInside /\ ArgumentsAreUsed /\ TrapSeesItsArguments
  BY <1>2 DEF NoControlYet, IndexInside, ArgumentsAreUsed, TrapSeesItsArguments
<1>5. ChecksAreExact
  BY <1>1 DEF ChecksAreExact, NoAccess
<1>6. QED
  BY <1>3, <1>4, <1>5 DEF IInv, CallInv

LEMMA NextGood ==
  ASSUME SumsFit, IInv, Next
  PROVE  GoodStep
<1>1. CASE Call
  BY <1>1, BadArgumentGood, TrapGood, CallReturnsGood, ResumesGood, PeekRunGood, PokeRunGood,
     CallTrapGood DEF Call
<1>2. CASE Script
  <2>1. ASSUME NEW a \in Array, NEW first \in (-1)..MaxArg, NEW num \in (-1)..MaxArg,
               \/ \E n \in Args : ArraySet(a, first, num, n) \/ ArrayPoke(a, first, num, n)
               \/ \E given \in BOOLEAN : ArrayGet(a, first, given, num)
               \/ ArrayPeek(a, first, num)
        PROVE  GoodStep
    BY <2>1, ArrayFunctionsGood
  <2>2. ASSUME NEW first \in (-1)..MaxArg,
               \/ \E len \in Args : ArraySetStr(first, len)
               \/ \E count \in (-1)..MaxArg : ArrayGetStr(first, count)
        PROVE  GoodStep
    <3>1. "vdi_intin" \in Array
      BY DEF Array, VdiArray
    <3>2. Args \subseteq (-1)..MaxArg
      BY BoundsAreNumbers DEF Args
    <3>3. ASSUME NEW num \in (-1)..MaxArg,
                 (num \in Args /\ ArraySetStr(first, num)) \/ ArrayGetStr(first, num)
          PROVE  GoodStep
      BY <3>1, <3>3, ArrayFunctionsGood
    <3>4. QED
      BY <2>2, <3>2, <3>3
  <2>3. ASSUME NEW top \in 1..MaxTop,
               BeginCall(top) \/ VDITrap_ctrl(top) \/ AESTrap_ctrl(top)
        PROVE  GoodStep
    BY <2>3, BeginCallGood, MethodsGood
  <2>4. QED
    BY <1>2, <2>1, <2>2, <2>3 DEF Script
<1>3. QED
  BY <1>1, <1>2 DEF Next

LEMMA StutterInv ==
  ASSUME IInv, UNCHANGED vars
  PROVE  IInv'
<1>1. UNCHANGED <<watched, holds, access, call>>
  BY DEF vars
<1>2. CallInv'
  BY <1>1 DEF IInv, CallInv, CallTyped, NoControlYet, IndexInside, ArgumentsAreUsed
<1>3. (ChecksAreExact /\ TrapSeesItsArguments)'
  BY <1>1 DEF IInv, ChecksAreExact, TrapSeesItsArguments, Covers
<1>4. QED
  BY <1>2, <1>3 DEF IInv

LEMMA SpecInv ==
  ASSUME SumsFit
  PROVE  Spec => []IInv
<1>1. IInv /\ [Next]_vars => IInv'
  BY NextGood, StutterInv DEF GoodStep
<1>2. QED
  BY <1>1, InitInv, PTL DEF Spec

\* The array functions and the runs of call refuse every access that would touch
\* a word beside an array, negative numbers of values included, and no other, for
\* arrays of any size; only no words at the very end are refused by some.
THEOREM ChecksAlwaysExact ==
  ASSUME SumsFit
  PROVE  Spec => []ChecksAreExact
<1>1. IInv => ChecksAreExact
  BY DEF IInv
<1>2. QED
  BY <1>1, SpecInv, PTL

\* A trap finds in its control array what its own arguments say, whatever
\* earlier calls, pokes and answers left there.
THEOREM TrapAlwaysSeesItsArguments ==
  ASSUME SumsFit
  PROVE  Spec => []TrapSeesItsArguments
<1>1. IInv => TrapSeesItsArguments
  BY DEF IInv
<1>2. QED
  BY <1>1, SpecInv, PTL

\* However long the argument list, a call that returns has read all of it but
\* perhaps a last argument without a span.
THEOREM ArgumentsAlwaysUsed ==
  ASSUME SumsFit
  PROVE  Spec => []ArgumentsAreUsed
<1>1. IInv => ArgumentsAreUsed
  BY DEF IInv, CallInv
<1>2. QED
  BY <1>1, SpecInv, PTL

\* After the control array is set only the trap changes the block.
THEOREM ResultsAlwaysTheTraps ==
  ASSUME SumsFit
  PROVE  Spec => ResultsAreTheTraps
<1>1. IInv /\ [Next]_vars =>
        [~Ended /\ call.control # "none" /\ call.stage # "trap" => holds' = holds]_vars
  BY NextGood DEF GoodStep, KeepsResults
<1>2. QED
  BY <1>1, SpecInv, PTL DEF Spec, ResultsAreTheTraps

\* Every step of a call brings it nearer its end.
THEOREM ParsingAlwaysAdvances ==
  ASSUME SumsFit
  PROVE  Spec => ParsingAdvances
<1>1. IInv /\ [Next]_vars =>
        [call.stage \in {"poke", "trap", "peek"} =>
           \/ Ended'
           \/ call'.index > call.index
           \/ call.stage = "trap" /\ call'.stage = "peek"]_vars
  BY NextGood DEF GoodStep, Advances
<1>2. QED
  BY <1>1, SpecInv, PTL DEF Spec, ParsingAdvances
-------------------------------------------------------------------------------
(* The counts given to a trap.                                             *)

\* No count is negative, and the arrays counted are no longer than a short
\* tells.  Beyond this a trap may be told of words its arrays do not have.
CountsAreShorts ==
  /\ MaxNegative = 0
  /\ \A c \in ControlArray : \A a \in DOMAIN Counts[c] : Size[a] <= ShortMax

LEMMA CountsKept ==
  ASSUME CountsFit, call'.counts = call.counts \/ call'.counts = NoCounts
  PROVE  CountsFit'
<1>1. CASE call'.counts = call.counts
  BY <1>1 DEF CountsFit
<1>2. CASE call'.counts = NoCounts
  <2>1. DOMAIN NoCounts = {}
    BY DEF NoCounts
  <2>2. QED
    BY <1>2, <2>1 DEF CountsFit
<1>3. QED
  BY <1>1, <1>2

\* The arrays counted are arrays.
LEMMA Counted ==
  ASSUME NEW c \in ControlArray, NEW a \in DOMAIN Counts[c]
  PROVE  a \in Array
<1>1. CASE c = "vdi_control"
  <2>1. Counts[c] = [vdi_intin |-> 4, vdi_ptsin |-> 5]
    BY <1>1 DEF Counts
  <2>2. QED
    BY <2>1 DEF Array, VdiArray
<1>2. CASE c = "aes_control"
  <2>1. Counts[c] = [aes_intin |-> 2, aes_intout |-> 3, aes_addrin |-> 4, aes_addrout |-> 5]
    BY <1>2 DEF Counts
  <2>2. QED
    BY <2>1 DEF Array, AesArray
<1>3. QED
  BY <1>1, <1>2 DEF ControlArray

\* Counts that are not too many are told as they are.
LEMMA GivenFit ==
  ASSUME CountsAreShorts, NEW c \in ControlArray, NEW n, NEW f \in CountsGiven(c, n),
         ~TooMany(f), NEW a \in DOMAIN f
  PROVE  Truncated(f[a], ShortMax) * Unit(a) \in 0..Size[a]
<1>1. DOMAIN f = DOMAIN Counts[c] /\ f[a] \in (-MaxNegative)..MaxArg
  BY DEF CountsGiven
<1>2. a \in Array /\ Size[a] \in Nat /\ Size[a] <= ShortMax /\ ShortMax \in Nat
  BY <1>1, Counted, ArraySizes, ArraysHaveSizes DEF CountsAreShorts
<1>3. f[a] \in Nat
  BY <1>1, BoundsAreNumbers DEF CountsAreShorts
<1>4. ~(f[a] > Size[a] \div Unit(a))
  BY DEF TooMany
<1>5. CASE Unit(a) = 1
  <2>1. f[a] <= Size[a]
    BY <1>2, <1>3, <1>4, <1>5
  <2>2. Truncated(f[a], ShortMax) = f[a]
    BY <1>2, <1>3, <2>1, TruncatedFits
  <2>3. QED
    BY <1>2, <1>3, <1>5, <2>1, <2>2
<1>6. CASE Unit(a) = 2
  <2>1. 2 * f[a] <= Size[a]
    BY <1>2, <1>3, <1>4, <1>6
  <2>2. f[a] <= ShortMax
    BY <1>2, <1>3, <2>1
  <2>3. Truncated(f[a], ShortMax) = f[a]
    BY <1>2, <1>3, <2>2, TruncatedFits
  <2>4. QED
    BY <1>2, <1>3, <1>6, <2>1, <2>3
<1>7. QED
  BY <1>5, <1>6 DEF Unit

\* A call whose arguments go into a control array.
LEMMA SetsControlCounts ==
  ASSUME CountsAreShorts, CountsFit, NEW c \in ControlArray,
         NEW o, NEW s, NEW i, NEW t, NEW d, NEW k,
         NEW before, before = CallOf(o, s, i, t, d, k), k = NoCounts \/ k = call.counts,
         NEW n, NEW index, NEW after,
         SetsControl(c, before, n, index, after)
  PROVE  CountsFit'
<1>1. CASE call' = Raised(before)
  <2>1. call' = CallOf(o, "raised", i, t, d, k)
    BY <1>1, UpdateStage DEF Raised
  <2>2. QED
    BY <2>1, Fields, CountsKept
<1>2. CASE call' # Raised(before)
  <2>1. PICK f \in CountsGiven(c, n), opcode \in {0, 1} :
           /\ ~TooMany(f)
           /\ call' = [before EXCEPT
                !.control = c,
                !.index = index + n + 1,
                !.stage = IF opcode > 0 THEN "trap" ELSE after,
                !.counts = IF opcode > 0
                           THEN [a \in DOMAIN f |-> Truncated(f[a], ShortMax)]
                           ELSE NoCounts]
    BY <1>2 DEF SetsControl
  <2> DEFINE told == [a \in DOMAIN f |-> Truncated(f[a], ShortMax)]
             counts == IF opcode > 0 THEN told ELSE NoCounts
             stage == IF opcode > 0 THEN "trap" ELSE after
  <2>2. call'.counts = counts
    <3>1. call' = [before EXCEPT !.control = c, !.index = index + n + 1, !.stage = stage,
                                 !.counts = counts]
      BY <2>1
    <3> HIDE DEF counts, stage
    <3>2. call' = [[[[before EXCEPT !.control = c] EXCEPT !.index = index + n + 1]
                      EXCEPT !.stage = stage] EXCEPT !.counts = counts]
      BY <3>1
    <3>3. [before EXCEPT !.control = c] = CallOf(o, s, i, t, c, k)
      BY UpdateControl
    <3>4. [CallOf(o, s, i, t, c, k) EXCEPT !.index = index + n + 1]
            = CallOf(o, s, index + n + 1, t, c, k)
      BY UpdateIndex
    <3>5. [CallOf(o, s, index + n + 1, t, c, k) EXCEPT !.stage = stage]
            = CallOf(o, stage, index + n + 1, t, c, k)
      BY UpdateStage
    <3>6. [CallOf(o, stage, index + n + 1, t, c, k) EXCEPT !.counts = counts]
            = CallOf(o, stage, index + n + 1, t, c, counts)
      BY UpdateCounts
    <3>7. QED
      BY <3>2, <3>3, <3>4, <3>5, <3>6, Fields
  <2>3. CASE opcode > 0
    <3>1. call'.counts = told
      BY <2>2, <2>3
    <3>2. \A a \in DOMAIN f : told[a] * Unit(a) \in 0..Size[a]
      BY <2>1, GivenFit
    <3>3. DOMAIN told = DOMAIN f
      OBVIOUS
    <3> HIDE DEF told
    <3>4. QED
      BY <3>1, <3>2, <3>3 DEF CountsFit
  <2>4. CASE ~(opcode > 0)
    BY <2>2, <2>4, CountsKept
  <2>5. QED
    BY <2>3, <2>4
<1>3. QED
  BY <1>1, <1>2

\* No other step tells a trap anything.
LEMMA NextCounts ==
  ASSUME CountsAreShorts, CountsFit, IInv, Next
  PROVE  CountsFit'
<1>1. /\ call = CallOf(call.op, call.stage, call.index, call.top, call.control, call.counts)
      /\ call.index \in Nat /\ call.top \in Nat
  BY CallIs
<1>2. Raised(call)
        = CallOf(call.op, "raised", call.index, call.top, call.control, call.counts)
  BY <1>1, UpdateStage DEF Raised
<1>3. ASSUME call' = Raised(call) PROVE CountsFit'
  BY <1>2, <1>3, Fields, CountsKept
<1>4. ASSUME call' = AtOnce PROVE CountsFit'
  <2>1. AtOnce = CallOf("none", "returned", 1, 1, "none", NoCounts)
    BY NoCallIs, UpdateStage DEF AtOnce
  <2>2. QED
    BY <1>4, <2>1, Fields, CountsKept
<1>5. ASSUME NEW i, call' = [call EXCEPT !.index = i] PROVE CountsFit'
  <2>1. call' = CallOf(call.op, call.stage, i, call.top, call.control, call.counts)
    BY <1>1, <1>5, UpdateIndex
  <2>2. QED
    BY <2>1, Fields, CountsKept
<1>6. CASE BadArgument
  BY <1>3, <1>6 DEF BadArgument
<1>7. CASE Trap
  <2> DEFINE stage == IF call.op = "call" THEN "peek" ELSE "returned"
  <2>1. call' = [call EXCEPT !.stage = stage, !.counts = NoCounts]
    BY <1>7 DEF Trap
  <2> HIDE DEF stage
  <2>2. call' = [[call EXCEPT !.stage = stage] EXCEPT !.counts = NoCounts]
    BY <2>1
  <2>3. [call EXCEPT !.stage = stage]
          = CallOf(call.op, stage, call.index, call.top, call.control, call.counts)
    BY <1>1, UpdateStage
  <2>4. [CallOf(call.op, stage, call.index, call.top, call.control, call.counts)
           EXCEPT !.counts = NoCounts]
          = CallOf(call.op, stage, call.index, call.top, call.control, NoCounts)
    BY UpdateCounts
  <2>5. QED
    BY <2>2, <2>3, <2>4, Fields, CountsKept
<1>8. CASE CallReturns
  <2>1. call' = CallOf(call.op, "returned", call.index, call.top, call.control, call.counts)
    BY <1>1, <1>8, UpdateStage DEF CallReturns
  <2>2. QED
    BY <2>1, Fields, CountsKept
<1>9. CASE Resumes
  <2>1. call' = CallOf("none", "idle", 1, 1, "none", NoCounts)
    BY <1>9, NoCallIs DEF Resumes
  <2>2. QED
    BY <2>1, Fields, CountsKept
<1>10. ASSUME NEW a \in Array, NEW offset \in Args, NEW numval \in Args,
              \/ PeekRun(a, offset, numval)
              \/ \E n \in Args : PokeRun(a, offset, numval, n)
       PROVE  CountsFit'
  <2>1. call' = Raised(call) \/ \E i : call' = [call EXCEPT !.index = i]
    BY <1>10 DEF PeekRun, PokeRun
  <2>2. QED
    BY <1>3, <1>5, <2>1
<1>11. ASSUME NEW n \in 0..MaxTop, CallTrap(n) PROVE CountsFit'
  <2>1. PICK c \in ControlArray : SetsControl(c, call, n, call.index + 1, "peek")
    BY <1>11 DEF CallTrap, VDITrap, AESTrap, ControlArray
  <2>2. QED
    BY <1>1, <2>1, SetsControlCounts
<1>12. ASSUME NEW a, NEW first, NEW num, NEW n, NEW ok,
              Reads(a, first, num, ok) \/ Stores(a, first, num, n, ok)
       PROVE  CountsFit'
  BY <1>4, <1>12 DEF Reads, Stores
<1>13. ASSUME NEW a \in Array, NEW first \in (-1)..MaxArg, NEW num \in (-1)..MaxArg,
              \/ \E n \in Args : ArraySet(a, first, num, n) \/ ArrayPoke(a, first, num, n)
              \/ \E given \in BOOLEAN : ArrayGet(a, first, given, num)
              \/ ArrayPeek(a, first, num)
       PROVE  CountsFit'
  BY <1>12, <1>13 DEF ArraySet, ArrayPoke, ArrayGet, ArrayPeek
<1>14. ASSUME NEW first \in (-1)..MaxArg,
              \/ \E len \in Args : ArraySetStr(first, len)
              \/ \E count \in (-1)..MaxArg : ArrayGetStr(first, count)
       PROVE  CountsFit'
  BY <1>12, <1>14 DEF ArraySetStr, ArrayGetStr
<1>15. ASSUME NEW top \in 1..MaxTop, BeginCall(top) PROVE CountsFit'
  <2>1. call' = [NoCall EXCEPT !.op = "call", !.stage = "poke", !.index = 2, !.top = top]
    BY <1>15 DEF BeginCall
  <2>2. call'.counts = NoCounts
    BY <2>1 DEF NoCall
  <2>3. QED
    BY <2>2, CountsKept
<1>16. ASSUME NEW top \in 1..MaxTop, VDITrap_ctrl(top) \/ AESTrap_ctrl(top)
       PROVE  CountsFit'
  <2>1. PICK o \in {"vdi", "aes"}, c \in ControlArray :
          SetsControl(c, [NoCall EXCEPT !.op = o, !.top = top], top - 1, 1, "returned")
    BY <1>16 DEF VDITrap_ctrl, AESTrap_ctrl, VDITrap, AESTrap, ControlArray
  <2>2. [NoCall EXCEPT !.op = o, !.top = top]
          = [[NoCall EXCEPT !.op = o] EXCEPT !.top = top]
    OBVIOUS
  <2>3. [NoCall EXCEPT !.op = o] = CallOf(o, "idle", 1, 1, "none", NoCounts)
    BY NoCallIs, UpdateOp
  <2>4. [CallOf(o, "idle", 1, 1, "none", NoCounts) EXCEPT !.top = top]
          = CallOf(o, "idle", 1, top, "none", NoCounts)
    BY UpdateTop
  <2>5. SetsControl(c, CallOf(o, "idle", 1, top, "none", NoCounts), top - 1, 1, "returned")
    BY <2>1, <2>2, <2>3, <2>4
  <2>6. QED
    BY <2>5, SetsControlCounts
<1>17. CASE Call
  BY <1>6, <1>7, <1>8, <1>9, <1>10, <1>11, <1>17 DEF Call
<1>18. CASE Script
  BY <1>13, <1>14, <1>15, <1>16, <1>18 DEF Script
<1>19. QED
  BY <1>17, <1>18 DEF Next

\* Unless a count is negative, a trap is told of no more words than its arrays
\* have and of no fewer than none: gempb_counts shows the only way out.
THEOREM CountsFitUnlessNegative ==
  ASSUME SumsFit, CountsAreShorts
  PROVE  Spec => []CountsFit
<1>1. Init => CountsFit
  <2>1. DOMAIN NoCounts = {} /\ NoCall.counts = NoCounts
    BY NoCallIs, Fields DEF NoCounts
  <2>2. QED
    BY <2>1 DEF Init, CountsFit
<1>2. IInv /\ CountsFit /\ [Next]_vars => CountsFit'
  <2>1. CountsFit /\ UNCHANGED vars => CountsFit'
    BY DEF CountsFit, vars
  <2>2. QED
    BY <2>1, NextCounts
<1>3. QED
  BY <1>1, <1>2, SpecInv, PTL DEF Spec
===============================================================================
