------------------------ MODULE ProcessAndTime_proofs -------------------------
(***************************************************************************)
(* Proofs about the components that make one call or none: what Pexec0     *)
(* hands to a child and what the child reads, for environments and         *)
(* arguments of any number and length; what getenv finds; and the dates and*)
(* times of the clock and of files, for any that a script passes.          *)
(*                                                                         *)
(* What is said of strings of any number is shown by induction.  The proof *)
(* system cannot instantiate the induction theorems of its library, whose  *)
(* parameter is an operator; that a set of numbers has a least element,    *)
(* which has none, takes their place (HasLeast, Reaches).                  *)
(***************************************************************************)
EXTENDS ProcessEnvironment, Timestamps, FiniteSetTheorems, SequenceTheorems,
        WellFoundedInduction, TLAPS
-------------------------------------------------------------------------------
(* Induction over numbers.                                                 *)

\* A set of numbers has a least one.
LEMMA HasLeast ==
  ASSUME NEW S \in SUBSET Nat, S # {}
  PROVE  \E n \in S : \A m \in S : n <= m
<1>1. PICK n \in S : \A m \in S : <<m, n>> \notin OpToRel(<, Nat)
  BY WFMin, NatLessThanWellFounded
<1>2. ASSUME NEW m \in S PROVE n <= m
  <2>1. m \in Nat /\ n \in Nat
    OBVIOUS
  <2>2. <<m, n>> \notin OpToRel(<, Nat)
    BY <1>1
  <2>3. ~(m < n)
    BY <2>1, <2>2, Zenon DEF OpToRel
  <2>4. QED
    BY <2>1, <2>3
<1>3. QED
  BY <1>2

\* The induction this is used for, over the numbers up to n.
LEMMA Reaches ==
  ASSUME NEW n \in Nat, NEW S, 0 \in S,
         \A k \in 0..n : k < n /\ k \in S => k + 1 \in S
  PROVE  \A k \in 0..n : k \in S
<1> DEFINE missing == {k \in 0..n : k \notin S}
<1> SUFFICES ASSUME missing # {} PROVE FALSE
  OBVIOUS
<1>1. PICK m \in missing : \A k \in missing : m <= k
  <2>1. missing \in SUBSET Nat
    OBVIOUS
  <2>2. QED
    BY <2>1, HasLeast
<1>2. m \in 0..n /\ m \notin S /\ m # 0
  OBVIOUS
<1>3. m - 1 \in 0..n /\ m - 1 < n /\ (m - 1) + 1 = m
  BY <1>2
<1>4. m - 1 \notin missing
  BY <1>1, <1>2, <1>3
<1>5. QED
  BY <1>2, <1>3, <1>4

\* The greatest number up to n with a property that 0 has.
LEMMA HasGreatest ==
  ASSUME NEW n \in Nat, NEW S, 0 \in S
  PROVE  \E m \in 0..n : m \in S /\ \A k \in 0..n : k \in S => k <= m
<1> DEFINE bounds == {m \in Nat : \A k \in 0..n : k \in S => k <= m}
<1>1. n \in bounds
  OBVIOUS
<1>2. PICK m \in bounds : \A k \in bounds : m <= k
  BY <1>1, HasLeast
<1>3. m \in 0..n
  BY <1>1, <1>2
<1>4. m \in S
  <2> SUFFICES ASSUME m \notin S PROVE FALSE
    OBVIOUS
  <2>1. m - 1 \in Nat
    BY <1>3
  <2>2. m - 1 \in bounds
    BY <1>3, <2>1
  <2>3. QED
    BY <1>2, <1>3, <2>2
<1>5. QED
  BY <1>3, <1>4
-------------------------------------------------------------------------------
(* Parts of sequences.                                                     *)

\* A part of a sequence.
LEMMA PartOf ==
  ASSUME NEW T, NEW s, NEW a \in Nat, NEW l \in Nat, \A i \in 1..l : s[a + i] \in T
  PROVE  /\ SubSeq(s, a + 1, a + l) \in Seq(T) /\ Len(SubSeq(s, a + 1, a + l)) = l
         /\ \A i \in 1..l : SubSeq(s, a + 1, a + l)[i] = s[a + i]
<1> DEFINE part == SubSeq(s, a + 1, a + l)
<1>1. /\ a + 1 \in Int /\ a + l \in Int /\ (a + l) - (a + 1) + 1 = l
      /\ (IF a + 1 <= a + l THEN l ELSE 0) = l
      /\ \A i \in 1..l : (a + 1) + i - 1 = a + i
  OBVIOUS
<1>2. \A i \in (a + 1)..(a + l) : s[i] \in T
  <2>1. \A i \in (a + 1)..(a + l) : i - a \in 1..l /\ a + (i - a) = i
    OBVIOUS
  <2>2. QED
    BY <2>1
<1>3. /\ part \in Seq(T)
      /\ Len(part) = IF a + 1 <= a + l THEN (a + l) - (a + 1) + 1 ELSE 0
      /\ \A i \in 1..((a + l) - (a + 1) + 1) : part[i] = s[(a + 1) + i - 1]
  BY <1>1, <1>2, SubSeqProperties
<1> HIDE DEF part
<1>4. QED
  BY <1>1, <1>3 DEF part

\* Its beginning.
LEMMA FrontOf ==
  ASSUME NEW T, NEW s, NEW l \in Nat, \A i \in 1..l : s[i] \in T
  PROVE  /\ SubSeq(s, 1, l) \in Seq(T) /\ Len(SubSeq(s, 1, l)) = l
         /\ \A i \in 1..l : SubSeq(s, 1, l)[i] = s[i]
<1>1. 0 \in Nat /\ 0 + 1 = 1 /\ 0 + l = l /\ \A i \in 1..l : 0 + i = i
  OBVIOUS
<1>2. \A i \in 1..l : s[0 + i] \in T
  BY <1>1
<1>3. /\ SubSeq(s, 0 + 1, 0 + l) \in Seq(T) /\ Len(SubSeq(s, 0 + 1, 0 + l)) = l
      /\ \A i \in 1..l : SubSeq(s, 0 + 1, 0 + l)[i] = s[0 + i]
  BY <1>1, <1>2, PartOf
<1>4. QED
  BY <1>1, <1>3

\* A piece is the string that lies there.
LEMMA PieceIs ==
  ASSUME NEW bytes \in Seq(Byte), NEW s \in Seq(Byte), NEW a \in Nat, NEW l \in Nat,
         l <= Len(s), a + l <= Len(bytes), \A i \in 1..l : bytes[a + i] = s[i]
  PROVE  SubSeq(bytes, a + 1, a + l) = SubSeq(s, 1, l)
<1> DEFINE part == SubSeq(bytes, a + 1, a + l)
           front == SubSeq(s, 1, l)
<1>1. PICK m \in Nat, n \in Nat : m = Len(bytes) /\ n = Len(s)
  OBVIOUS
<1>2. /\ part \in Seq(Byte) /\ Len(part) = l
      /\ \A i \in 1..l : part[i] = bytes[a + i]
  <2>1. \A i \in 1..l : bytes[a + i] \in Byte
    BY <1>1
  <2>2. QED
    BY <2>1, PartOf
<1>3. /\ front \in Seq(Byte) /\ Len(front) = l
      /\ \A i \in 1..l : front[i] = s[i]
  <2>1. \A i \in 1..l : s[i] \in Byte
    BY <1>1
  <2>2. QED
    BY <2>1, FrontOf
<1> HIDE DEF part, front
<1>4. part = front
  <2>1. Len(part) = Len(front) /\ \A i \in 1..Len(part) : part[i] = front[i]
    BY <1>2, <1>3
  <2>2. QED
    BY <1>2, <1>3, <2>1, SeqEqual
<1>5. QED
  BY <1>4 DEF part, front
-------------------------------------------------------------------------------
(* Joining strings: what FlattenSeq gives, string by string.               *)

\* f[k] is what the first k strings are joined to, for k up to n.
Stages(strings, f, n) ==
  /\ f \in [0..n -> Seq(Byte)]
  /\ f[0] = <<>>
  /\ \A k \in 1..n : f[k] = f[k - 1] \o Append(strings[k], NUL)

\* However many strings there are, they can be joined one by one,
LEMMA StagesExist ==
  ASSUME NEW strings \in Seq(Seq(Byte))
  PROVE  \E f : Stages(strings, f, Len(strings))
<1> DEFINE S == {k \in 0..Len(strings) : \E f : Stages(strings, f, k)}
<1>1. Len(strings) \in Nat
  OBVIOUS
<1>2. 0 \in S
  <2> DEFINE f == [k \in 0..0 |-> <<>>]
  <2>1. f \in [0..0 -> Seq(Byte)]
    OBVIOUS
  <2>2. Stages(strings, f, 0)
    BY <2>1 DEF Stages
  <2>3. QED
    BY <1>1, <2>2
<1>3. ASSUME NEW k \in 0..Len(strings), k < Len(strings), k \in S
      PROVE  k + 1 \in S
  <2>1. PICK f : Stages(strings, f, k)
    BY <1>3
  <2> DEFINE next == f[k] \o Append(strings[k + 1], NUL)
             g == [j \in 0..(k + 1) |-> IF j = k + 1 THEN next ELSE f[j]]
  <2>2. k + 1 \in 1..Len(strings) /\ k \in Nat
    BY <1>1, <1>3
  <2>3. next \in Seq(Byte)
    <3>1. f[k] \in Seq(Byte) /\ strings[k + 1] \in Seq(Byte)
      BY <2>1, <2>2 DEF Stages
    <3>2. Append(strings[k + 1], NUL) \in Seq(Byte)
      BY <3>1, StringsAreBytes
    <3>3. QED
      BY <3>1, <3>2
  <2>4. next = f[k] \o Append(strings[k + 1], NUL)
    OBVIOUS
  <2> HIDE DEF next
  <2>40. g[k + 1] = next /\ g[k] = f[k]
    BY <2>2
  <2>5. g \in [0..(k + 1) -> Seq(Byte)] /\ g[0] = <<>>
    BY <2>1, <2>2, <2>3 DEF Stages
  <2>6. ASSUME NEW j \in 1..(k + 1)
        PROVE  g[j] = g[j - 1] \o Append(strings[j], NUL)
    <3>1. CASE j = k + 1
      <4>1. j - 1 = k
        BY <2>2, <3>1
      <4>2. QED
        BY <2>4, <2>40, <3>1, <4>1
    <3>2. CASE j # k + 1
      <4>1. j \in 1..k /\ j - 1 \in 0..k
        BY <2>2, <3>2
      <4>2. g[j] = f[j] /\ g[j - 1] = f[j - 1]
        BY <2>2, <4>1
      <4>3. QED
        BY <2>1, <4>1, <4>2 DEF Stages
    <3>3. QED
      BY <3>1, <3>2
  <2>7. Stages(strings, g, k + 1)
    BY <2>5, <2>6 DEF Stages
  <2>8. QED
    BY <2>2, <2>7
<1> HIDE DEF S
<1>4. Len(strings) \in S
  <2>1. \A k \in 0..Len(strings) : k \in S
    BY <1>1, <1>2, <1>3, Reaches
  <2>2. QED
    BY <1>1, <2>1
<1>5. QED
  BY <1>4 DEF S

\* and what is reached at the end is what they are joined to.
LEMMA JoinedIsLastStage ==
  ASSUME NEW strings \in Seq(Seq(Byte)), NEW f, Stages(strings, f, Len(strings))
  PROVE  Joined(strings) = f[Len(strings)]
<1> DEFINE n == Len(strings)
           seqs == [i \in DOMAIN strings |-> Append(strings[i], NUL)]
<1>1. n \in Nat /\ DOMAIN strings = 1..n
  OBVIOUS
<1>2. seqs = [i \in 1..n |-> Append(strings[i], NUL)] /\ Len(seqs) = n
  BY <1>1
<1>3. Joined(strings) = FlattenSeq(seqs)
  BY DEF Joined
<1>4. \A i \in 1..n : seqs[i] = Append(strings[i], NUL) /\ seqs[i] \in Seq(Byte)
  <2>1. \A i \in 1..n : strings[i] \in Seq(Byte)
    OBVIOUS
  <2>2. QED
    BY <1>2, <2>1, StringsAreBytes
<1> HIDE DEF seqs, n
<1>5. CASE n = 0
  <2>1. FlattenSeq(seqs) = seqs /\ seqs = <<>>
    BY <1>2, <1>5 DEF FlattenSeq
  <2>2. QED
    BY <1>3, <1>5, <2>1 DEF Stages, n
<1>6. CASE n # 0
  <2> DEFINE g[i \in 1..Len(seqs)] == IF i = 1 THEN seqs[i] ELSE g[i - 1] \o seqs[i]
             h == [i \in 1..Len(seqs) |-> f[i]]
  <2>1. FlattenSeq(seqs) = g[Len(seqs)]
    BY <1>2, <1>6, Zenon DEF FlattenSeq
  <2>2. ASSUME NEW i \in 1..n
        PROVE  f[i] = IF i = 1 THEN seqs[i] ELSE f[i - 1] \o seqs[i]
    <3>1. f[i] = f[i - 1] \o seqs[i]
      BY <1>4 DEF Stages, n
    <3>2. ASSUME i = 1 PROVE f[i - 1] \o seqs[i] = seqs[i]
      <4>1. i - 1 = 0 /\ f[0] = <<>>
        BY <3>2 DEF Stages
      <4>2. seqs[i] \in Seq(Byte)
        BY <1>4
      <4>3. QED
        BY <4>1, <4>2, ConcatEmptySeq
    <3>3. QED
      BY <3>1, <3>2
  <2>3. h = [i \in 1..Len(seqs) |-> IF i = 1 THEN seqs[i] ELSE h[i - 1] \o seqs[i]]
    BY <1>1, <1>2, <2>2
  <2> HIDE DEF h
  <2>4. g = [i \in 1..Len(seqs) |-> IF i = 1 THEN seqs[i] ELSE g[i - 1] \o seqs[i]]
    BY <2>3
  <2> HIDE DEF g
  <2> DEFINE S == {k \in 0..n : k = 0 \/ g[k] = f[k]}
  <2>5. 0 \in S
    BY <1>1
  <2>6. ASSUME NEW k \in 0..n, k < n, k \in S
        PROVE  k + 1 \in S
    <3>1. k + 1 \in 1..n /\ k \in Nat
      BY <1>1, <2>6
    <3>2. g[k + 1] = IF k = 0 THEN seqs[k + 1] ELSE g[k] \o seqs[k + 1]
      <4>1. g[k + 1] = IF k + 1 = 1 THEN seqs[k + 1] ELSE g[(k + 1) - 1] \o seqs[k + 1]
        BY <1>2, <2>4, <3>1
      <4>2. (k + 1) - 1 = k /\ (k + 1 = 1 <=> k = 0)
        BY <3>1
      <4>3. QED
        BY <4>1, <4>2
    <3>3. f[k + 1] = IF k = 0 THEN seqs[k + 1] ELSE f[k] \o seqs[k + 1]
      BY <2>2, <3>1
    <3>4. QED
      BY <2>6, <3>1, <3>2, <3>3
  <2> HIDE DEF S
  <2>7. n \in S
    <3>1. \A k \in 0..n : k \in S
      BY <1>1, <2>5, <2>6, Reaches
    <3>2. QED
      BY <1>1, <3>1
  <2>8. QED
    BY <1>2, <1>3, <1>6, <2>1, <2>7 DEF S, n
<1>7. QED
  BY <1>5, <1>6

\* No strings are joined to nothing.
LEMMA JoinedNone == Joined(<<>>) = <<>>
<1> DEFINE none == <<>>
           f == [k \in 0..0 |-> <<>>]
<1>1. none \in Seq(Seq(Byte)) /\ Len(none) = 0
  OBVIOUS
<1>2. f \in [0..0 -> Seq(Byte)] /\ f[0] = <<>>
  OBVIOUS
<1>3. Stages(none, f, Len(none))
  <2> HIDE DEF f, none
  <2>1. QED
    BY <1>1, <1>2 DEF Stages
<1>4. Joined(none) = f[0]
  <2> HIDE DEF f, none
  <2>1. QED
    BY <1>1, <1>3, JoinedIsLastStage
<1>5. QED
  BY <1>2, <1>4

\* A single string is followed by its zero byte.
LEMMA JoinedOne ==
  ASSUME NEW s \in Seq(Byte)
  PROVE  Joined(<<s>>) = Append(s, NUL)
<1> DEFINE one == <<s>>
           f == [k \in 0..1 |-> IF k = 0 THEN <<>> ELSE Append(s, NUL)]
<1>1. one \in Seq(Seq(Byte)) /\ Len(one) = 1 /\ one[1] = s
  OBVIOUS
<1>2. Append(s, NUL) \in Seq(Byte)
  BY StringsAreBytes
<1>3. <<>> \o Append(s, NUL) = Append(s, NUL)
  BY <1>2, ConcatEmptySeq
<1>4. f[0] = <<>> /\ f[1] = Append(s, NUL)
  OBVIOUS
<1>5. f \in [0..1 -> Seq(Byte)]
  <2>1. <<>> \in Seq(Byte)
    OBVIOUS
  <2>2. QED
    BY <1>2, <2>1
<1> HIDE DEF f, one
<1>6. \A k \in 1..1 : f[k] = f[k - 1] \o Append(one[k], NUL)
  <2>1. \A k \in 1..1 : k = 1 /\ k - 1 = 0
    OBVIOUS
  <2>2. f[1] = f[0] \o Append(one[1], NUL)
    BY <1>1, <1>3, <1>4
  <2>3. QED
    BY <2>1, <2>2
<1>7. Stages(one, f, Len(one))
  BY <1>1, <1>4, <1>5, <1>6 DEF Stages
<1>8. Joined(one) = f[1]
  BY <1>1, <1>7, JoinedIsLastStage
<1>9. QED
  BY <1>4, <1>8 DEF one

\* What strings are joined to is a string again.
LEMMA JoinedIsBytes ==
  ASSUME NEW strings \in Seq(Seq(Byte))
  PROVE  Joined(strings) \in Seq(Byte)
<1>1. PICK f : Stages(strings, f, Len(strings))
  BY StagesExist
<1>2. Len(strings) \in 0..Len(strings)
  OBVIOUS
<1>3. f[Len(strings)] \in Seq(Byte)
  BY <1>1, <1>2 DEF Stages
<1>4. QED
  BY <1>1, <1>3, JoinedIsLastStage

\* What is joined in two parts is joined.
LEMMA JoinedConcat ==
  ASSUME NEW s \in Seq(Seq(Byte)), NEW t \in Seq(Seq(Byte))
  PROVE  /\ s \o t \in Seq(Seq(Byte))
         /\ Joined(s \o t) = Joined(s) \o Joined(t)
<1>1. PICK f : Stages(s, f, Len(s))
  BY StagesExist
<1>2. PICK g : Stages(t, g, Len(t))
  BY StagesExist
<1>3. PICK n \in Nat, m \in Nat : n = Len(s) /\ m = Len(t)
  OBVIOUS
<1> DEFINE st == s \o t
           h == [k \in 0..(n + m) |-> IF k <= n THEN f[k] ELSE f[n] \o g[k - n]]
<1>4. /\ st \in Seq(Seq(Byte)) /\ Len(st) = n + m
      /\ \A i \in 1..(n + m) : st[i] = IF i <= n THEN s[i] ELSE t[i - n]
  BY <1>3, ConcatProperties
<1>5. /\ \A k \in 0..n : f[k] \in Seq(Byte)
      /\ \A k \in 0..m : g[k] \in Seq(Byte)
      /\ f[0] = <<>> /\ g[0] = <<>>
      /\ \A k \in 1..n : f[k] = f[k - 1] \o Append(s[k], NUL)
      /\ \A k \in 1..m : g[k] = g[k - 1] \o Append(t[k], NUL)
  BY <1>1, <1>2, <1>3 DEF Stages
<1>6. ASSUME NEW k \in 0..(n + m)
      PROVE  h[k] \in Seq(Byte)
  <2>1. CASE k <= n
    BY <1>5, <2>1
  <2>2. CASE ~(k <= n)
    <3>1. k - n \in 0..m /\ n \in 0..n
      BY <2>2
    <3>2. f[n] \in Seq(Byte) /\ g[k - n] \in Seq(Byte)
      BY <1>5, <3>1
    <3>3. h[k] = f[n] \o g[k - n]
      BY <2>2
    <3>4. QED
      BY <3>2, <3>3, ConcatProperties
  <2>3. QED
    BY <2>1, <2>2
<1>7. \A j \in 0..m : h[n + j] = f[n] \o g[j]
  <2> SUFFICES ASSUME NEW j \in 0..m PROVE h[n + j] = f[n] \o g[j]
    OBVIOUS
  <2>1. CASE j = 0
    <3>1. h[n + j] = f[n] /\ f[n] \in Seq(Byte)
      BY <1>5, <2>1
    <3>2. f[n] \o <<>> = f[n]
      BY <3>1, ConcatEmptySeq
    <3>3. QED
      BY <1>5, <2>1, <3>1, <3>2
  <2>2. CASE j # 0
    <3>1. n + j \in 0..(n + m) /\ ~(n + j <= n) /\ (n + j) - n = j
      BY <2>2
    <3>2. QED
      BY <3>1
  <2>3. QED
    BY <2>1, <2>2
<1>8. ASSUME NEW k \in 1..(n + m)
      PROVE  h[k] = h[k - 1] \o Append(st[k], NUL)
  <2>1. CASE k <= n
    <3>1. k \in 1..n /\ k - 1 \in 0..(n + m) /\ k - 1 <= n
      BY <2>1
    <3>2. h[k] = f[k] /\ h[k - 1] = f[k - 1] /\ st[k] = s[k]
      BY <1>4, <2>1, <3>1
    <3>3. QED
      BY <1>5, <3>1, <3>2
  <2>2. CASE ~(k <= n)
    <3>1. PICK j \in 1..m : k = n + j
      <4>1. k - n \in 1..m /\ k = n + (k - n)
        BY <2>2
      <4>2. QED
        BY <4>1
    <3>2. k - 1 = n + (j - 1) /\ j - 1 \in 0..m /\ j \in 0..m /\ k - n = j /\ n \in 0..n
      BY <3>1
    <3>3. h[k] = f[n] \o g[j] /\ h[k - 1] = f[n] \o g[j - 1] /\ st[k] = t[j]
      <4>1. h[k] = f[n] \o g[j]
        BY <1>7, <3>1, <3>2
      <4>2. h[k - 1] = f[n] \o g[j - 1]
        BY <1>7, <3>2
      <4>3. st[k] = t[j]
        BY <1>4, <2>2, <3>2
      <4>4. QED
        BY <4>1, <4>2, <4>3
    <3>4. g[j] = g[j - 1] \o Append(t[j], NUL)
      BY <1>5, <3>1
    <3>5. Append(t[j], NUL) \in Seq(Byte)
      <4>1. t[j] \in Seq(Byte)
        BY <1>3, <3>1
      <4>2. QED
        BY <4>1, StringsAreBytes
    <3>6. f[n] \in Seq(Byte) /\ g[j - 1] \in Seq(Byte)
      BY <1>5, <3>2
    <3>7. PICK a \in Seq(Byte), b \in Seq(Byte), c \in Seq(Byte) :
            a = f[n] /\ b = g[j - 1] /\ c = Append(t[j], NUL)
      BY <3>5, <3>6
    <3>9. (a \o b) \o c = a \o (b \o c)
      OBVIOUS
    <3>8. QED
      BY <3>3, <3>4, <3>7, <3>9
  <2>3. QED
    BY <2>1, <2>2
<1>9. Stages(st, h, Len(st))
  <2>1. h[0] = <<>>
    BY <1>5
  <2>2. h \in [0..(n + m) -> Seq(Byte)]
    BY <1>6
  <2> HIDE DEF h, st
  <2>3. QED
    BY <1>4, <1>8, <2>1, <2>2 DEF Stages
<1> HIDE DEF h
<1>10. Joined(st) = h[n + m]
  <2> HIDE DEF st
  <2>1. QED
    BY <1>4, <1>9, JoinedIsLastStage
<1>11. h[n + m] = f[n] \o g[m]
  <2>1. m \in 0..m
    OBVIOUS
  <2>2. QED
    BY <1>7, <2>1
<1>12. Joined(s) = f[n] /\ Joined(t) = g[m]
  BY <1>1, <1>2, <1>3, JoinedIsLastStage
<1>13. QED
  BY <1>4, <1>10, <1>11, <1>12
-------------------------------------------------------------------------------
(* What strings are joined to falls into these strings again.              *)

\* Growing numbers are as many as they are counted.
LEMMA KthOfGrowing ==
  ASSUME NEW n \in Nat, NEW e \in [1..n -> Nat],
         \A i, j \in 1..n : i < j => e[i] < e[j],
         NEW k \in 1..n
  PROVE  Kth({e[j] : j \in 1..n}, k) = e[k]
<1> DEFINE S == {e[j] : j \in 1..n}
<1>1. ASSUME NEW j \in 1..n
      PROVE  Cardinality({i \in S : i <= e[j]}) = j
  <2> DEFINE T == {i \in S : i <= e[j]}
             g == [i \in 1..j |-> e[i]]
  <2>1. \A i \in 1..j : i \in 1..n /\ e[i] \in Nat /\ e[i] <= e[j]
    OBVIOUS
  <2>2. g \in [1..j -> T]
    BY <2>1
  <2>3. \A a, b \in 1..j : g[a] = g[b] => a = b
    <3> SUFFICES ASSUME NEW a \in 1..j, NEW b \in 1..j, g[a] = g[b], a # b PROVE FALSE
      OBVIOUS
    <3>1. a \in 1..n /\ b \in 1..n /\ (a < b \/ b < a)
      OBVIOUS
    <3>2. e[a] < e[b] \/ e[b] < e[a]
      BY <3>1
    <3>3. e[a] \in Nat /\ e[b] \in Nat /\ e[a] = e[b]
      BY <3>1
    <3>4. QED
      BY <3>2, <3>3
  <2>4. \A t \in T : \E a \in 1..j : g[a] = t
    <3> SUFFICES ASSUME NEW t \in T PROVE \E a \in 1..j : g[a] = t
      OBVIOUS
    <3>1. PICK a \in 1..n : t = e[a]
      OBVIOUS
    <3>2. e[a] \in Nat /\ e[j] \in Nat /\ e[a] <= e[j]
      BY <3>1
    <3>3. ~(j < a)
      <4>1. j < a => e[j] < e[a]
        BY <3>1
      <4>2. QED
        BY <3>2, <4>1
    <3>4. QED
      BY <3>1, <3>3
  <2>5. ExistsBijection(1..j, T)
    <3>1. g \in Bijection(1..j, T)
      BY <2>2, <2>3, <2>4 DEF Bijection, Injection, Surjection, IsInjective
    <3>2. QED
      BY <3>1 DEF ExistsBijection
  <2> HIDE DEF T
  <2>6. Cardinality(T) = j
    BY <2>5, FS_CountingElements
  <2>7. QED
    BY <2>6 DEF T
<1>2. e[k] \in S /\ Cardinality({i \in S : i <= e[k]}) = k
  BY <1>1
<1>3. ASSUME NEW x \in S, Cardinality({i \in S : i <= x}) = k
      PROVE  x = e[k]
  <2>1. PICK j \in 1..n : x = e[j]
    OBVIOUS
  <2> HIDE DEF S
  <2>2. j = k
    BY <1>1, <1>3, <2>1
  <2>3. QED
    BY <2>1, <2>2
<1> HIDE DEF S
<1>4. Kth(S, k) = e[k]
  BY <1>2, <1>3 DEF Kth
<1>5. QED
  BY <1>4 DEF S

\* What lies between these numbers.
Between(bytes, e, n) == [k \in 1..(n + 1) |-> SubSeq(bytes, e[k - 1] + 1, e[k] - 1)]

\* e numbers the separators, with the start of the bytes before and their end
\* behind them.
Separated(bytes, separator, e, n) ==
  /\ bytes \in Seq(Byte) /\ n \in Nat /\ e \in [0..(n + 1) -> Nat]
  /\ e[0] = 0 /\ e[n + 1] = Len(bytes) + 1
  /\ \A i, j \in 0..(n + 1) : i < j => e[i] < e[j]
  /\ \A p \in 1..Len(bytes) : bytes[p] = separator <=> \E j \in 1..n : p = e[j]

\* The pieces lie between the separators.
LEMMA PiecesAt ==
  ASSUME NEW bytes, NEW separator, NEW e, NEW n, Separated(bytes, separator, e, n)
  PROVE  Pieces(bytes, separator) = Between(bytes, e, n)
<1> SUFFICES ASSUME bytes \in Seq(Byte), n \in Nat, e \in [0..(n + 1) -> Nat],
                    e[0] = 0, e[n + 1] = Len(bytes) + 1,
                    \A i, j \in 0..(n + 1) : i < j => e[i] < e[j],
                    \A p \in 1..Len(bytes) :
                      bytes[p] = separator <=> \E j \in 1..n : p = e[j]
             PROVE  Pieces(bytes, separator) = Between(bytes, e, n)
  BY DEF Separated
<1> DEFINE f == [j \in 1..(n + 1) |-> e[j]]
           S == {f[j] : j \in 1..(n + 1)}
<1>1. f \in [1..(n + 1) -> Nat] /\ \A i, j \in 1..(n + 1) : i < j => f[i] < f[j]
  OBVIOUS
<1>2. Len(bytes) \in Nat
  OBVIOUS
<1>3. ASSUME NEW j \in 1..n
      PROVE  e[j] \in 1..Len(bytes)
  <2>1. 0 \in 0..(n + 1) /\ j \in 0..(n + 1) /\ n + 1 \in 0..(n + 1) /\ 0 < j /\ j < n + 1
    OBVIOUS
  <2>2. e[0] < e[j] /\ e[j] < e[n + 1] /\ e[j] \in Nat
    BY <2>1
  <2>3. QED
    BY <1>2, <2>2
<1>4. S = Ends(bytes, separator)
  <2>1. ASSUME NEW x \in S PROVE x \in Ends(bytes, separator)
    <3>1. PICK j \in 1..(n + 1) : x = e[j]
      OBVIOUS
    <3>2. CASE j = n + 1
      BY <1>2, <3>1, <3>2 DEF Ends
    <3>3. CASE j # n + 1
      <4>1. j \in 1..n
        BY <3>3
      <4>2. x \in 1..Len(bytes)
        BY <1>3, <3>1, <4>1
      <4>3. bytes[x] = separator
        BY <3>1, <4>1, <4>2
      <4>4. QED
        BY <1>2, <4>2, <4>3 DEF Ends
    <3>4. QED
      BY <3>2, <3>3
  <2>2. ASSUME NEW x \in Ends(bytes, separator) PROVE x \in S
    <3>1. CASE x = Len(bytes) + 1
      <4>1. n + 1 \in 1..(n + 1) /\ f[n + 1] = x
        BY <3>1
      <4>2. QED
        BY <4>1
    <3>2. CASE x # Len(bytes) + 1
      <4>1. x \in 1..Len(bytes) /\ bytes[x] = separator
        BY <1>2, <3>2 DEF Ends
      <4>2. PICK j \in 1..n : x = e[j]
        BY <4>1
      <4>3. j \in 1..(n + 1) /\ f[j] = x
        BY <4>2
      <4>4. QED
        BY <4>3
    <3>3. QED
      BY <3>1, <3>2
  <2>3. QED
    BY <2>1, <2>2
<1>5. \A k \in 1..(n + 1) : Kth(S, k) = e[k]
  <2> HIDE DEF f
  <2>1. n + 1 \in Nat
    OBVIOUS
  <2>2. \A k \in 1..(n + 1) : Kth(S, k) = f[k]
    BY <1>1, <2>1, KthOfGrowing
  <2>3. \A k \in 1..(n + 1) : f[k] = e[k]
    BY DEF f
  <2>4. QED
    BY <2>2, <2>3
<1>6. Cardinality(S) = n + 1
  <2>1. \A a, b \in 1..(n + 1) : f[a] = f[b] => a = b
    <3> SUFFICES ASSUME NEW a \in 1..(n + 1), NEW b \in 1..(n + 1), f[a] = f[b], a # b
                 PROVE  FALSE
      OBVIOUS
    <3>1. f[a] \in Nat /\ f[b] \in Nat /\ (a < b \/ b < a)
      BY <1>1
    <3> HIDE DEF f
    <3>2. f[a] < f[b] \/ f[b] < f[a]
      BY <1>1, <3>1
    <3>3. QED
      BY <3>1, <3>2
  <2> HIDE DEF f
  <2>2. f \in Bijection(1..(n + 1), S)
    BY <1>1, <2>1 DEF Bijection, Injection, Surjection, IsInjective
  <2> HIDE DEF S
  <2>3. ExistsBijection(1..(n + 1), S)
    BY <2>2 DEF ExistsBijection
  <2>4. n + 1 \in Nat
    OBVIOUS
  <2>5. QED
    BY <2>3, <2>4, FS_CountingElements
<1> HIDE DEF S, f
<1>7. Pieces(bytes, separator) =
        [k \in 1..(n + 1) |->
           SubSeq(bytes, IF k = 1 THEN 1 ELSE Kth(S, k - 1) + 1, Kth(S, k) - 1)]
  BY <1>4, <1>6 DEF Pieces
<1>8. ASSUME NEW k \in 1..(n + 1)
      PROVE  (IF k = 1 THEN 1 ELSE Kth(S, k - 1) + 1) = e[k - 1] + 1 /\ Kth(S, k) = e[k]
  <2>1. CASE k = 1
    BY <1>5, <2>1
  <2>2. CASE k # 1
    <3>1. k - 1 \in 1..(n + 1)
      BY <2>2
    <3>2. QED
      BY <1>5, <2>2, <3>1
  <2>3. QED
    BY <2>1, <2>2
<1>9. QED
  BY <1>7, <1>8 DEF Between

\* at[k] is where the first k strings end.
Ended(f, at, n) ==
  at \in [0..n -> Nat] /\ \A k \in 0..n : at[k] = Len(f[k])

\* One string more leaves the bytes before it alone.
Added(strings, f, at, k) ==
  /\ at[k] = at[k - 1] + Len(strings[k]) + 1
  /\ \A p \in 1..at[k - 1] : f[k][p] = f[k - 1][p]
  /\ \A i \in 1..Len(strings[k]) : f[k][at[k - 1] + i] = strings[k][i]
  /\ f[k][at[k]] = NUL

\* Every string is added so.
LEMMA OneMore ==
  ASSUME NEW strings \in Seq(Seq(Byte)), NEW f, Stages(strings, f, Len(strings)),
         NEW at, Ended(f, at, Len(strings)), NEW k \in 1..Len(strings)
  PROVE  Added(strings, f, at, k)
<1>1. k - 1 \in 0..Len(strings) /\ k \in 0..Len(strings)
  OBVIOUS
<1>2. strings[k] \in Seq(Byte) /\ f[k - 1] \in Seq(Byte) /\ f[k] \in Seq(Byte)
  <2>1. f \in [0..Len(strings) -> Seq(Byte)]
    BY DEF Stages
  <2>2. strings[k] \in Seq(Byte)
    OBVIOUS
  <2>3. QED
    BY <1>1, <2>1, <2>2
<1>3. f[k] = f[k - 1] \o Append(strings[k], NUL)
  BY DEF Stages
<1> DEFINE a == f[k - 1]
           s == strings[k]
           t == Append(s, NUL)
           la == at[k - 1]
<1>4. at[k] = Len(f[k]) /\ la = Len(a) /\ la \in Nat
  BY <1>1 DEF Ended
<1> HIDE DEF a, s, la
<1>5. f[k] = a \o t /\ a \in Seq(Byte) /\ s \in Seq(Byte)
  BY <1>2, <1>3 DEF a, s
<1>6. /\ t \in Seq(Byte) /\ Len(t) = Len(s) + 1
      /\ \A i \in 1..Len(s) : t[i] = s[i]
      /\ t[Len(s) + 1] = NUL
  BY <1>5, StringsAreBytes
<1> HIDE DEF t
<1>7. Len(s) \in Nat
  BY <1>5
<1>8. /\ at[k] = la + Len(s) + 1
      /\ \A i \in 1..(la + Len(s) + 1) : f[k][i] = IF i <= la THEN a[i] ELSE t[i - la]
  <2>1. /\ Len(a \o t) = Len(a) + Len(t)
        /\ \A i \in 1..(Len(a) + Len(t)) :
             (a \o t)[i] = IF i <= Len(a) THEN a[i] ELSE t[i - Len(a)]
    BY <1>5, <1>6, ConcatProperties
  <2>2. la + Len(t) = la + Len(s) + 1
    BY <1>4, <1>6, <1>7
  <2>3. QED
    BY <1>4, <1>5, <2>1, <2>2
<1>9. \A p \in 1..la : f[k][p] = a[p]
  <2>1. \A p \in 1..la : p \in 1..(la + Len(s) + 1) /\ p <= la
    BY <1>4, <1>7
  <2>2. QED
    BY <1>8, <2>1
<1>10. ASSUME NEW i \in 1..Len(s)
       PROVE  f[k][la + i] = s[i]
  <2>1. la + i \in 1..(la + Len(s) + 1) /\ ~(la + i <= la) /\ (la + i) - la = i
    BY <1>4, <1>7
  <2>2. QED
    BY <1>6, <1>8, <2>1
<1>11. f[k][at[k]] = NUL
  <2> DEFINE i == la + Len(s) + 1
  <2>1. i \in 1..(la + Len(s) + 1) /\ ~(i <= la) /\ i - la = Len(s) + 1
    BY <1>4, <1>7
  <2>2. QED
    BY <1>6, <1>8, <2>1
<1>12. QED
  BY <1>8, <1>9, <1>10, <1>11 DEF Added, a, s, la

\* How the first n of the strings lie in what they are joined to.
Layout(bytes, strings, at, n) ==
  /\ at[0] = 0 /\ at[n] = Len(bytes)
  /\ \A i, j \in 0..n : i < j => at[i] < at[j]
  /\ \A p \in 1..Len(bytes) : bytes[p] = NUL <=> \E j \in 1..n : p = at[j]
  /\ \A j \in 1..n : at[j] = at[j - 1] + Len(strings[j]) + 1
  /\ \A j \in 1..n : \A i \in 1..Len(strings[j]) : bytes[at[j - 1] + i] = strings[j][i]

\* By induction, strings without zero bytes are laid out so.
LEMMA LayoutOfStages ==
  ASSUME NEW strings \in Seq(Seq(Byte)), NEW f, Stages(strings, f, Len(strings)),
         NEW at, Ended(f, at, Len(strings)),
         \A j \in 1..Len(strings) : \A i \in 1..Len(strings[j]) : strings[j][i] # NUL
  PROVE  Layout(f[Len(strings)], strings, at, Len(strings))
<1> DEFINE n == Len(strings)
           S == {k \in 0..n : Layout(f[k], strings, at, k)}
<1>1. n \in Nat
  OBVIOUS
<1>2. \A k \in 0..n : at[k] \in Nat /\ at[k] = Len(f[k])
  BY DEF Ended
<1>3. 0 \in S
  <2>1. f[0] = <<>> /\ Len(f[0]) = 0 /\ at[0] = Len(f[0])
    BY <1>1, <1>2 DEF Stages
  <2>2. QED
    BY <1>1, <2>1 DEF Layout
<1>4. ASSUME NEW k \in 0..n, k < n, k \in S
      PROVE  k + 1 \in S
  <2>1. Layout(f[k], strings, at, k)
    BY <1>4
  <2>2. PICK m \in 1..n : m = k + 1
    BY <1>1, <1>4
  <2>3. m - 1 = k /\ k \in Nat /\ m \in Nat /\ m \in 0..n /\ k \in 0..n
    BY <1>1, <1>4, <2>2
  <2>4. Added(strings, f, at, m)
    <3>1. m \in 1..Len(strings)
      OBVIOUS
    <3> HIDE DEF n, S
    <3>2. QED
      BY <3>1, OneMore
  <2>5. /\ at[m] = at[k] + Len(strings[m]) + 1
        /\ \A p \in 1..at[k] : f[m][p] = f[k][p]
        /\ \A i \in 1..Len(strings[m]) : f[m][at[k] + i] = strings[m][i]
        /\ f[m][at[m]] = NUL
    BY <2>3, <2>4 DEF Added
  <2>6. PICK size \in Nat : size = Len(strings[m])
    <3>1. strings[m] \in Seq(Byte)
      OBVIOUS
    <3>2. QED
      BY <3>1
  <2>7. at[k] \in Nat /\ at[m] \in Nat /\ at[m] = at[k] + size + 1
    BY <1>2, <2>3, <2>5, <2>6
  <2>8. /\ at[0] = 0 /\ at[k] = Len(f[k]) /\ at[m] = Len(f[m])
        /\ \A i, j \in 0..k : i < j => at[i] < at[j]
        /\ \A p \in 1..at[k] : f[k][p] = NUL <=> \E j \in 1..k : p = at[j]
        /\ \A j \in 1..k : at[j] = at[j - 1] + Len(strings[j]) + 1
        /\ \A j \in 1..k : \A i \in 1..Len(strings[j]) : f[k][at[j - 1] + i] = strings[j][i]
    BY <1>2, <2>1, <2>3 DEF Layout
  <2>9. \A j \in 0..n : j \in 0..k => at[j] <= at[k] /\ at[j] \in Nat
    <3> SUFFICES ASSUME NEW j \in 0..k PROVE at[j] <= at[k] /\ at[j] \in Nat
      BY <1>1
    <3>1. at[j] \in Nat /\ k \in 0..k
      BY <1>1, <1>2, <2>3
    <3>2. j < k => at[j] < at[k]
      BY <2>8, <3>1
    <3>3. j < k \/ j = k
      BY <2>3
    <3>4. QED
      BY <2>7, <3>1, <3>2, <3>3
  <2> HIDE DEF S
  <2>10. ASSUME NEW i \in 0..m, NEW j \in 0..m, i < j
         PROVE  at[i] < at[j]
    <3>1. i \in 0..k /\ i \in 0..n
      BY <1>1, <2>2, <2>3, <2>10
    <3>2. at[i] \in Nat /\ at[i] <= at[k]
      BY <2>9, <3>1
    <3>3. CASE j = m
      BY <2>7, <3>2, <3>3
    <3>4. CASE j # m
      <4>1. j \in 0..k
        BY <2>2, <2>3, <3>4
      <4>2. QED
        BY <2>8, <2>10, <3>1, <4>1
    <3>5. QED
      BY <3>3, <3>4
  <2>11. ASSUME NEW p \in 1..at[m]
         PROVE  f[m][p] = NUL <=> \E j \in 1..m : p = at[j]
    <3>1. CASE p <= at[k]
      <4>1. p \in 1..at[k]
        BY <2>7, <3>1
      <4>2. f[m][p] = f[k][p]
        BY <2>5, <4>1
      <4>3. f[k][p] = NUL <=> \E j \in 1..k : p = at[j]
        BY <2>8, <4>1
      <4>4. p # at[m]
        BY <2>7, <3>1
      <4>5. (\A j \in 1..m : j \in 1..k \/ j = m) /\ \A j \in 1..k : j \in 1..m
        BY <2>2, <2>3
      <4>6. QED
        BY <4>2, <4>3, <4>4, <4>5
    <3>2. CASE p = at[m]
      <4>1. m \in 1..m
        BY <2>3
      <4>2. QED
        BY <2>5, <3>2, <4>1
    <3>3. CASE at[k] < p /\ p < at[m]
      <4>1. PICK i \in 1..size : p = at[k] + i
        <5>1. PICK x \in Nat, y \in Nat : x = at[k] /\ y = at[m] /\ y = x + size + 1
          BY <2>7
        <5>2. p \in Int /\ x < p /\ p < y
          BY <2>7, <3>3, <5>1
        <5>3. \A v, s \in Nat, w \in Int :
                v < w /\ w < v + s + 1 => w - v \in 1..s /\ w = v + (w - v)
          OBVIOUS
        <5>4. p - x \in 1..size /\ p = x + (p - x)
          BY <2>6, <5>1, <5>2, <5>3
        <5>5. QED
          BY <5>1, <5>4
      <4>2. f[m][p] # NUL
        <5>1. f[m][at[k] + i] = strings[m][i]
          BY <2>5, <2>6, <4>1
        <5>2. strings[m][i] # NUL
          BY <2>6, <4>1 DEF n
        <5>3. QED
          BY <4>1, <5>1, <5>2
      <4>3. ASSUME NEW j \in 1..m PROVE p # at[j]
        <5>1. CASE j = m
          BY <2>7, <3>3, <5>1
        <5>2. CASE j # m
          <6>1. j \in 0..k /\ j \in 0..n
            BY <1>1, <2>2, <2>3, <5>2
          <6>2. at[j] <= at[k] /\ at[j] \in Nat
            BY <2>9, <6>1
          <6>3. QED
            BY <2>7, <3>3, <6>2
        <5>3. QED
          BY <5>1, <5>2
      <4>4. QED
        BY <4>2, <4>3
    <3>4. QED
      BY <2>7, <3>1, <3>2, <3>3
  <2>12. \A j \in 1..m : j = m \/ (j \in 1..k /\ j \in 1..n /\ j - 1 \in 0..k /\ j \in 0..k)
    BY <1>1, <2>2, <2>3
  <2>13. ASSUME NEW j \in 1..m
         PROVE  at[j] = at[j - 1] + Len(strings[j]) + 1
    <3>1. CASE j = m
      BY <2>3, <2>5, <3>1
    <3>2. CASE j # m
      BY <2>8, <2>12, <3>2
    <3>3. QED
      BY <3>1, <3>2
  <2>14. ASSUME NEW j \in 1..m, NEW i \in 1..Len(strings[j])
         PROVE  f[m][at[j - 1] + i] = strings[j][i]
    <3>1. CASE j = m
      BY <2>3, <2>5, <3>1
    <3>2. CASE j # m
      <4>1. j \in 1..k /\ j \in 1..n /\ j - 1 \in 0..k /\ j \in 0..k /\ j \in 0..n
            /\ j - 1 \in 0..n
        BY <1>1, <2>3, <2>12, <3>2
      <4>2. PICK l \in Nat : l = Len(strings[j])
        <5>1. strings[j] \in Seq(Byte)
          BY <4>1 DEF n
        <5>2. QED
          BY <5>1
      <4>3. at[j] = at[j - 1] + l + 1 /\ at[j] \in Nat /\ at[j - 1] \in Nat /\ at[j] <= at[k]
        BY <1>2, <2>8, <2>9, <4>1, <4>2
      <4>4. at[j - 1] + i \in 1..at[k]
        <5>1. i \in 1..l
          BY <4>2
        <5> HIDE DEF n
        <5>2. PICK a \in Nat, b \in Nat, c \in Nat : a = at[j - 1] /\ b = at[j] /\ c = at[k]
          BY <2>7, <4>3
        <5>3. b = a + l + 1 /\ b <= c
          BY <4>3, <5>2
        <5>4. a + i \in 1..c
          BY <5>1, <5>3
        <5>5. QED
          BY <5>2, <5>4
      <4>5. QED
        BY <2>5, <2>8, <4>1, <4>4
    <3>3. QED
      BY <3>1, <3>2
  <2>15. Layout(f[m], strings, at, m)
    BY <2>8, <2>10, <2>11, <2>13, <2>14 DEF Layout
  <2>16. QED
    BY <2>2, <2>3, <2>15 DEF S
<1> HIDE DEF S
<1>5. \A k \in 0..n : k \in S
  <2> HIDE DEF n
  <2>1. QED
    BY <1>1, <1>3, <1>4, Reaches
<1>6. n \in S
  BY <1>1, <1>5
<1>7. QED
  BY <1>6 DEF S

\* Strings that are joined lie one behind the other.
LEMMA JoinedLayout ==
  ASSUME NEW strings \in Seq(Seq(Byte)),
         \A j \in 1..Len(strings) : \A i \in 1..Len(strings[j]) : strings[j][i] # NUL
  PROVE  \E at \in [0..Len(strings) -> Nat] :
           Layout(Joined(strings), strings, at, Len(strings))
<1>1. PICK f : Stages(strings, f, Len(strings))
  BY StagesExist
<1> DEFINE at == [k \in 0..Len(strings) |-> Len(f[k])]
<1>2. Ended(f, at, Len(strings))
  <2>1. \A k \in 0..Len(strings) : Len(f[k]) \in Nat
    BY <1>1 DEF Stages
  <2>2. QED
    BY <2>1 DEF Ended
<1> HIDE DEF at
<1>3. Layout(f[Len(strings)], strings, at, Len(strings))
  BY <1>1, <1>2, LayoutOfStages
<1>4. Joined(strings) = f[Len(strings)]
  BY <1>1, JoinedIsLastStage
<1>5. QED
  BY <1>2, <1>3, <1>4 DEF Ended

\* The pieces of what strings are joined to are these strings, and an empty one
\* behind the last zero byte.
LEMMA PiecesOfJoined ==
  ASSUME NEW strings \in Seq(Seq(Byte)),
         \A j \in 1..Len(strings) : \A i \in 1..Len(strings[j]) : strings[j][i] # NUL
  PROVE  Pieces(Joined(strings), NUL) = Append(strings, <<>>)
<1> DEFINE n == Len(strings)
           bytes == Joined(strings)
<1>1. PICK at \in [0..n -> Nat] : Layout(bytes, strings, at, n)
  BY JoinedLayout
<1>2. n \in Nat /\ bytes \in Seq(Byte)
  <2>1. PICK f : Stages(strings, f, Len(strings))
    BY StagesExist
  <2>2. bytes = f[n]
    BY <2>1, JoinedIsLastStage
  <2>3. n \in Nat /\ n \in 0..n
    OBVIOUS
  <2>4. QED
    BY <2>1, <2>2, <2>3 DEF Stages
<1>3. \A k \in 1..n : strings[k] \in Seq(Byte)
  OBVIOUS
<1> DEFINE end == at[n] + 1
           e == [k \in 0..(n + 1) |-> IF k = n + 1 THEN end ELSE at[k]]
<1> HIDE DEF n, bytes
<1>4. /\ at[0] = 0 /\ at[n] = Len(bytes) /\ at[n] \in Nat /\ end \in Nat /\ at[n] < end
      /\ end = Len(bytes) + 1
      /\ \A i, j \in 0..n : i < j => at[i] < at[j]
      /\ \A p \in 1..Len(bytes) : bytes[p] = NUL <=> \E j \in 1..n : p = at[j]
      /\ \A j \in 1..n : at[j] = at[j - 1] + Len(strings[j]) + 1
      /\ \A j \in 1..n : \A i \in 1..Len(strings[j]) : bytes[at[j - 1] + i] = strings[j][i]
  BY <1>1, <1>2 DEF Layout
<1> HIDE DEF end
<1>5. e \in [0..(n + 1) -> Nat]
  BY <1>2, <1>4
<1>6. e[n + 1] = end /\ \A k \in 0..n : e[k] = at[k] /\ at[k] \in Nat
  BY <1>2
<1> HIDE DEF e
<1>7. ASSUME NEW i \in 0..(n + 1), NEW j \in 0..(n + 1), i < j
      PROVE  e[i] < e[j]
  <2>1. i \in 0..n /\ n \in 0..n
    BY <1>2, <1>7
  <2>2. at[i] \in Nat /\ at[i] <= at[n]
    <3>1. i < n \/ i = n
      BY <1>2, <2>1
    <3>2. i < n => at[i] < at[n]
      BY <1>4, <2>1
    <3>3. QED
      BY <1>4, <1>6, <2>1, <3>1, <3>2
  <2>3. CASE j = n + 1
    BY <1>4, <1>6, <2>1, <2>2, <2>3
  <2>4. CASE j # n + 1
    <3>1. j \in 0..n
      BY <1>2, <2>4
    <3>2. QED
      BY <1>4, <1>6, <1>7, <2>1, <3>1
  <2>5. QED
    BY <2>3, <2>4
<1>8. \A p \in 1..Len(bytes) : bytes[p] = NUL <=> \E j \in 1..n : p = e[j]
  <2>1. \A j \in 1..n : e[j] = at[j]
    BY <1>2, <1>6
  <2>2. \A p \in 1..Len(bytes) : bytes[p] = NUL <=> \E j \in 1..n : p = at[j]
    BY <1>4
  <2>3. \A p : (\E j \in 1..n : p = at[j]) <=> \E j \in 1..n : p = e[j]
    BY <2>1
  <2>4. QED
    BY <2>2, <2>3
<1>9. e[0] = 0 /\ e[n + 1] = Len(bytes) + 1
  <2>1. 0 \in 0..n
    BY <1>2
  <2>2. QED
    BY <1>4, <1>6, <2>1
<1>10. Pieces(bytes, NUL) = [k \in 1..(n + 1) |-> SubSeq(bytes, e[k - 1] + 1, e[k] - 1)]
  <2>1. Pieces(bytes, NUL) = Between(bytes, e, n)
    <3>1. Separated(bytes, NUL, e, n)
      BY <1>2, <1>5, <1>7, <1>8, <1>9 DEF Separated
    <3>2. QED
      BY <3>1, PiecesAt
  <2>2. QED
    BY <2>1 DEF Between
<1>11. ASSUME NEW k \in 1..n
       PROVE  SubSeq(bytes, e[k - 1] + 1, e[k] - 1) = strings[k]
  <2> DEFINE s == strings[k]
             part == SubSeq(bytes, e[k - 1] + 1, e[k] - 1)
  <2>1. s \in Seq(Byte)
    BY <1>3
  <2>2. PICK l \in Nat : l = Len(s)
    BY <2>1
  <2>3. k - 1 \in 0..n /\ k \in 0..n /\ n \in 0..n
    BY <1>2
  <2>4. PICK a \in Nat : a = e[k - 1] /\ a = at[k - 1]
    BY <1>6, <2>3
  <2>5. e[k] = a + l + 1
    BY <1>4, <1>6, <2>2, <2>3, <2>4
  <2>6. \A i \in 1..l : bytes[a + i] = s[i]
    <3>1. \A i \in 1..Len(strings[k]) : bytes[at[k - 1] + i] = strings[k][i]
      BY <1>4
    <3>2. Len(strings[k]) = l
      BY <2>2
    <3>3. QED
      BY <2>4, <3>1, <3>2
  <2>7. part = SubSeq(bytes, a + 1, a + l)
    <3>1. (a + l + 1) - 1 = a + l
      OBVIOUS
    <3>2. QED
      BY <2>4, <2>5, <3>1
  <2>8. \A i \in (a + 1)..(a + l) : bytes[i] \in Byte
    <3>1. a + l + 1 <= Len(bytes)
      <4>1. at[k] <= at[n]
        <5>1. k < n \/ k = n
          BY <1>2
        <5>2. k < n => at[k] < at[n]
          BY <1>4, <2>3
        <5>3. QED
          BY <1>4, <1>6, <2>3, <5>1, <5>2
      <4>2. QED
        BY <1>4, <1>6, <2>3, <2>5, <4>1
    <3>2. PICK len \in Nat : len = Len(bytes)
      BY <1>2
    <3>3. \A i \in (a + 1)..(a + l) : i \in 1..len
      BY <3>1, <3>2
    <3>4. QED
      BY <1>2, <3>2, <3>3
  <2> HIDE DEF s, part
  <2>9. part \in Seq(Byte) /\ Len(part) = l /\ \A i \in 1..l : part[i] = bytes[a + i]
    <3>1. a + 1 \in Int /\ a + l \in Int /\ (a + l) - (a + 1) + 1 = l
      OBVIOUS
    <3>2. /\ SubSeq(bytes, a + 1, a + l) \in Seq(Byte)
          /\ Len(SubSeq(bytes, a + 1, a + l)) =
               IF a + 1 <= a + l THEN (a + l) - (a + 1) + 1 ELSE 0
          /\ \A i \in 1..((a + l) - (a + 1) + 1) :
               SubSeq(bytes, a + 1, a + l)[i] = bytes[(a + 1) + i - 1]
      BY <2>8, <3>1, SubSeqProperties
    <3>3. (IF a + 1 <= a + l THEN (a + l) - (a + 1) + 1 ELSE 0) = l
      OBVIOUS
    <3>4. \A i \in 1..l : (a + 1) + i - 1 = a + i
      OBVIOUS
    <3>5. QED
      BY <2>7, <3>1, <3>2, <3>3, <3>4
  <2>10. part = s
    BY <2>1, <2>2, <2>6, <2>9, SeqEqual
  <2>11. QED
    BY <2>10 DEF part, s
<1>12. SubSeq(bytes, e[(n + 1) - 1] + 1, e[n + 1] - 1) = <<>>
  <2>1. (n + 1) - 1 = n /\ n \in 0..n
    BY <1>2
  <2>2. PICK a \in Nat : a = e[n] /\ e[n + 1] = a + 1
    BY <1>4, <1>6, <2>1 DEF end
  <2>3. (a + 1) - 1 = a /\ a < a + 1 /\ a \in Int /\ a + 1 \in Int
    OBVIOUS
  <2>4. SubSeq(bytes, a + 1, a) = <<>>
    BY <2>3, SubSeqEmpty
  <2>5. QED
    BY <2>1, <2>2, <2>3, <2>4
<1>13. Append(strings, <<>>) = [k \in 1..(n + 1) |-> IF k = n + 1 THEN <<>> ELSE strings[k]]
  <2> DEFINE t == [k \in 1..(n + 1) |-> IF k = n + 1 THEN <<>> ELSE strings[k]]
  <2>1. \A k \in 1..(n + 1) : t[k] \in Seq(Byte)
    <3>1. \A k \in 1..(n + 1) : k = n + 1 \/ k \in 1..n
      BY <1>2
    <3>2. <<>> \in Seq(Byte)
      OBVIOUS
    <3>3. QED
      BY <1>3, <3>1, <3>2
  <2>2. t \in Seq(Seq(Byte)) /\ Len(t) = n + 1
    <3>1. t \in [1..(n + 1) -> Seq(Byte)] /\ n + 1 \in Nat
      BY <1>2, <2>1
    <3> HIDE DEF t
    <3>2. QED
      BY <3>1
  <2>3. /\ Append(strings, <<>>) \in Seq(Seq(Byte)) /\ Len(Append(strings, <<>>)) = n + 1
        /\ \A k \in 1..n : Append(strings, <<>>)[k] = strings[k]
        /\ Append(strings, <<>>)[n + 1] = <<>>
    BY DEF n
  <2>4. \A k \in 1..(n + 1) : Append(strings, <<>>)[k] = t[k]
    <3>1. \A k \in 1..(n + 1) : k = n + 1 \/ (k \in 1..n /\ k # n + 1)
      BY <1>2
    <3>2. QED
      BY <2>3, <3>1
  <2> HIDE DEF t
  <2>5. Append(strings, <<>>) = t
    BY <2>2, <2>3, <2>4, SeqEqual
  <2>6. QED
    BY <2>5 DEF t
<1>14. ASSUME NEW k \in 1..(n + 1)
       PROVE  SubSeq(bytes, e[k - 1] + 1, e[k] - 1) = IF k = n + 1 THEN <<>> ELSE strings[k]
  <2>1. CASE k = n + 1
    BY <1>12, <2>1
  <2>2. CASE k # n + 1
    <3>1. k \in 1..n
      BY <1>2, <2>2
    <3>2. QED
      BY <1>11, <2>2, <3>1
  <2>3. QED
    BY <2>1, <2>2
<1>15. QED
  BY <1>10, <1>13, <1>14 DEF bytes
-------------------------------------------------------------------------------
(* The two passes of Pexec0 over its arguments.                            *)

\* The first n arguments are strings, and not empty.
Checked(args, n) == \A k \in 1..n : args[k] \notin {NIL, <<>>}

\* As long as no finalizer has written to the table, what has been measured is as
\* long as the arguments so far joined, and what has been copied are these; the
\* child then has them all, behind the environment.
Measured ==
  rewrites = 0 =>
    /\ table = given /\ given \in Seq(Value)
    /\ pc \in {"measure", "copy", "child", "raised"}
    /\ pc = "measure" =>
         /\ key \in 1..(Len(given) + 1) /\ copied = <<>>
         /\ Checked(given, key - 1)
         /\ total = Len(Joined(SubSeq(given, 1, key - 1)))
    /\ pc = "copy" =>
         /\ key \in 1..(Len(given) + 1) /\ copied = Joined(SubSeq(given, 1, key - 1))
         /\ Checked(given, Len(given))
         /\ total = Len(Joined(given))
    /\ pc = "child" =>
         /\ Checked(given, Len(given))
         /\ copied = Joined(given) /\ total = Len(copied)
         /\ tail = TailOf(copied)
         /\ block = Joined(envp) \o Joined(<<ARGV, Path>>) \o copied \o <<NUL>>

\* The inductive invariant.
IInv == rewrites \in Nat /\ envp \in Seq(EnvString) /\ Measured

\* Arguments that were checked are strings of bytes.
LEMMA CheckedAreStrings ==
  ASSUME NEW args \in Seq(Value), NEW n \in 0..Len(args), Checked(args, n)
  PROVE  /\ \A k \in 1..n : args[k] \in Seq(Byte)
         /\ SubSeq(args, 1, n) \in Seq(Seq(Byte)) /\ Len(SubSeq(args, 1, n)) = n
         /\ \A k \in 1..n : SubSeq(args, 1, n)[k] = args[k]
<1>1. n \in Nat /\ Len(args) \in Nat
  OBVIOUS
<1>2. ASSUME NEW k \in 1..n PROVE args[k] \in Seq(Byte)
  <2>1. k \in 1..Len(args)
    BY <1>1
  <2>2. args[k] \in Value /\ args[k] # NIL
    BY <2>1 DEF Checked
  <2>3. QED
    BY <2>2, StringsAreBytes
<1>3. QED
  BY <1>1, <1>2, FrontOf

\* The next argument is joined to those before it.
LEMMA NextArgument ==
  ASSUME NEW args \in Seq(Value), NEW k \in 1..Len(args), Checked(args, k)
  PROVE  /\ args[k] \in Seq(Byte)
         /\ Joined(SubSeq(args, 1, k - 1)) \in Seq(Byte)
         /\ Joined(SubSeq(args, 1, k)) =
              Joined(SubSeq(args, 1, k - 1)) \o Append(args[k], NUL)
<1>1. PICK n \in 0..Len(args) : n = k - 1 /\ k \in 0..Len(args) /\ n + 1 = k
  OBVIOUS
<1>2. Checked(args, n)
  BY <1>1 DEF Checked
<1> DEFINE front == SubSeq(args, 1, n)
           longer == SubSeq(args, 1, k)
<1>3. /\ front \in Seq(Seq(Byte)) /\ Len(front) = n
      /\ \A i \in 1..n : front[i] = args[i]
  BY <1>2, CheckedAreStrings
<1>4. /\ args[k] \in Seq(Byte)
      /\ longer \in Seq(Seq(Byte)) /\ Len(longer) = k
      /\ \A i \in 1..k : longer[i] = args[i]
  <2>1. k \in 1..k
    OBVIOUS
  <2>2. QED
    BY <1>1, <2>1, CheckedAreStrings
<1> HIDE DEF front, longer
<1>5. longer = front \o <<args[k]>>
  <2> DEFINE last == <<args[k]>>
  <2>1. last \in Seq(Seq(Byte)) /\ Len(last) = 1 /\ last[1] = args[k]
    BY <1>4
  <2> HIDE DEF last
  <2>2. /\ front \o last \in Seq(Seq(Byte)) /\ Len(front \o last) = n + 1
        /\ \A i \in 1..(n + 1) :
             (front \o last)[i] = IF i <= n THEN front[i] ELSE last[i - n]
    <3>1. /\ front \o last \in Seq(Seq(Byte)) /\ Len(front \o last) = Len(front) + Len(last)
          /\ \A i \in 1..(Len(front) + Len(last)) :
               (front \o last)[i] =
                 IF i <= Len(front) THEN front[i] ELSE last[i - Len(front)]
      BY <1>3, <2>1, ConcatProperties
    <3>2. Len(front) = n /\ Len(last) = 1
      BY <1>3, <2>1
    <3>3. QED
      BY <3>1, <3>2
  <2>3. \A i \in 1..k : longer[i] = (front \o last)[i]
    <3>1. ASSUME NEW i \in 1..k PROVE longer[i] = (front \o last)[i]
      <4>1. CASE i = k
        <5>1. ~(k <= n) /\ k - n = 1 /\ k \in 1..(n + 1)
          BY <1>1
        <5>2. QED
          BY <1>4, <2>1, <2>2, <4>1, <5>1
      <4>2. CASE i # k
        <5>1. i \in 1..n /\ i \in 1..(n + 1) /\ i <= n
          BY <1>1, <4>2
        <5>2. QED
          BY <1>3, <1>4, <2>2, <5>1
      <4>3. QED
        BY <4>1, <4>2
    <3>2. QED
      BY <3>1
  <2>4. longer = front \o last
    BY <1>1, <1>4, <2>2, <2>3, SeqEqual
  <2>5. QED
    BY <2>4 DEF last
<1>6. Joined(longer) = Joined(front) \o Joined(<<args[k]>>)
  <2>1. <<args[k]>> \in Seq(Seq(Byte))
    BY <1>4
  <2>2. QED
    BY <1>3, <1>5, <2>1, JoinedConcat
<1>7. Joined(<<args[k]>>) = Append(args[k], NUL) /\ Joined(front) \in Seq(Byte)
  BY <1>3, <1>4, JoinedOne, JoinedIsBytes
<1>8. QED
  BY <1>1, <1>4, <1>6, <1>7 DEF front, longer

\* The first arguments are no longer than all of them.
LEMMA FirstFit ==
  ASSUME NEW args \in Seq(Value), Checked(args, Len(args)), NEW n \in 0..Len(args)
  PROVE  /\ Len(Joined(SubSeq(args, 1, n))) \in Nat
         /\ Len(Joined(args)) \in Nat
         /\ Len(Joined(SubSeq(args, 1, n))) <= Len(Joined(args))
<1>1. PICK m \in Nat : m = Len(args)
  OBVIOUS
<1>2. m \in 0..Len(args) /\ args \in Seq(Seq(Byte)) /\ \A k \in 1..m : args[k] \in Seq(Byte)
  <2>1. \A k \in 1..m : args[k] \in Seq(Byte)
    BY <1>1, CheckedAreStrings
  <2>2. args \in Seq(Seq(Byte))
    BY <1>1, <2>1
  <2>3. QED
    BY <1>1, <2>1, <2>2
<1> DEFINE front == SubSeq(args, 1, n)
           rest == SubSeq(args, n + 1, m)
<1>3. front \in Seq(Seq(Byte)) /\ rest \in Seq(Seq(Byte)) /\ front \o rest = args
  <2>1. Checked(args, n)
    BY DEF Checked
  <2>2. front \in Seq(Seq(Byte))
    BY <2>1, CheckedAreStrings
  <2>3. rest \in Seq(Seq(Byte))
    <3>1. \A i \in (n + 1)..m : args[i] \in Seq(Byte)
      BY <1>2
    <3>2. n + 1 \in Int /\ m \in Int
      OBVIOUS
    <3>3. QED
      BY <3>1, <3>2, SubSeqProperties
  <2>4. front \o rest = args
    <3>1. /\ 1 \in 1..(Len(args) + 1) /\ n \in (1 - 1)..Len(args) /\ m \in n..Len(args)
      BY <1>1
    <3>2. front \o rest = SubSeq(args, 1, m)
      BY <3>1, ConcatAdjacentSubSeq
    <3>3. SubSeq(args, 1, m) = args
      BY <1>1, SubSeqFull
    <3>4. QED
      BY <3>2, <3>3
  <2>5. QED
    BY <2>2, <2>3, <2>4
<1> HIDE DEF front, rest
<1>4. Joined(args) = Joined(front) \o Joined(rest)
  BY <1>3, JoinedConcat
<1>5. PICK a \in Seq(Byte), b \in Seq(Byte) : a = Joined(front) /\ b = Joined(rest)
  BY <1>3, JoinedIsBytes
<1>6. Len(a \o b) = Len(a) + Len(b) /\ Len(a) \in Nat /\ Len(b) \in Nat
  OBVIOUS
<1>7. Len(a) <= Len(a \o b) /\ Len(a \o b) \in Nat
  BY <1>6
<1>8. QED
  BY <1>4, <1>5, <1>6, <1>7 DEF front

\* Nothing is measured when the call begins.
LEMMA InitInv == Init => IInv
<1> SUFFICES ASSUME Init PROVE IInv
  OBVIOUS
<1>1. /\ rewrites = 0 /\ table = given /\ pc = "measure" /\ key = 1 /\ total = 0
      /\ copied = <<>>
  BY DEF Init
<1>2. given \in Seq(Value)
  <2>1. PICK m \in 0..MaxArgs : table \in [1..m -> Value]
    BY DEF Init, BoundedSeq, SeqOf
  <2>2. QED
    BY <1>1, <2>1, SizesAreNumbers
<1>3. envp \in Seq(EnvString)
  <2>1. PICK m \in 0..MaxEnv : envp \in [1..m -> EnvString]
    BY DEF Init, BoundedSeq, SeqOf
  <2>2. QED
    BY <2>1, SizesAreNumbers
<1>4. key \in 1..(Len(given) + 1)
  BY <1>1, <1>2
<1>5. Checked(given, key - 1)
  BY <1>1 DEF Checked
<1>6. total = Len(Joined(SubSeq(given, 1, key - 1)))
  <2>1. key - 1 = 0 /\ SubSeq(given, 1, 0) = <<>>
    BY <1>1, SubSeqEmpty
  <2>2. Joined(<<>>) = <<>>
    BY JoinedNone
  <2>3. SubSeq(given, 1, key - 1) = <<>>
    BY <2>1
  <2>4. Joined(SubSeq(given, 1, key - 1)) = <<>> /\ Len(<<>>) = 0
    BY <2>2, <2>3
  <2>5. QED
    BY <1>1, <2>4
<1>7. QED
  BY <1>1, <1>2, <1>3, <1>4, <1>5, <1>6 DEF IInv, Measured

\* An argument is measured: it is as long as what it adds.
LEMMA MeasureInv ==
  ASSUME IInv, Measure
  PROVE  IInv'
<1>1. /\ pc = "measure" /\ key <= Len(given)
      /\ IF table[key] \in {NIL, <<>>}
         THEN pc' = "raised" /\ UNCHANGED <<key, total>>
         ELSE /\ total' = total + Len(table[key]) + 1 /\ key' = key + 1 /\ UNCHANGED pc
      /\ UNCHANGED <<envp, table, given, rewrites, copied, tail, block>>
  BY DEF Measure
<1>2. rewrites' \in Nat /\ envp' \in Seq(EnvString)
  BY <1>1 DEF IInv
<1>3. SUFFICES ASSUME rewrites = 0 PROVE Measured'
  BY <1>1, <1>2 DEF IInv, Measured
<1>4. /\ table = given /\ given \in Seq(Value) /\ key \in 1..(Len(given) + 1)
      /\ copied = <<>> /\ Checked(given, key - 1)
      /\ total = Len(Joined(SubSeq(given, 1, key - 1)))
  BY <1>1, <1>3 DEF IInv, Measured
<1>5. CASE table[key] \in {NIL, <<>>}
  BY <1>1, <1>4, <1>5 DEF Measured
<1>6. CASE table[key] \notin {NIL, <<>>}
  <2>1. key \in 1..Len(given) /\ (key + 1) - 1 = key /\ key + 1 \in 1..(Len(given) + 1)
    BY <1>1, <1>4
  <2>2. /\ pc' = "measure" /\ total' = total + Len(given[key]) + 1 /\ key' = key + 1
        /\ given' = given /\ table' = given /\ copied' = <<>>
    BY <1>1, <1>4, <1>6
  <2>3. Checked(given, key)
    <3>1. \A k \in 1..key : k = key \/ k \in 1..(key - 1)
      BY <2>1
    <3>2. QED
      BY <1>4, <1>6, <3>1 DEF Checked
  <2>4. PICK a \in Seq(Byte), s \in Seq(Byte) :
          /\ a = Joined(SubSeq(given, 1, key - 1)) /\ s = given[key]
          /\ Joined(SubSeq(given, 1, key)) = a \o Append(s, NUL)
    BY <1>4, <2>1, <2>3, NextArgument
  <2>5. Append(s, NUL) \in Seq(Byte) /\ Len(Append(s, NUL)) = Len(s) + 1
    BY StringsAreBytes
  <2>6. Len(a \o Append(s, NUL)) = Len(a) + Len(s) + 1
    <3>1. PICK t \in Seq(Byte) : t = Append(s, NUL)
      BY <2>5
    <3>2. Len(a \o t) = Len(a) + Len(t) /\ Len(a) \in Nat /\ Len(s) \in Nat
      OBVIOUS
    <3>3. QED
      BY <2>5, <3>1, <3>2
  <2>7. total' = Len(Joined(SubSeq(given', 1, key' - 1)))
    BY <1>4, <2>1, <2>2, <2>4, <2>6
  <2>8. QED
    BY <1>4, <2>1, <2>2, <2>3, <2>7 DEF Measured
<1>7. QED
  BY <1>5, <1>6

\* The buffer is allocated and the second pass begins at its start.
LEMMA AllocateInv ==
  ASSUME IInv, Allocate
  PROVE  IInv'
<1>1. /\ pc = "measure" /\ key > Len(given) /\ pc' = "copy" /\ key' = 1
      /\ UNCHANGED <<envp, table, given, rewrites, total, copied, tail, block>>
  BY DEF Allocate
<1>2. rewrites' \in Nat /\ envp' \in Seq(EnvString)
  BY <1>1 DEF IInv
<1>3. SUFFICES ASSUME rewrites = 0 PROVE Measured'
  BY <1>1, <1>2 DEF IInv, Measured
<1>4. /\ table = given /\ given \in Seq(Value) /\ key \in 1..(Len(given) + 1)
      /\ copied = <<>> /\ Checked(given, key - 1)
      /\ total = Len(Joined(SubSeq(given, 1, key - 1)))
  BY <1>1, <1>3 DEF IInv, Measured
<1>5. Len(given) \in Nat /\ key - 1 = Len(given)
  BY <1>1, <1>4
<1>6. Checked(given, Len(given)) /\ total = Len(Joined(given))
  <2>1. SubSeq(given, 1, Len(given)) = given
    BY <1>4, SubSeqFull
  <2>2. QED
    BY <1>4, <1>5, <2>1
<1>7. copied = Joined(SubSeq(given, 1, 1 - 1))
  <2>1. SubSeq(given, 1, 0) = <<>> /\ 1 - 1 = 0
    BY SubSeqEmpty
  <2>2. QED
    BY <1>4, <2>1, JoinedNone
<1>8. key' \in 1..(Len(given') + 1)
  BY <1>1, <1>5
<1>9. QED
  BY <1>1, <1>4, <1>6, <1>7, <1>8 DEF Measured

\* An argument is copied behind those before it, and the buffer has the room.
LEMMA CopyInv ==
  ASSUME IInv, Copy
  PROVE  IInv'
<1>1. /\ pc = "copy" /\ key <= Len(given)
      /\ IF table[key] = NIL \/ Len(copied) + Len(table[key]) + 1 > total
         THEN pc' = "overrun" /\ UNCHANGED <<key, copied>>
         ELSE /\ copied' = copied \o Append(table[key], NUL) /\ key' = key + 1 /\ UNCHANGED pc
      /\ UNCHANGED <<envp, table, given, rewrites, total, tail, block>>
  BY DEF Copy
<1>2. rewrites' \in Nat /\ envp' \in Seq(EnvString)
  BY <1>1 DEF IInv
<1>3. SUFFICES ASSUME rewrites = 0 PROVE Measured'
  BY <1>1, <1>2 DEF IInv, Measured
<1>4. /\ table = given /\ given \in Seq(Value) /\ key \in 1..(Len(given) + 1)
      /\ copied = Joined(SubSeq(given, 1, key - 1)) /\ Checked(given, Len(given))
      /\ total = Len(Joined(given))
  BY <1>1, <1>3 DEF IInv, Measured
<1>5. /\ key \in 1..Len(given) /\ key \in 0..Len(given) /\ (key + 1) - 1 = key
      /\ key + 1 \in 1..(Len(given) + 1)
  BY <1>1, <1>4
<1>6. Checked(given, key) /\ given[key] # NIL
  BY <1>4, <1>5 DEF Checked
<1>7. PICK a \in Seq(Byte), s \in Seq(Byte) :
        /\ a = copied /\ s = given[key]
        /\ Joined(SubSeq(given, 1, key)) = a \o Append(s, NUL)
  BY <1>4, <1>5, <1>6, NextArgument
<1>8. Len(a \o Append(s, NUL)) = Len(a) + Len(s) + 1
  <2>1. Append(s, NUL) \in Seq(Byte) /\ Len(Append(s, NUL)) = Len(s) + 1
    BY StringsAreBytes
  <2>2. PICK t \in Seq(Byte) : t = Append(s, NUL)
    BY <2>1
  <2>3. Len(a \o t) = Len(a) + Len(t) /\ Len(a) \in Nat /\ Len(s) \in Nat
    OBVIOUS
  <2>4. QED
    BY <2>1, <2>2, <2>3
<1>9. ~(Len(copied) + Len(given[key]) + 1 > total)
  <2>1. PICK x \in Nat, y \in Nat :
          x = Len(Joined(SubSeq(given, 1, key))) /\ y = total /\ x <= y
    BY <1>4, <1>5, FirstFit
  <2>2. Len(copied) + Len(given[key]) + 1 = x
    BY <1>7, <1>8, <2>1
  <2>3. QED
    BY <2>1, <2>2
<1>10. /\ copied' = a \o Append(s, NUL) /\ key' = key + 1 /\ pc' = "copy"
       /\ given' = given /\ table' = given /\ total' = total
  BY <1>1, <1>4, <1>6, <1>7, <1>9
<1>11. copied' = Joined(SubSeq(given', 1, key' - 1))
  BY <1>5, <1>7, <1>10
<1>12. QED
  BY <1>4, <1>5, <1>10, <1>11 DEF Measured

\* The strings are joined.
LEMMA Pexec0Inv ==
  ASSUME IInv, l_Pexec0
  PROVE  IInv'
<1>1. /\ pc = "copy" /\ key > Len(given) /\ pc' = "child"
      /\ tail' = TailOf(ArgsString)
      /\ block' = PushGemdosEnvString \o Joined(<<ARGV, Path>>) \o ArgsString \o <<NUL>>
      /\ UNCHANGED <<envp, table, given, rewrites, key, total, copied>>
  BY DEF l_Pexec0
<1>2. rewrites' \in Nat /\ envp' \in Seq(EnvString)
  BY <1>1 DEF IInv
<1>3. SUFFICES ASSUME rewrites = 0 PROVE Measured'
  BY <1>1, <1>2 DEF IInv, Measured
<1>4. /\ table = given /\ given \in Seq(Value) /\ key \in 1..(Len(given) + 1)
      /\ copied = Joined(SubSeq(given, 1, key - 1)) /\ Checked(given, Len(given))
      /\ total = Len(Joined(given))
  BY <1>1, <1>3 DEF IInv, Measured
<1>5. Len(given) \in Nat /\ key - 1 = Len(given)
  BY <1>1, <1>4
<1>6. copied = Joined(given) /\ total = Len(copied)
  <2>1. SubSeq(given, 1, Len(given)) = given
    BY <1>4, SubSeqFull
  <2>2. QED
    BY <1>4, <1>5, <2>1
<1>7. copied \in Seq(Byte)
  <2>1. Len(given) \in 0..Len(given) /\ SubSeq(given, 1, Len(given)) = given
    BY <1>4, <1>5, SubSeqFull
  <2>2. given \in Seq(Seq(Byte))
    BY <1>4, <2>1, CheckedAreStrings
  <2>3. QED
    BY <1>6, <2>2, JoinedIsBytes
<1>8. ArgsString = copied
  <2>1. total - Len(copied) = 0
    BY <1>6, <1>7
  <2>2. [i \in 1..(total - Len(copied)) |-> "?"] = <<>>
    BY <2>1
  <2>3. copied \o <<>> = copied
    BY <1>7, ConcatEmptySeq
  <2>4. QED
    BY <2>2, <2>3 DEF ArgsString
<1>9. /\ tail' = TailOf(copied')
      /\ block' = Joined(envp') \o Joined(<<ARGV, Path>>) \o copied' \o <<NUL>>
  BY <1>1, <1>8 DEF PushGemdosEnvString
<1>10. QED
  BY <1>1, <1>4, <1>6, <1>9 DEF Measured

\* Every step keeps the invariant; after a write to the table it promises nothing.
LEMMA StepInv ==
  ASSUME IInv, [Next]_vars
  PROVE  IInv'
<1>1. CASE Measure
  BY <1>1, MeasureInv
<1>2. CASE Allocate
  BY <1>2, AllocateInv
<1>3. CASE Copy
  BY <1>3, CopyInv
<1>4. CASE l_Pexec0
  BY <1>4, Pexec0Inv
<1>5. CASE Rewrite
  <2>1. rewrites' \in Nat /\ rewrites' # 0 /\ envp' \in Seq(EnvString)
    BY <1>5 DEF Rewrite, IInv
  <2>2. QED
    BY <2>1 DEF IInv, Measured
<1>6. CASE UNCHANGED vars
  BY <1>6 DEF vars, IInv, Measured
<1>7. QED
  BY <1>1, <1>2, <1>3, <1>4, <1>5, <1>6 DEF Next

\* The two passes over the arguments agree, whatever their number and length:
\* unless a finalizer writes to the table between them the copy does not leave
\* its buffer, nor a part of it unwritten.
THEOREM CopyAlwaysAsMeasured == Spec => []CopyIsAsMeasured
<1>1. IInv => CopyIsAsMeasured
  BY DEF IInv, Measured, CopyIsAsMeasured
<1>2. QED
  BY <1>1, InitInv, StepInv, PTL DEF Spec
-------------------------------------------------------------------------------
(* The child reads the block.                                              *)

\* What stands before the first string that is looked for.
LEMMA BeforeFirst ==
  ASSUME NEW strings, NEW x, NEW n \in Nat, Len(strings) \in Nat, n < Len(strings),
         strings[n + 1] = x, \A i \in 1..n : strings[i] # x
  PROVE  Before(strings, x) = SubSeq(strings, 1, n)
<1> DEFINE I == {i \in 1..Len(strings) : strings[i] = x}
<1>1. n + 1 \in I /\ \A i \in I : n + 1 <= i
  OBVIOUS
<1>2. \A k : k \in I /\ (\A i \in I : k <= i) => k = n + 1
  BY <1>1
<1>3. Min(I) = n + 1 /\ I # {}
  <2> HIDE DEF I
  <2>1. QED
    BY <1>1, <1>2, Zenon DEF Min
<1>4. SelectInSeq(strings, LAMBDA s : s = x) = n + 1
  BY <1>3 DEF SelectInSeq
<1>5. (n + 1) - 1 = n
  OBVIOUS
<1>6. QED
  BY <1>4, <1>5 DEF Before

\* A string of the block: not empty, and without a zero byte.
InBlock(string) ==
  string \in Seq(Byte) /\ string # <<>> /\ \A i \in 1..Len(string) : string[i] # NUL

\* The strings of a block are read as they were joined, up to the empty one.
LEMMA BlockIsRead ==
  ASSUME NEW strings \in Seq(Seq(Byte)), \A k \in 1..Len(strings) : InBlock(strings[k])
  PROVE  Before(Pieces(Joined(strings) \o <<NUL>>, NUL), <<>>) = strings
<1>1. PICK n \in Nat : n = Len(strings)
  OBVIOUS
<1> DEFINE ended == strings \o << <<>> >>
           all == Append(ended, <<>>)
<1>2. << <<>> >> \in Seq(Seq(Byte)) /\ Len(<< <<>> >>) = 1 /\ << <<>> >>[1] = <<>>
  <2>1. <<>> \in Seq(Byte)
    OBVIOUS
  <2>2. QED
    BY <2>1
<1>3. /\ ended \in Seq(Seq(Byte)) /\ Len(ended) = n + 1
      /\ \A i \in 1..(n + 1) : ended[i] = IF i <= n THEN strings[i] ELSE << <<>> >>[i - n]
  <2> DEFINE one == << <<>> >>
  <2>1. one \in Seq(Seq(Byte)) /\ Len(one) = 1
    BY <1>2
  <2> HIDE DEF one
  <2>2. /\ strings \o one \in Seq(Seq(Byte)) /\ Len(strings \o one) = Len(strings) + Len(one)
        /\ \A i \in 1..(Len(strings) + Len(one)) :
             (strings \o one)[i] = IF i <= Len(strings) THEN strings[i]
                                   ELSE one[i - Len(strings)]
    BY <2>1, ConcatProperties
  <2>3. QED
    BY <1>1, <2>1, <2>2 DEF one
<1>4. /\ \A i \in 1..n : ended[i] = strings[i]
      /\ ended[n + 1] = <<>>
  <2>1. \A i \in 1..n : i \in 1..(n + 1) /\ i <= n
    OBVIOUS
  <2>2. n + 1 \in 1..(n + 1) /\ ~(n + 1 <= n) /\ (n + 1) - n = 1
    OBVIOUS
  <2> HIDE DEF ended
  <2>3. QED
    BY <1>2, <1>3, <2>1, <2>2
<1>5. Joined(strings) \o <<NUL>> = Joined(ended)
  <2>1. <<>> \in Seq(Byte) /\ Append(<<>>, NUL) = <<NUL>>
    OBVIOUS
  <2>2. Joined(<< <<>> >>) = <<NUL>>
    BY <2>1, JoinedOne
  <2>3. QED
    BY <1>2, <2>2, JoinedConcat
<1> HIDE DEF ended
<1>6. Pieces(Joined(ended), NUL) = all
  <2>1. \A j \in 1..Len(ended) : \A i \in 1..Len(ended[j]) : ended[j][i] # NUL
    <3> SUFFICES ASSUME NEW j \in 1..(n + 1), NEW i \in 1..Len(ended[j])
                 PROVE  ended[j][i] # NUL
      BY <1>3
    <3>1. CASE j = n + 1
      BY <1>4, <3>1
    <3>2. CASE j # n + 1
      <4>1. j \in 1..n
        BY <3>2
      <4>2. ended[j] = strings[j] /\ InBlock(strings[j])
        BY <1>1, <1>4, <4>1
      <4>3. QED
        BY <4>2 DEF InBlock
    <3>3. QED
      BY <3>1, <3>2
  <2>2. QED
    BY <1>3, <2>1, PiecesOfJoined
<1>7. /\ Len(all) = n + 2 /\ all[n + 1] = <<>> /\ all \in Seq(Seq(Byte))
      /\ \A i \in 1..n : all[i] = strings[i]
  <2>1. /\ Len(all) = (n + 1) + 1 /\ all \in Seq(Seq(Byte))
        /\ \A i \in 1..(n + 1) : all[i] = ended[i]
    BY <1>3
  <2>2. n + 1 \in 1..(n + 1) /\ (n + 1) + 1 = n + 2 /\ \A i \in 1..n : i \in 1..(n + 1)
    OBVIOUS
  <2> HIDE DEF all
  <2>3. QED
    BY <1>4, <2>1, <2>2
<1> HIDE DEF all
<1>8. Before(all, <<>>) = SubSeq(all, 1, n)
  <2>1. \A i \in 1..n : all[i] # <<>>
    BY <1>1, <1>7 DEF InBlock
  <2>2. Len(all) \in Nat /\ n < Len(all)
    BY <1>7
  <2>3. QED
    BY <1>7, <2>1, <2>2, BeforeFirst
<1>9. SubSeq(all, 1, n) = strings
  <2> DEFINE front == SubSeq(all, 1, n)
  <2>1. \A i \in 1..n : all[i] \in Seq(Byte)
    BY <1>1, <1>7
  <2>2. /\ front \in Seq(Seq(Byte)) /\ Len(front) = n
        /\ \A i \in 1..n : front[i] = all[i]
    BY <2>1, FrontOf
  <2> HIDE DEF front
  <2>4. Len(front) = Len(strings) /\ \A i \in 1..Len(front) : front[i] = strings[i]
    BY <1>1, <1>7, <2>2
  <2>5. front = strings
    BY <2>2, <2>4, SeqEqual
  <2>6. QED
    BY <2>5 DEF front
<1>10. QED
  BY <1>5, <1>6, <1>8, <1>9

\* An environment and arguments with ARGV= and the path between them are told
\* apart again.
LEMMA ListsAreTold ==
  ASSUME NEW env \in Seq(Seq(Byte)), NEW args \in Seq(Seq(Byte)),
         \A k \in 1..Len(env) : env[k] # ARGV
  PROVE  /\ Before((env \o <<ARGV, Path>>) \o args, ARGV) = env
         /\ SubSeq((env \o <<ARGV, Path>>) \o args, Len(env) + 2,
                   Len((env \o <<ARGV, Path>>) \o args)) = <<Path>> \o args
<1>1. PICK a \in Nat, b \in Nat : a = Len(env) /\ b = Len(args)
  OBVIOUS
<1> DEFINE mid == <<ARGV, Path>>
           envmid == env \o mid
           all == envmid \o args
           argv == <<Path>> \o args
<1>2. mid \in Seq(Seq(Byte)) /\ Len(mid) = 2 /\ mid[1] = ARGV /\ mid[2] = Path
      /\ Path \in Seq(Byte)
  BY StringsAreBytes
<1> HIDE DEF mid
<1>3. /\ envmid \in Seq(Seq(Byte)) /\ Len(envmid) = a + 2
      /\ \A i \in 1..(a + 2) : envmid[i] = IF i <= a THEN env[i] ELSE mid[i - a]
  <2>1. /\ envmid \in Seq(Seq(Byte)) /\ Len(envmid) = Len(env) + Len(mid)
        /\ \A i \in 1..(Len(env) + Len(mid)) :
             envmid[i] = IF i <= Len(env) THEN env[i] ELSE mid[i - Len(env)]
    BY <1>2, ConcatProperties
  <2>2. QED
    BY <1>1, <1>2, <2>1
<1> HIDE DEF envmid
<1>4. /\ all \in Seq(Seq(Byte)) /\ Len(all) = a + 2 + b
      /\ \A i \in 1..(a + 2 + b) :
           all[i] = IF i <= a + 2 THEN envmid[i] ELSE args[i - (a + 2)]
  <2>1. /\ all \in Seq(Seq(Byte)) /\ Len(all) = Len(envmid) + Len(args)
        /\ \A i \in 1..(Len(envmid) + Len(args)) :
             all[i] = IF i <= Len(envmid) THEN envmid[i] ELSE args[i - Len(envmid)]
    BY <1>3, ConcatProperties
  <2>2. QED
    BY <1>1, <1>3, <2>1
<1> HIDE DEF all
<1>5. /\ \A i \in 1..a : all[i] = env[i]
      /\ all[a + 1] = ARGV /\ all[a + 2] = Path
      /\ \A i \in 1..b : all[a + 2 + i] = args[i]
  <2>1. \A i \in 1..a : all[i] = env[i]
    <3>1. \A i \in 1..a : i \in 1..(a + 2) /\ i \in 1..(a + 2 + b) /\ i <= a /\ i <= a + 2
      OBVIOUS
    <3>2. QED
      BY <1>3, <1>4, <3>1
  <2>2. all[a + 1] = ARGV
    <3>1. /\ a + 1 \in 1..(a + 2) /\ a + 1 \in 1..(a + 2 + b) /\ ~(a + 1 <= a)
          /\ a + 1 <= a + 2 /\ (a + 1) - a = 1
      OBVIOUS
    <3>2. QED
      BY <1>2, <1>3, <1>4, <3>1
  <2>3. all[a + 2] = Path
    <3>1. /\ a + 2 \in 1..(a + 2) /\ a + 2 \in 1..(a + 2 + b) /\ ~(a + 2 <= a)
          /\ a + 2 <= a + 2 /\ (a + 2) - a = 2
      OBVIOUS
    <3>2. QED
      BY <1>2, <1>3, <1>4, <3>1
  <2>4. \A i \in 1..b : all[a + 2 + i] = args[i]
    <3>1. \A i \in 1..b : /\ a + 2 + i \in 1..(a + 2 + b) /\ ~(a + 2 + i <= a + 2)
                          /\ (a + 2 + i) - (a + 2) = i
      OBVIOUS
    <3>2. QED
      BY <1>4, <3>1
  <2>5. QED
    BY <2>1, <2>2, <2>3, <2>4
<1>6. Before(all, ARGV) = env
  <2> DEFINE front == SubSeq(all, 1, a)
  <2>1. Before(all, ARGV) = front
    <3>1. \A i \in 1..a : all[i] # ARGV
      BY <1>1, <1>5
    <3>2. Len(all) \in Nat /\ a < Len(all)
      BY <1>4
    <3>3. QED
      BY <1>5, <3>1, <3>2, BeforeFirst
  <2>2. /\ front \in Seq(Seq(Byte)) /\ Len(front) = a
        /\ \A i \in 1..a : front[i] = all[i]
    <3>1. \A i \in 1..a : all[i] \in Seq(Byte)
      BY <1>1, <1>5
    <3>2. QED
      BY <3>1, FrontOf
  <2> HIDE DEF front
  <2>4. Len(front) = Len(env) /\ \A i \in 1..Len(front) : front[i] = env[i]
    BY <1>1, <1>5, <2>2
  <2>5. front = env
    BY <2>2, <2>4, SeqEqual
  <2>6. QED
    BY <2>1, <2>5
<1>7. SubSeq(all, a + 2, a + 2 + b) = argv
  <2> DEFINE back == SubSeq(all, a + 2, a + 2 + b)
             one == <<Path>>
  <2>1. one \in Seq(Seq(Byte)) /\ Len(one) = 1 /\ one[1] = Path
    BY <1>2
  <2> HIDE DEF one
  <2>2. /\ one \o args \in Seq(Seq(Byte)) /\ Len(one \o args) = b + 1
        /\ \A i \in 1..(b + 1) : (one \o args)[i] = IF i <= 1 THEN one[i] ELSE args[i - 1]
    <3>1. /\ one \o args \in Seq(Seq(Byte)) /\ Len(one \o args) = Len(one) + Len(args)
          /\ \A i \in 1..(Len(one) + Len(args)) :
               (one \o args)[i] = IF i <= Len(one) THEN one[i] ELSE args[i - Len(one)]
      BY <2>1, ConcatProperties
    <3>2. Len(one) + Len(args) = b + 1
      BY <1>1, <2>1
    <3>3. QED
      BY <1>1, <2>1, <3>1, <3>2
  <2>3. /\ back \in Seq(Seq(Byte)) /\ Len(back) = b + 1
        /\ \A i \in 1..(b + 1) : back[i] = all[a + 1 + i]
    <3>1. PICK c \in Nat, d \in Nat : c = a + 1 /\ d = b + 1
      OBVIOUS
    <3>2. \A i \in 1..d : all[c + i] \in Seq(Byte)
      <4>1. \A i \in 1..d : c + i \in 1..(a + 2 + b)
        BY <3>1
      <4>2. \A x \in 1..(a + 2 + b) : all[x] \in Seq(Byte)
        BY <1>4
      <4>3. QED
        BY <4>1, <4>2
    <3>3. c + 1 = a + 2 /\ c + d = a + 2 + b
      BY <3>1
    <3>4. /\ SubSeq(all, c + 1, c + d) \in Seq(Seq(Byte)) /\ Len(SubSeq(all, c + 1, c + d)) = d
          /\ \A i \in 1..d : SubSeq(all, c + 1, c + d)[i] = all[c + i]
      BY <3>2, PartOf
    <3>5. QED
      BY <3>1, <3>3, <3>4
  <2> HIDE DEF back
  <2>4. ASSUME NEW i \in 1..(b + 1) PROVE back[i] = (one \o args)[i]
    <3>1. CASE i = 1
      <4>1. a + 1 + i = a + 2 /\ i <= 1
        BY <3>1
      <4>2. QED
        BY <1>5, <2>1, <2>2, <2>3, <3>1, <4>1
    <3>2. CASE i # 1
      <4>1. i - 1 \in 1..b /\ a + 1 + i = a + 2 + (i - 1) /\ ~(i <= 1)
        BY <3>2
      <4>2. back[i] = all[a + 1 + i]
        BY <2>3
      <4>3. (one \o args)[i] = args[i - 1]
        BY <2>2, <4>1
      <4>4. all[a + 2 + (i - 1)] = args[i - 1]
        BY <1>5, <4>1
      <4>5. QED
        BY <4>1, <4>2, <4>3, <4>4
    <3>3. QED
      BY <3>1, <3>2
  <2>5. back = one \o args
    <3>1. Len(back) = Len(one \o args) /\ \A i \in 1..Len(back) : back[i] = (one \o args)[i]
      BY <2>2, <2>3, <2>4
    <3>2. QED
      BY <2>2, <2>3, <3>1, SeqEqual
  <2>6. QED
    BY <2>5 DEF back, one
<1>8. QED
  BY <1>1, <1>4, <1>6, <1>7 DEF all, envmid, mid

\* The strings of the child's block can stand in one.
LEMMA GivenInBlock ==
  ASSUME given \in Seq(Value), Checked(given, Len(given)), Without(NUL)
  PROVE  given \in Seq(Seq(Byte)) /\ \A k \in 1..Len(given) : InBlock(given[k])
<1>1. PICK n \in Nat : n = Len(given)
  OBVIOUS
<1>2. n \in 0..Len(given)
  BY <1>1
<1>3. \A k \in 1..n : given[k] \in Seq(Byte)
  BY <1>1, <1>2, CheckedAreStrings
<1>4. given \in Seq(Seq(Byte))
  BY <1>1, <1>3
<1>5. ASSUME NEW k \in 1..n
      PROVE  InBlock(given[k])
  <2>1. given[k] # <<>>
    BY <1>1 DEF Checked
  <2>2. NUL \notin ToSet(given[k])
    <3>1. k \in DOMAIN given
      BY <1>1
    <3>2. QED
      BY <3>1 DEF Without
  <2>3. \A i \in 1..Len(given[k]) : given[k][i] # NUL
    BY <1>3, <2>2 DEF ToSet
  <2>4. QED
    BY <1>3, <2>1, <2>3 DEF InBlock
<1>6. QED
  BY <1>1, <1>4, <1>5

\* and so is what an environment holds, which is never ARGV=.
LEMMA EnvironmentInBlock ==
  ASSUME envp \in Seq(EnvString)
  PROVE  /\ envp \in Seq(Seq(Byte))
         /\ \A k \in 1..Len(envp) : InBlock(envp[k]) /\ envp[k] # ARGV
<1>1. EnvString \subseteq Seq(Byte)
  BY StringsAreBytes
<1>2. envp \in Seq(Seq(Byte))
  BY <1>1
<1>3. ASSUME NEW k \in 1..Len(envp)
      PROVE  InBlock(envp[k]) /\ envp[k] # ARGV
  <2>1. PICK s \in EnvString : s = envp[k]
    OBVIOUS
  <2>2. s \in Seq(Byte) /\ s \notin {<<>>, ARGV} /\ NUL \notin ToSet(s)
    BY <1>1, EnvironmentHoldsStrings
  <2>3. \A i \in 1..Len(s) : s[i] # NUL
    BY <2>2 DEF ToSet
  <2>4. QED
    BY <2>1, <2>2, <2>3 DEF InBlock
<1>4. QED
  BY <1>2, <1>3

\* The block of the child is read back.
LEMMA ChildReadsBlock ==
  ASSUME IInv
  PROVE  ChildGetsWhatWasGiven
<1> SUFFICES ASSUME pc = "child", rewrites = 0, Without(NUL)
             PROVE  ChildArgv = <<Path>> \o given /\ ChildEnv = envp
  BY DEF ChildGetsWhatWasGiven
<1>1. /\ given \in Seq(Value) /\ Checked(given, Len(given)) /\ envp \in Seq(EnvString)
      /\ block = Joined(envp) \o Joined(<<ARGV, Path>>) \o Joined(given) \o <<NUL>>
  BY DEF IInv, Measured
<1>2. given \in Seq(Seq(Byte)) /\ \A k \in 1..Len(given) : InBlock(given[k])
  BY <1>1, GivenInBlock
<1>3. /\ envp \in Seq(Seq(Byte))
      /\ \A k \in 1..Len(envp) : InBlock(envp[k]) /\ envp[k] # ARGV
  BY <1>1, EnvironmentInBlock
<1> DEFINE mid == <<ARGV, Path>>
           envmid == envp \o mid
           all == envmid \o given
<1>4. mid \in Seq(Seq(Byte)) /\ \A k \in 1..Len(mid) : InBlock(mid[k])
  <2>1. InBlock(ARGV)
    <3>1. ARGV \in Seq(Byte) /\ Len(ARGV) = 1 /\ ARGV[1] = "ARGV=" /\ ARGV # <<>>
      BY StringsAreBytes DEF ARGV
    <3>2. QED
      BY <3>1 DEF InBlock, NUL
  <2>2. InBlock(Path)
    <3>1. Path \in Seq(Byte) /\ Len(Path) = 1 /\ Path[1] = "p" /\ Path # <<>>
      BY StringsAreBytes DEF Path
    <3>2. QED
      BY <3>1 DEF InBlock, NUL
  <2>3. Len(mid) = 2 /\ mid[1] = ARGV /\ mid[2] = Path /\ mid \in Seq(Seq(Byte))
    BY StringsAreBytes
  <2>4. \A k \in 1..2 : k = 1 \/ k = 2
    OBVIOUS
  <2> HIDE DEF mid
  <2>5. QED
    BY <2>1, <2>2, <2>3, <2>4
<1>5. ASSUME NEW s \in Seq(Seq(Byte)), NEW t \in Seq(Seq(Byte)),
             \A k \in 1..Len(s) : InBlock(s[k]), \A k \in 1..Len(t) : InBlock(t[k])
      PROVE  \A k \in 1..Len(s \o t) : InBlock((s \o t)[k])
  <2>1. PICK a \in Nat, b \in Nat : a = Len(s) /\ b = Len(t)
    OBVIOUS
  <2>2. /\ Len(s \o t) = a + b
        /\ \A i \in 1..(a + b) : (s \o t)[i] = IF i <= a THEN s[i] ELSE t[i - a]
    BY <2>1, ConcatProperties
  <2>3. ASSUME NEW k \in 1..(a + b) PROVE InBlock((s \o t)[k])
    <3>1. CASE k <= a
      <4>1. (s \o t)[k] = s[k] /\ k \in 1..a
        BY <2>2, <3>1
      <4>2. InBlock(s[k])
        BY <1>5, <2>1, <4>1
      <4>3. QED
        BY <4>1, <4>2
    <3>2. CASE ~(k <= a)
      <4>1. k - a \in 1..b
        BY <3>2
      <4>2. QED
        <5>1. (s \o t)[k] = t[k - a]
          BY <2>2, <3>2
        <5>2. InBlock(t[k - a])
          BY <1>5, <2>1, <4>1
        <5>3. QED
          BY <5>1, <5>2
    <3>3. QED
      BY <3>1, <3>2
  <2>4. QED
    BY <2>2, <2>3
<1> HIDE DEF mid
<1>6. /\ envmid \in Seq(Seq(Byte)) /\ Joined(envmid) = Joined(envp) \o Joined(mid)
      /\ \A k \in 1..Len(envmid) : InBlock(envmid[k])
  BY <1>3, <1>4, <1>5, JoinedConcat
<1> HIDE DEF envmid
<1>7. /\ all \in Seq(Seq(Byte)) /\ Joined(all) = Joined(envmid) \o Joined(given)
      /\ \A k \in 1..Len(all) : InBlock(all[k])
  BY <1>2, <1>5, <1>6, JoinedConcat
<1> HIDE DEF all
<1>8. block = Joined(all) \o <<NUL>>
  BY <1>1, <1>6, <1>7 DEF mid
<1>9. ChildStrings = all
  BY <1>7, <1>8, BlockIsRead DEF ChildStrings
<1>10. /\ Before(all, ARGV) = envp
       /\ SubSeq(all, Len(envp) + 2, Len(all)) = <<Path>> \o given
  BY <1>2, <1>3, ListsAreTold DEF all, envmid, mid
<1>11. ChildEnv = envp
  BY <1>9, <1>10 DEF ChildEnv
<1>12. QED
  BY <1>9, <1>10, <1>11 DEF ChildArgv

\* Whatever the environment holds and however many arguments are given, the child
\* finds the path and exactly these arguments behind ARGV= and inherits the
\* environment, when no argument holds a zero byte and no finalizer interfered.
THEOREM ChildAlwaysGetsWhatWasGiven == Spec => []ChildGetsWhatWasGiven
BY InitInv, StepInv, ChildReadsBlock, PTL DEF Spec
-------------------------------------------------------------------------------
(* A program that does not know ARGV reads the tail.                       *)

\* Strings without a byte, joined, do not hold it unless it ends them.
LEMMA NoneHolds ==
  ASSUME NEW strings \in Seq(Seq(Byte)), NEW bytes \in Seq(Byte), NEW n \in Nat,
         n = Len(strings), NEW at \in [0..n -> Nat], Layout(bytes, strings, at, n),
         NEW b, \A k \in 1..n : \A i \in 1..Len(strings[k]) : strings[k][i] # b,
         b # NUL
  PROVE  \A p \in 1..Len(bytes) : bytes[p] # b
<1> SUFFICES ASSUME NEW p \in 1..Len(bytes) PROVE bytes[p] # b
  OBVIOUS
<1>1. /\ at[0] = 0 /\ at[n] = Len(bytes)
      /\ bytes[p] = NUL <=> \E j \in 1..n : p = at[j]
      /\ \A j \in 1..n : at[j] = at[j - 1] + Len(strings[j]) + 1
      /\ \A j \in 1..n : \A i \in 1..Len(strings[j]) : bytes[at[j - 1] + i] = strings[j][i]
  BY DEF Layout
<1> DEFINE S == {k \in 0..n : at[k] < p}
<1>2. 0 \in S
  BY <1>1
<1>3. PICK k \in 0..n : k \in S /\ \A j \in 0..n : j \in S => j <= k
  BY <1>2, HasGreatest
<1>4. k # n
  <2>1. at[n] \in Nat /\ n \in 0..n
    OBVIOUS
  <2>2. ~(at[n] < p)
    BY <1>1, <2>1
  <2>3. QED
    BY <1>3, <2>2
<1>5. PICK j \in 1..n : j = k + 1 /\ j - 1 = k /\ j \in 0..n
  BY <1>4
<1>6. at[j] >= p
  <2>1. ~(j <= k)
    BY <1>5
  <2>2. j \notin S
    BY <1>3, <1>5, <2>1
  <2>3. at[j] \in Nat
    BY <1>5
  <2>4. QED
    BY <1>5, <2>2, <2>3
<1>7. CASE p = at[j]
  BY <1>1, <1>7
<1>8. CASE p # at[j]
  <2>1. PICK l \in Nat : l = Len(strings[j])
    <3>1. strings[j] \in Seq(Byte)
      BY <1>5
    <3>2. QED
      BY <3>1
  <2>2. PICK a \in Nat : a = at[k] /\ a < p
    BY <1>3
  <2>3. at[j] = a + l + 1
    BY <1>1, <1>5, <2>1, <2>2
  <2>4. PICK i \in 1..l : p = a + i
    <3>1. p - a \in 1..l /\ p = a + (p - a)
      <4>1. PICK c \in Nat : c = at[j] /\ c >= p /\ c # p
        BY <1>5, <1>6, <1>8
      <4>2. c = a + l + 1
        BY <2>3, <4>1
      <4>3. QED
        BY <2>2, <4>1, <4>2
    <3>2. QED
      BY <3>1
  <2>5. bytes[p] = strings[j][i]
    <3>1. \A x \in 1..Len(strings[j]) : bytes[at[j - 1] + x] = strings[j][x]
      BY <1>1
    <3>2. QED
      BY <1>5, <2>1, <2>2, <2>4, <3>1
  <2>6. strings[j][i] # b
    BY <2>1, <2>4
  <2>7. QED
    BY <2>5, <2>6
<1>9. QED
  BY <1>7, <1>8

\* The pieces of the tail are the arguments it has whole, and the beginning of
\* the next one or nothing.
LEMMA PiecesOfTail ==
  ASSUME NEW args \in Seq(Seq(Byte)),
         \A k \in 1..Len(args) : \A i \in 1..Len(args[k]) : args[k][i] \notin {NUL, SPACE}
  PROVE  \E j \in 0..Len(args), l \in Nat :
           /\ Len(Pieces(TailOf(Joined(args)), SPACE)) = j + 1
           /\ \A k \in 1..j : Pieces(TailOf(Joined(args)), SPACE)[k] = args[k]
           /\ IF l = 0
              THEN Pieces(TailOf(Joined(args)), SPACE)[j + 1] = <<>>
              ELSE /\ j < Len(args) /\ l <= Len(args[j + 1])
                   /\ Pieces(TailOf(Joined(args)), SPACE)[j + 1] = SubSeq(args[j + 1], 1, l)
           /\ Len(Joined(args)) <= TailMax => j = Len(args) /\ l = 0
<1>1. PICK n \in Nat : n = Len(args)
  OBVIOUS
<1>2. \A k \in 1..n : args[k] \in Seq(Byte)
  BY <1>1
<1>3. PICK bytes \in Seq(Byte), at \in [0..n -> Nat] :
        bytes = Joined(args) /\ Layout(bytes, args, at, n)
  BY <1>1, JoinedIsBytes, JoinedLayout
<1>4. PICK size \in Nat : size = Len(bytes)
  OBVIOUS
<1>5. PICK m \in Nat :
        m = Min({TailMax, size}) /\ m <= size /\ (size <= TailMax => m = size)
  <2>1. TailMax \in Nat
    BY SizesAreNumbers
  <2>2. Min({TailMax, size}) \in {TailMax, size}
        /\ Min({TailMax, size}) <= TailMax /\ Min({TailMax, size}) <= size
    <3>1. CASE TailMax <= size
      <4>1. TailMax \in {TailMax, size} /\ \A x \in {TailMax, size} : TailMax <= x
        BY <2>1, <3>1
      <4>2. \A y \in {TailMax, size} : (\A x \in {TailMax, size} : y <= x) => y = TailMax
        BY <2>1, <3>1
      <4>3. Min({TailMax, size}) = TailMax
        BY <4>1, <4>2 DEF Min
      <4>4. QED
        BY <2>1, <3>1, <4>3
    <3>2. CASE ~(TailMax <= size)
      <4>1. size \in {TailMax, size} /\ \A x \in {TailMax, size} : size <= x
        BY <2>1, <3>2
      <4>2. \A y \in {TailMax, size} : (\A x \in {TailMax, size} : y <= x) => y = size
        BY <2>1, <3>2
      <4>3. Min({TailMax, size}) = size
        BY <4>1, <4>2 DEF Min
      <4>4. QED
        BY <2>1, <3>2, <4>3
    <3>3. QED
      BY <3>1, <3>2
  <2>3. QED
    BY <2>1, <2>2
<1> DEFINE t == [i \in 1..m |-> IF bytes[i] = NUL THEN SPACE ELSE bytes[i]]
<1>6. TailOf(Joined(args)) = t
  BY <1>3, <1>4, <1>5 DEF TailOf
<1>7. /\ at[0] = 0 /\ at[n] = size
      /\ \A i, j \in 0..n : i < j => at[i] < at[j]
      /\ \A p \in 1..size : bytes[p] = NUL <=> \E j \in 1..n : p = at[j]
      /\ \A j \in 1..n : at[j] = at[j - 1] + Len(args[j]) + 1
      /\ \A j \in 1..n : \A i \in 1..Len(args[j]) : bytes[at[j - 1] + i] = args[j][i]
  BY <1>3, <1>4 DEF Layout
<1>8. \A p \in 1..size : bytes[p] # SPACE
  <2>1. SPACE # NUL
    BY DEF SPACE, NUL
  <2>2. \A k \in 1..n : \A i \in 1..Len(args[k]) : args[k][i] # SPACE
    BY <1>1
  <2>3. QED
    BY <1>1, <1>3, <1>4, <2>1, <2>2, NoneHolds
<1>9. /\ t \in Seq(Byte) /\ Len(t) = m
      /\ \A i \in 1..m : t[i] = IF bytes[i] = NUL THEN SPACE ELSE bytes[i]
  <2>1. \A i \in 1..m : bytes[i] \in Byte
    BY <1>4, <1>5
  <2>2. SPACE \in Byte
    BY StringsAreBytes
  <2>3. t \in [1..m -> Byte]
    BY <2>1, <2>2
  <2>4. QED
    BY <2>3
<1> HIDE DEF t
<1> DEFINE S == {k \in 0..n : at[k] <= m}
<1>10. PICK j \in 0..n : j \in S /\ \A k \in 0..n : k \in S => k <= j
  <2>1. 0 \in S
    BY <1>7
  <2>2. QED
    BY <2>1, HasGreatest
<1>11. /\ at[j] \in Nat /\ at[j] <= m
       /\ \A k \in 0..n : at[k] \in Nat /\ (at[k] <= m <=> k <= j)
  <2>1. at[j] \in Nat /\ at[j] <= m
    BY <1>10
  <2>2. ASSUME NEW k \in 0..n PROVE at[k] \in Nat /\ (at[k] <= m <=> k <= j)
    <3>1. at[k] \in Nat
      OBVIOUS
    <3>2. k < j => at[k] < at[j]
      BY <1>7
    <3>3. k < j \/ k = j \/ k > j
      OBVIOUS
    <3>4. at[k] <= m => k <= j
      BY <1>10
    <3>5. k <= j => at[k] <= m
      BY <2>1, <3>1, <3>2
    <3>6. QED
      BY <3>1, <3>4, <3>5
  <2>3. QED
    BY <2>1, <2>2
<1> HIDE DEF S
<1> DEFINE end == m + 1
           e == [k \in 0..(j + 1) |-> IF k = j + 1 THEN end ELSE at[k]]
<1>12. end \in Nat /\ at[j] < end
  BY <1>11
<1> HIDE DEF end
<1>13. j \in Nat /\ \A k \in 0..j : k \in 0..n /\ k # j + 1 /\ k \in 0..(j + 1)
  OBVIOUS
<1>14. e \in [0..(j + 1) -> Nat]
  BY <1>11, <1>12
<1>15. e[j + 1] = end /\ \A k \in 0..j : e[k] = at[k]
  BY <1>13
<1> HIDE DEF e
<1>16. ASSUME NEW i \in 0..(j + 1), NEW k \in 0..(j + 1), i < k
       PROVE  e[i] < e[k]
  <2>1. i \in 0..j /\ i \in 0..n
    BY <1>16
  <2>2. CASE k = j + 1
    <3>1. at[i] \in Nat /\ at[i] <= at[j]
      <4>1. i < j \/ i = j
        BY <2>1
      <4>2. i < j => at[i] < at[j]
        BY <1>7, <2>1
      <4>3. at[i] \in Nat
        BY <2>1
      <4>4. QED
        BY <1>11, <4>1, <4>2, <4>3
    <3>2. QED
      BY <1>11, <1>12, <1>15, <2>1, <2>2, <3>1
  <2>3. CASE k # j + 1
    <3>1. k \in 0..j /\ k \in 0..n
      BY <2>3
    <3>2. QED
      BY <1>7, <1>15, <1>16, <2>1, <3>1
  <2>4. QED
    BY <2>2, <2>3
<1>17. \A p \in 1..Len(t) : t[p] = SPACE <=> \E k \in 1..j : p = e[k]
  <2> SUFFICES ASSUME NEW p \in 1..m PROVE t[p] = SPACE <=> \E k \in 1..j : p = e[k]
    BY <1>9
  <2>1. p \in 1..size
    BY <1>5
  <2>2. t[p] = SPACE <=> bytes[p] = NUL
    BY <1>8, <1>9, <2>1
  <2>3. bytes[p] = NUL <=> \E k \in 1..n : p = at[k]
    BY <1>7, <2>1
  <2>4. ASSUME NEW k \in 1..n, p = at[k] PROVE k \in 1..j
    <3>1. at[k] <= m /\ k \in 0..n
      BY <2>4
    <3>2. k <= j
      BY <1>11, <3>1
    <3>3. QED
      BY <3>2
  <2>5. \A k \in 1..j : k \in 1..n /\ e[k] = at[k]
    BY <1>15
  <2>6. (\E k \in 1..n : p = at[k]) <=> \E k \in 1..j : p = e[k]
    BY <2>4, <2>5
  <2>7. QED
    BY <2>2, <2>3, <2>6
<1>18. e[0] = 0 /\ e[j + 1] = Len(t) + 1
  <2>1. 0 \in 0..j
    BY <1>13
  <2>2. QED
    BY <1>7, <1>9, <1>15, <2>1 DEF end
<1>19. Pieces(t, SPACE) = Between(t, e, j)
  <2>1. t \in Seq(Byte) /\ j \in Nat
    BY <1>9, <1>13
  <2>2. \A i, k \in 0..(j + 1) : i < k => e[i] < e[k]
    BY <1>16
  <2>3. QED
    <3>1. Separated(t, SPACE, e, j)
      BY <1>14, <1>17, <1>18, <2>1, <2>2 DEF Separated
    <3>2. QED
      BY <3>1, PiecesAt
<1> DEFINE pieces == Pieces(t, SPACE)
<1>20. /\ Len(pieces) = j + 1
       /\ \A k \in 1..(j + 1) : pieces[k] = SubSeq(t, e[k - 1] + 1, e[k] - 1)
  <2>1. pieces = [k \in 1..(j + 1) |-> SubSeq(t, e[k - 1] + 1, e[k] - 1)]
    BY <1>19 DEF Between
  <2> HIDE DEF pieces
  <2>2. QED
    <3>1. j + 1 \in Nat
      BY <1>13
    <3>2. Len([k \in 1..(j + 1) |-> SubSeq(t, e[k - 1] + 1, e[k] - 1)]) = j + 1
      BY <3>1
    <3>3. Len(pieces) = j + 1
      BY <2>1, <3>2
    <3>4. \A k \in 1..(j + 1) : pieces[k] = SubSeq(t, e[k - 1] + 1, e[k] - 1)
      BY <2>1
    <3>5. QED
      BY <3>3, <3>4
<1> HIDE DEF pieces
<1>21. ASSUME NEW k \in 1..n, NEW i \in 1..Len(args[k]), at[k - 1] + i <= m
       PROVE  t[at[k - 1] + i] = args[k][i]
  <2>1. k - 1 \in 0..n /\ i \in Nat /\ i >= 1
    <3>1. PICK l \in Nat : l = Len(args[k])
      BY <1>2
    <3>2. QED
      BY <3>1
  <2>2. PICK p \in 1..m : p = at[k - 1] + i
    BY <1>11, <1>21, <2>1
  <2>3. bytes[p] = args[k][i] /\ args[k][i] # NUL
    <3>1. \A x \in 1..Len(args[k]) : bytes[at[k - 1] + x] = args[k][x]
      BY <1>7
    <3>2. bytes[at[k - 1] + i] = args[k][i]
      BY <3>1
    <3>3. args[k][i] \notin {NUL, SPACE}
      BY <1>1
    <3>4. QED
      BY <2>2, <3>2, <3>3
  <2>4. t[p] = bytes[p]
    BY <1>9, <2>3
  <2>5. QED
    BY <2>2, <2>3, <2>4
<1>22. ASSUME NEW k \in 1..j
       PROVE  pieces[k] = args[k]
  <2>1. k \in 1..n /\ k - 1 \in 0..j /\ k \in 0..j /\ k \in 1..(j + 1) /\ k - 1 \in 0..n
        /\ k \in 0..n
    OBVIOUS
  <2>2. PICK s \in Seq(Byte), l \in Nat : s = args[k] /\ l = Len(s)
    BY <1>2, <2>1
  <2>3. PICK a \in Nat : a = at[k - 1] /\ a = e[k - 1]
    BY <1>11, <1>15, <2>1
  <2>4. e[k] = a + l + 1 /\ a + l + 1 <= m
    <3>1. at[k] = a + l + 1 /\ e[k] = at[k]
      BY <1>7, <1>15, <2>1, <2>2, <2>3
    <3>2. at[k] <= m
      BY <1>11, <2>1
    <3>3. QED
      BY <3>1, <3>2
  <2>5. ASSUME NEW i \in 1..l PROVE t[a + i] = s[i]
    <3>1. a + i <= m
      BY <2>4
    <3>2. QED
      BY <1>21, <2>1, <2>2, <2>3, <3>1
  <2>6. SubSeq(t, a + 1, a + l) = SubSeq(s, 1, l)
    <3>1. a + l <= Len(t) /\ l <= Len(s)
      BY <1>9, <2>2, <2>4
    <3>2. QED
      BY <1>9, <2>5, <3>1, PieceIs
  <2>7. SubSeq(s, 1, l) = s
    BY <2>2, SubSeqFull
  <2>8. pieces[k] = SubSeq(t, a + 1, a + l)
    <3>1. (a + l + 1) - 1 = a + l
      OBVIOUS
    <3>2. QED
      BY <1>20, <2>1, <2>3, <2>4, <3>1
  <2>9. QED
    BY <2>2, <2>6, <2>7, <2>8
<1>23. PICK a \in Nat, l \in Nat : a = at[j] /\ m = a + l
  <2>1. m - at[j] \in Nat /\ m = at[j] + (m - at[j])
    BY <1>11
  <2>2. QED
    BY <1>11, <2>1
<1>24. pieces[j + 1] = SubSeq(t, a + 1, a + l)
  <2>1. /\ (j + 1) - 1 = j /\ j + 1 \in 1..(j + 1) /\ j \in 0..j
        /\ end - 1 = a + l /\ e[j] = a
    <3>1. (j + 1) - 1 = j /\ j + 1 \in 1..(j + 1) /\ j \in 0..j
      BY <1>13
    <3>2. e[j] = a
      BY <1>15, <1>23, <3>1
    <3>3. end - 1 = a + l
      BY <1>23 DEF end
    <3>4. QED
      BY <3>1, <3>2, <3>3
  <2>2. QED
    BY <1>15, <1>20, <2>1
<1>25. IF l = 0
       THEN pieces[j + 1] = <<>>
       ELSE /\ j < n /\ l <= Len(args[j + 1])
            /\ pieces[j + 1] = SubSeq(args[j + 1], 1, l)
  <2>1. CASE l = 0
    <3>1. a + l < a + 1 /\ a + 1 \in Int /\ a + l \in Int
      BY <2>1
    <3>2. SubSeq(t, a + 1, a + l) = <<>>
      BY <3>1, SubSeqEmpty
    <3>3. QED
      BY <1>24, <2>1, <3>2
  <2>2. CASE l # 0
    <3>1. j < n
      <4>1. a < size
        BY <1>5, <1>23, <2>2
      <4>2. j # n
        BY <1>7, <1>23, <4>1
      <4>3. QED
        BY <4>2
    <3>2. PICK k \in 1..n : k = j + 1 /\ k - 1 = j /\ k \in 0..n
      BY <3>1
    <3>3. PICK s \in Seq(Byte), len \in Nat : s = args[k] /\ len = Len(s)
      BY <1>2
    <3>4. at[k] = a + len + 1
      BY <1>7, <1>23, <3>2, <3>3
    <3>5. ~(at[k] <= m)
      BY <1>11, <3>2
    <3>6. l <= len
      BY <1>23, <3>4, <3>5
    <3>7. ASSUME NEW i \in 1..l PROVE t[a + i] = s[i]
      <4>1. a + i <= m /\ i \in 1..len
        BY <1>23, <3>6
      <4>2. QED
        <5>1. i \in 1..Len(args[k]) /\ at[k - 1] = a
          BY <1>23, <3>2, <3>3, <4>1
        <5>2. t[at[k - 1] + i] = args[k][i]
          BY <1>21, <4>1, <5>1
        <5>3. QED
          BY <3>3, <5>1, <5>2
    <3>8. SubSeq(t, a + 1, a + l) = SubSeq(s, 1, l)
      <4>1. a + l <= Len(t) /\ l <= Len(s)
        BY <1>9, <1>23, <3>3, <3>6
      <4>2. QED
        BY <1>9, <3>7, <4>1, PieceIs
    <3>9. QED
      BY <1>24, <2>2, <3>1, <3>2, <3>3, <3>6, <3>8
  <2>3. QED
    BY <2>1, <2>2
<1>26. ASSUME size <= TailMax PROVE j = n /\ l = 0
  <2>1. m = size
    BY <1>5, <1>26
  <2>2. n <= j
    <3>1. n \in 0..n /\ at[n] <= m
      BY <1>7, <2>1
    <3>2. QED
      BY <1>11, <3>1
  <2>3. j = n
    BY <2>2
  <2>4. QED
    BY <1>7, <1>23, <2>1, <2>3
<1>27. pieces = Pieces(TailOf(Joined(args)), SPACE)
  BY <1>6 DEF pieces
<1>28. QED
  BY <1>1, <1>3, <1>4, <1>20, <1>22, <1>25, <1>26, <1>27

\* The tail is read back, as far as it goes.
LEMMA TailIsRead ==
  ASSUME IInv
  PROVE  TailIsCutList
<1> SUFFICES ASSUME pc = "child", rewrites = 0, Without(NUL), Without(SPACE)
             PROVE  LET n == Len(TailWords)
                    IN  /\ n <= Len(given)
                        /\ \A k \in 1..n :
                             IF k < n THEN TailWords[k] = given[k]
                             ELSE IsPrefix(TailWords[k], given[k])
                        /\ total <= TailMax => TailWords = given
  BY DEF TailIsCutList
<1>1. /\ given \in Seq(Value) /\ Checked(given, Len(given))
      /\ copied = Joined(given) /\ total = Len(copied) /\ tail = TailOf(copied)
  BY DEF IInv, Measured
<1>2. given \in Seq(Seq(Byte)) /\ \A k \in 1..Len(given) : InBlock(given[k])
  BY <1>1, GivenInBlock
<1>3. \A k \in 1..Len(given) : \A i \in 1..Len(given[k]) : given[k][i] \notin {NUL, SPACE}
  <2> SUFFICES ASSUME NEW k \in 1..Len(given), NEW i \in 1..Len(given[k])
               PROVE  given[k][i] \notin {NUL, SPACE}
    OBVIOUS
  <2>1. k \in DOMAIN given /\ given[k] \in Seq(Byte)
    BY <1>2
  <2>2. NUL \notin ToSet(given[k]) /\ SPACE \notin ToSet(given[k])
    BY <2>1 DEF Without
  <2>3. QED
    BY <2>1, <2>2 DEF ToSet
<1> DEFINE pieces == Pieces(tail, SPACE)
<1>4. PICK j \in 0..Len(given), l \in Nat :
        /\ Len(pieces) = j + 1
        /\ \A k \in 1..j : pieces[k] = given[k]
        /\ IF l = 0
           THEN pieces[j + 1] = <<>>
           ELSE /\ j < Len(given) /\ l <= Len(given[j + 1])
                /\ pieces[j + 1] = SubSeq(given[j + 1], 1, l)
        /\ total <= TailMax => j = Len(given) /\ l = 0
  BY <1>1, <1>2, <1>3, PiecesOfTail
<1>5. TailWords = IF pieces[Len(pieces)] = <<>> THEN Front(pieces) ELSE pieces
  BY DEF TailWords
<1> HIDE DEF pieces
<1>6. PICK n \in Nat : n = Len(given) /\ j \in 0..n /\ j + 1 \in Nat
  BY <1>2
<1>7. \A s \in Seq(Byte) : IsPrefix(s, s)
  BY DEF IsPrefix
<1>8. CASE l = 0
  <2> DEFINE front == SubSeq(pieces, 1, j)
  <2>1. TailWords = front
    <3>1. (j + 1) - 1 = j
      BY <1>6
    <3>2. QED
      BY <1>4, <1>5, <1>8, <3>1 DEF Front
  <2>2. \A k \in 1..j : pieces[k] = given[k] /\ given[k] \in Seq(Byte)
    BY <1>2, <1>4, <1>6
  <2>3. /\ front \in Seq(Seq(Byte)) /\ Len(front) = j
        /\ \A k \in 1..j : front[k] = given[k]
    <3>1. j \in Nat /\ \A k \in 1..j : pieces[k] \in Seq(Byte)
      BY <1>6, <2>2
    <3>2. /\ front \in Seq(Seq(Byte)) /\ Len(front) = j
          /\ \A k \in 1..j : front[k] = pieces[k]
      BY <3>1, FrontOf
    <3> HIDE DEF front
    <3>3. QED
      BY <2>2, <3>2
  <2> HIDE DEF front
  <2>4. j <= n
    BY <1>6
  <2>5. \A k \in 1..j : front[k] = given[k] /\ IsPrefix(front[k], given[k])
    BY <1>7, <2>2, <2>3
  <2>6. total <= TailMax => front = given
    <3>1. SUFFICES ASSUME total <= TailMax PROVE front = given
      OBVIOUS
    <3>2. j = n
      BY <1>4, <1>6, <3>1
    <3>3. QED
      BY <1>2, <1>6, <2>3, <3>2, SeqEqual
  <2>7. QED
    BY <1>6, <2>1, <2>3, <2>4, <2>5, <2>6
<1>9. CASE l # 0
  <2>1. /\ j < n /\ l <= Len(given[j + 1])
        /\ pieces[j + 1] = SubSeq(given[j + 1], 1, l)
    BY <1>4, <1>6, <1>9
  <2>2. PICK m \in 1..n : m = j + 1
    BY <1>6, <2>1
  <2>3. PICK s \in Seq(Byte) : s = given[m]
    BY <1>2, <1>6
  <2> DEFINE front == SubSeq(s, 1, l)
  <2>4. l <= Len(s) /\ pieces[m] = front
    BY <2>1, <2>2, <2>3
  <2>5. /\ front \in Seq(Byte) /\ Len(front) = l
        /\ \A i \in 1..l : front[i] = s[i]
    <3>1. PICK len \in Nat : len = Len(s) /\ l <= len
      BY <2>4
    <3>2. \A i \in 1..l : s[i] \in Byte
      BY <3>1
    <3>3. QED
      BY <3>2, FrontOf
  <2>6. IsPrefix(front, s)
    <3>1. SubSeq(front, 1, Len(front)) = front
      BY <2>5, SubSeqFull
    <3>2. SubSeq(s, 1, Len(front)) = front
      BY <2>5
    <3>3. QED
      BY <2>4, <2>5, <3>1, <3>2 DEF IsPrefix
  <2>7. pieces[Len(pieces)] # <<>>
    <3>1. front # <<>>
      BY <1>9, <2>5
    <3>2. Len(pieces) = m
      BY <1>4, <2>2
    <3> HIDE DEF front
    <3>3. QED
      BY <2>4, <3>1, <3>2
  <2>8. TailWords = pieces /\ Len(pieces) = m
    BY <1>4, <1>5, <2>2, <2>7
  <2> HIDE DEF front
  <2>9. ASSUME NEW k \in 1..m
        PROVE  IF k < m THEN pieces[k] = given[k] ELSE IsPrefix(pieces[k], given[k])
    <3>1. CASE k < m
      <4>1. k \in 1..j
        BY <1>6, <2>2, <3>1
      <4>2. QED
        BY <1>4, <3>1, <4>1
    <3>2. CASE ~(k < m)
      <4>1. k = m
        BY <3>2
      <4>2. QED
        BY <2>3, <2>4, <2>6, <3>2, <4>1
    <3>3. QED
      BY <3>1, <3>2
  <2>10. ~(total <= TailMax)
    BY <1>4, <1>9
  <2>11. QED
    BY <1>6, <2>8, <2>9, <2>10
<1>10. QED
  BY <1>8, <1>9

\* A program that knows only the command tail reads the first of the arguments,
\* the last of them perhaps cut, and all of them when they fit, when they hold
\* neither spaces nor zero bytes, whatever the length of the tail.
THEOREM TailIsAlwaysCutList == Spec => []TailIsCutList
BY InitInv, StepInv, TailIsRead, PTL DEF Spec
-------------------------------------------------------------------------------
(* Looking up variables.                                                   *)

\* The first "=" of a string, if it has one.
FirstEq(s) == SelectInSeq(s, LAMBDA b : b = EQ)

\* It is where the first pass over the string finds it, or 0.
LEMMA FirstEqOf ==
  ASSUME NEW s \in Seq(Byte)
  PROVE  \/ /\ FirstEq(s) = 0
            /\ \A i \in 1..Len(s) : s[i] # EQ
         \/ /\ FirstEq(s) \in 1..Len(s) /\ s[FirstEq(s)] = EQ
            /\ \A i \in 1..Len(s) : i < FirstEq(s) => s[i] # EQ
<1> DEFINE I == {i \in 1..Len(s) : s[i] = EQ}
<1>1. FirstEq(s) = IF I # {} THEN Min(I) ELSE 0
  BY DEF FirstEq, SelectInSeq
<1>2. CASE I = {}
  BY <1>1, <1>2
<1>3. CASE I # {}
  <2>1. I \in SUBSET Nat
    OBVIOUS
  <2> HIDE DEF I
  <2>2. \E n \in I : \A m \in I : n <= m
    BY <1>3, <2>1, HasLeast
  <2>3. Min(I) \in I /\ \A m \in I : Min(I) <= m
    BY <2>2 DEF Min
  <2>4. PICK e \in I : e = FirstEq(s) /\ \A m \in I : e <= m
    BY <1>1, <1>3, <2>3
  <2>5. e \in 1..Len(s) /\ s[e] = EQ
    BY <2>4 DEF I
  <2>6. ASSUME NEW i \in 1..Len(s), i < e PROVE s[i] # EQ
    <3>1. s[i] = EQ => i \in I
      BY DEF I
    <3>2. i \in I => e <= i
      BY <2>4
    <3>3. e \in Nat /\ i \in Nat
      BY <2>5
    <3>4. QED
      BY <2>6, <3>1, <3>2, <3>3
  <2>7. QED
    BY <2>4, <2>5, <2>6
<1>4. QED
  BY <1>2, <1>3

\* A string that begins with a name and "=" is a variable of this name, and what
\* follows is its content.
LEMMA NameFound ==
  ASSUME NEW s \in Seq(Byte), NEW name \in EnvName
  PROVE  /\ IsPrefix(Append(name, EQ), s) <=> IsVariable(s) /\ Name(s) = name
         /\ IsVariable(s) /\ Name(s) = name =>
              Content(s) = SubSeq(s, Len(name) + 2, Len(s))
<1>1. name \in Seq(Byte) /\ name # <<>> /\ \A i \in 1..Len(name) : name[i] # EQ
  <2>1. name \in Seq(Byte \ {NUL, EQ}) /\ name # <<>>
    BY NamesAreNames
  <2>2. \A i \in 1..Len(name) : name[i] \in Byte \ {NUL, EQ}
    BY <2>1
  <2>3. name \in Seq(Byte)
    BY <2>1, SeqMonotonic
  <2>4. QED
    BY <2>1, <2>2, <2>3
<1>2. PICK n \in Nat, l \in Nat : n = Len(name) /\ l = Len(s)
  BY <1>1
<1>3. n >= 1
  BY <1>1, <1>2
<1>4. PICK e \in Nat :
        /\ e = FirstEq(s)
        /\ \/ e = 0 /\ \A i \in 1..l : s[i] # EQ
           \/ /\ e \in 1..l /\ s[e] = EQ
              /\ \A i \in 1..l : i < e => s[i] # EQ
  BY <1>2, FirstEqOf
<1>5. /\ IsVariable(s) <=> e > 1
      /\ Name(s) = SubSeq(s, 1, e - 1)
      /\ Content(s) = SubSeq(s, e + 1, Len(s))
  BY <1>4 DEF IsVariable, Name, Content, FirstEq
<1>6. PICK p \in Seq(Byte) :
        /\ p = Append(name, EQ) /\ Len(p) = n + 1
        /\ \A i \in 1..n : p[i] = name[i]
        /\ p[n + 1] = EQ
  <2>1. EQ \in Byte
    BY StringsAreBytes
  <2>2. Append(name, EQ) \in Seq(Byte) /\ Len(Append(name, EQ)) = Len(name) + 1
    BY <1>1, <2>1
  <2>3. \A i \in 1..Len(name) : Append(name, EQ)[i] = name[i]
    BY <1>1, <2>1
  <2>4. Append(name, EQ)[Len(name) + 1] = EQ
    BY <1>1, <2>1
  <2>5. QED
    BY <1>2, <2>2, <2>3, <2>4
<1>7. ASSUME NEW k \in 0..l
      PROVE  /\ SubSeq(s, 1, k) \in Seq(Byte) /\ Len(SubSeq(s, 1, k)) = k
             /\ \A i \in 1..k : SubSeq(s, 1, k)[i] = s[i]
  <2>1. k \in Nat /\ \A i \in 1..k : s[i] \in Byte
    BY <1>2
  <2>2. QED
    BY <2>1, FrontOf
<1>8. SubSeq(p, 1, Len(p)) = p
  BY SubSeqFull
<1>9. ASSUME IsPrefix(p, s)
      PROVE  e = n + 1 /\ SubSeq(s, 1, n) = name
  <2>1. n + 1 <= l /\ p = SubSeq(s, 1, n + 1)
    BY <1>2, <1>6, <1>8, <1>9 DEF IsPrefix
  <2>2. n + 1 \in 0..l
    BY <2>1
  <2>3. \A i \in 1..(n + 1) : p[i] = s[i]
    BY <1>7, <2>1, <2>2
  <2>4. \A i \in 1..n : s[i] = name[i] /\ s[i] # EQ
    BY <1>1, <1>2, <1>6, <2>3
  <2>5. s[n + 1] = EQ /\ n + 1 \in 1..l
    BY <1>6, <2>1, <2>3
  <2>6. e \in 1..l /\ s[e] = EQ /\ e <= n + 1
    <3>1. e # 0
      BY <1>4, <2>5
    <3>2. e \in 1..l /\ s[e] = EQ /\ \A i \in 1..l : i < e => s[i] # EQ
      BY <1>4, <3>1
    <3>3. ~(n + 1 < e)
      BY <2>5, <3>2
    <3>4. QED
      BY <3>2, <3>3
  <2>7. e = n + 1
    <3>1. e \notin 1..n
      BY <2>4, <2>6
    <3>2. QED
      BY <2>6, <3>1
  <2>8. SubSeq(s, 1, n) = name
    <3>1. n \in 0..l
      BY <2>1
    <3>2. /\ SubSeq(s, 1, n) \in Seq(Byte) /\ Len(SubSeq(s, 1, n)) = n
          /\ \A i \in 1..n : SubSeq(s, 1, n)[i] = name[i]
      BY <1>7, <2>4, <3>1
    <3>3. QED
      BY <1>1, <1>2, <3>2, SeqEqual
  <2>9. QED
    BY <2>7, <2>8
<1>10. ASSUME e > 1, SubSeq(s, 1, e - 1) = name
       PROVE  e = n + 1 /\ IsPrefix(p, s)
  <2>1. e \in 1..l /\ s[e] = EQ
    BY <1>4, <1>10
  <2>2. PICK k \in 0..l : k = e - 1
    BY <2>1
  <2>3. Len(name) = k /\ \A i \in 1..k : name[i] = s[i]
    BY <1>7, <1>10, <2>2
  <2>4. e = n + 1 /\ k = n /\ n + 1 \in 0..l /\ n + 1 <= l
    BY <1>2, <2>1, <2>2, <2>3
  <2>5. \A i \in 1..(n + 1) : p[i] = s[i]
    <3>1. \A i \in 1..(n + 1) : i = n + 1 \/ i \in 1..n
      OBVIOUS
    <3>2. p[n + 1] = s[n + 1]
      BY <1>6, <2>1, <2>4
    <3>3. \A i \in 1..n : p[i] = s[i]
      BY <1>6, <2>3, <2>4
    <3>4. QED
      BY <3>1, <3>2, <3>3
  <2>6. p = SubSeq(s, 1, n + 1)
    <3>1. /\ SubSeq(s, 1, n + 1) \in Seq(Byte) /\ Len(SubSeq(s, 1, n + 1)) = n + 1
          /\ \A i \in 1..(n + 1) : SubSeq(s, 1, n + 1)[i] = s[i]
      BY <1>7, <2>4
    <3>2. /\ Len(p) = Len(SubSeq(s, 1, n + 1))
          /\ \A i \in 1..Len(p) : p[i] = SubSeq(s, 1, n + 1)[i]
      BY <1>6, <2>5, <3>1
    <3>3. QED
      BY <3>1, <3>2, SeqEqual
  <2>7. QED
    BY <1>2, <1>6, <1>8, <2>4, <2>6 DEF IsPrefix
<1>11. n + 1 > 1 /\ (n + 1) - 1 = n /\ (n + 1) + 1 = n + 2
  BY <1>3
<1>12. IsPrefix(p, s) <=> IsVariable(s) /\ Name(s) = name
  BY <1>5, <1>9, <1>10, <1>11
<1>13. IsVariable(s) /\ Name(s) = name => Content(s) = SubSeq(s, Len(name) + 2, Len(s))
  BY <1>2, <1>5, <1>10, <1>11
<1>14. QED
  BY <1>6, <1>12, <1>13

\* Where the two ways to look up a name find it.
LEMMA LookupsAgree ==
  ASSUME NEW strings \in Seq(Seq(Byte)), NEW name \in EnvName, NEW its,
         its = {i \in DOMAIN strings : IsVariable(strings[i]) /\ Name(strings[i]) = name}
  PROVE  IF its = {}
         THEN GetEnvStr(name, strings) = NIL /\ name \notin DOMAIN GetEnvTbl(strings)
         ELSE /\ GetEnvStr(name, strings) = Content(strings[Min(its)])
              /\ name \in DOMAIN GetEnvTbl(strings)
              /\ GetEnvTbl(strings)[name] = Content(strings[Max(its)])
<1> DEFINE I == {i \in 1..Len(strings) : IsPrefix(Append(name, EQ), strings[i])}
           first == IF I # {} THEN Min(I) ELSE 0
           variables == {i \in DOMAIN strings : IsVariable(strings[i])}
           same == {i \in variables : Name(strings[i]) = name}
<1>1. DOMAIN strings = 1..Len(strings) /\ \A i \in 1..Len(strings) : strings[i] \in Seq(Byte)
  OBVIOUS
<1>2. I = same
  BY <1>1, NameFound
<1>3. GetEnvStr(name, strings) =
        IF first = 0 THEN NIL
        ELSE SubSeq(strings[first], Len(name) + 2, Len(strings[first]))
  BY DEF GetEnvStr, SelectInSeq
<1>4. GetEnvTbl(strings) =
        [n \in {Name(strings[i]) : i \in variables} |->
           Content(strings[Max({i \in variables : Name(strings[i]) = n})])]
  BY DEF GetEnvTbl
<1>5. /\ name \in DOMAIN GetEnvTbl(strings) <=> same # {}
      /\ same # {} => GetEnvTbl(strings)[name] = Content(strings[Max(same)])
  BY <1>4
<1>6. its = same
  OBVIOUS
<1>7. CASE same = {}
  BY <1>2, <1>3, <1>5, <1>6, <1>7
<1>8. CASE same # {}
  <2>1. PICK i \in same : \A m \in same : i <= m
    <3>1. same \in SUBSET Nat
      BY <1>1
    <3>2. QED
      BY <1>8, <3>1, HasLeast
  <2>2. i \in 1..Len(strings) /\ IsVariable(strings[i]) /\ Name(strings[i]) = name
    BY <1>1, <2>1
  <2>3. same \subseteq Nat
    BY <1>1
  <2>4. Min(same) = i
    <3> HIDE DEF same
    <3>1. \A m \in same : (\A x \in same : m <= x) => m = i
      BY <2>1, <2>3
    <3>2. QED
      BY <2>1, <3>1 DEF Min
  <2>5. first = i /\ i # 0
    <3> HIDE DEF I, same
    <3>1. QED
      BY <1>2, <1>8, <2>2, <2>4
  <2>6. Content(strings[i]) = SubSeq(strings[i], Len(name) + 2, Len(strings[i]))
    BY <1>1, <2>2, NameFound
  <2> HIDE DEF first, same
  <2>7. QED
    BY <1>3, <1>5, <1>6, <1>8, <2>4, <2>5, <2>6
<1>9. QED
  BY <1>7, <1>8

\* getenv finds the first variable of a name and its table the last, and nothing
\* else, in any environment.
THEOREM TableAlwaysAgreesWithGetenv == Spec => []TableAgreesWithGetenv
<1>1. ASSUME IInv PROVE TableAgreesWithGetenv
  <2>1. envp \in Seq(Seq(Byte))
    BY <1>1, EnvironmentInBlock DEF IInv
  <2>2. QED
    BY <2>1, LookupsAgree DEF TableAgreesWithGetenv
<1>2. QED
  BY <1>1, InitInv, StepInv, PTL DEF Spec
-------------------------------------------------------------------------------
(* Dates and times.                                                        *)

\* The fields that were packed into a word are found in it again.
LEMMA DateUnpacked ==
  ASSUME NEW y \in Int, NEW m \in Int, NEW d \in Int,
         1980 <= y, y <= 2099, 0 <= m, m <= 15, 0 <= d, d <= 31
  PROVE  /\ 1980 + Bits(PackedDate(y, m, d), 512, 128) = y
         /\ Bits(PackedDate(y, m, d), 32, 16) = m
         /\ Bits(PackedDate(y, m, d), 1, 32) = d
<1>1. PICK a \in Int : a = y - 1980 /\ 0 <= a /\ a <= 127
  OBVIOUS
<1>2. PICK w \in Int : w = d + m * 32 + a * 512
  OBVIOUS
<1>3. 0 <= w /\ w <= 65535
  BY <1>1, <1>2
<1>4. PackedDate(y, m, d) = w
  BY <1>1, <1>2, <1>3 DEF PackedDate, Word
<1>5. w \div 512 = a /\ w \div 1 = w /\ w % 32 = d
  BY <1>1, <1>2
<1>6. w \div 32 = m + a * 16
  BY <1>1, <1>2
<1>7. a % 128 = a /\ (m + a * 16) % 16 = m
  BY <1>1
<1>8. QED
  BY <1>1, <1>4, <1>5, <1>6, <1>7 DEF Bits

\* The same for a time; its seconds lost their last bit.
LEMMA TimeUnpacked ==
  ASSUME NEW h \in Int, NEW m \in Int, NEW s \in Int,
         0 <= h, h <= 31, 0 <= m, m <= 63, 0 <= s, s <= 63
  PROVE  /\ Bits(PackedTime(h, m, s), 2048, 32) = h
         /\ Bits(PackedTime(h, m, s), 32, 64) = m
         /\ Bits(PackedTime(h, m, s), 1, 32) = s \div 2
<1>1. PICK c \in Int : c = s \div 2 /\ 0 <= c /\ c <= 31
  OBVIOUS
<1>2. PICK w \in Int : w = c + m * 32 + h * 2048
  OBVIOUS
<1>3. 0 <= w /\ w <= 65535
  BY <1>1, <1>2
<1>4. PackedTime(h, m, s) = w
  BY <1>1, <1>2, <1>3 DEF PackedTime, Word
<1>5. w \div 2048 = h /\ w \div 1 = w /\ w % 32 = c
  BY <1>1, <1>2
<1>6. w \div 32 = m + h * 64
  BY <1>1, <1>2
<1>7. h % 32 = h /\ (m + h * 64) % 64 = m
  OBVIOUS
<1>8. QED
  BY <1>1, <1>4, <1>5, <1>6, <1>7 DEF Bits

\* The days the checks allow are those of the calendar: the years of which the
\* table of the code is wrong are not allowed.
LEMMA DaysAreReal ==
  ASSUME NEW y \in 1980..2099, NEW m \in 1..12
  PROVE  (IF m = 2 /\ y % 4 = 0 THEN 29 ELSE DaysInMonth[m]) = LastDay(y, m)
<1>1. y % 4 = 0 <=> IsLeap(y)
  <2>1. y % 100 = 0 => y = 2000
    OBVIOUS
  <2>2. 2000 % 400 = 0
    OBVIOUS
  <2>3. QED
    BY <2>1, <2>2 DEF IsLeap
<1>2. DaysInMonth[m] = IF m = 2 THEN 28 ELSE IF m \in {4, 6, 9, 11} THEN 30 ELSE 31
  BY DEF DaysInMonth
<1>3. QED
  BY <1>1, <1>2 DEF LastDay

\* So the checks are the calendar, restricted to the years of the file system.
LEMMA RealDatesAllowed ==
  ASSUME NEW y, NEW m, NEW d
  PROVE  DateAllowed(y, m, d) <=>
           /\ y \in 1980..2099 /\ m \in 1..12 /\ d \in 1..LastDay(y, m)
  BY DaysAreReal DEF DateAllowed

\* A date or a time that passed the checks is real, and its fields are told.
LEMMA DateTold ==
  ASSUME NEW y, NEW m, NEW d, DateAllowed(y, m, d)
  PROVE  /\ y \in 1980..2099 /\ m \in 1..12 /\ d \in 1..LastDay(y, m)
         /\ 1980 + Bits(PackedDate(y, m, d), 512, 128) = y
         /\ Bits(PackedDate(y, m, d), 32, 16) = m
         /\ Bits(PackedDate(y, m, d), 1, 32) = d
<1>1. y \in 1980..2099 /\ m \in 1..12 /\ d \in 1..LastDay(y, m)
  BY RealDatesAllowed
<1>2. d \in 1..31
  BY <1>1 DEF LastDay
<1>3. /\ y \in Int /\ m \in Int /\ d \in Int
      /\ 1980 <= y /\ y <= 2099 /\ 0 <= m /\ m <= 15 /\ 0 <= d /\ d <= 31
  BY <1>1, <1>2
<1>4. /\ 1980 + Bits(PackedDate(y, m, d), 512, 128) = y
      /\ Bits(PackedDate(y, m, d), 32, 16) = m
      /\ Bits(PackedDate(y, m, d), 1, 32) = d
  BY <1>3, DateUnpacked
<1>5. QED
  BY <1>1, <1>4

\* The same for a time of the day.
LEMMA TimeTold ==
  ASSUME NEW h, NEW m, NEW s, TimeAllowed(h, m, s)
  PROVE  /\ h \in 0..23 /\ m \in 0..59 /\ s \in 0..59 /\ 2 * (s \div 2) \in 0..59
         /\ Bits(PackedTime(h, m, s), 2048, 32) = h
         /\ Bits(PackedTime(h, m, s), 32, 64) = m
         /\ Bits(PackedTime(h, m, s), 1, 32) = s \div 2
<1>1. h \in 0..23 /\ m \in 0..59 /\ s \in 0..59
  BY DEF TimeAllowed
<1>2. 2 * (s \div 2) \in 0..59
  BY <1>1
<1>3. /\ h \in Int /\ m \in Int /\ s \in Int
      /\ 0 <= h /\ h <= 31 /\ 0 <= m /\ m <= 63 /\ 0 <= s /\ s <= 63
  BY <1>1
<1>4. /\ Bits(PackedTime(h, m, s), 2048, 32) = h
      /\ Bits(PackedTime(h, m, s), 32, 64) = m
      /\ Bits(PackedTime(h, m, s), 1, 32) = s \div 2
  BY <1>3, TimeUnpacked
<1>5. QED
  BY <1>1, <1>2, <1>4

\* What is stored after a call: what it set, if its arguments passed the checks,
\* and what was there otherwise.
LEMMA DateStored ==
  ASSUME NEW y, NEW m, NEW d,
         IF DateAllowed(y, m, d) THEN date' = PackedDate(y, m, d) ELSE UNCHANGED date,
         RealDate(Tgetdate)
  PROVE  /\ DateAllowed(y, m, d) => Tgetdate' = [year |-> y, month |-> m, day |-> d]
         /\ RealDate(Tgetdate)'
<1>1. CASE DateAllowed(y, m, d)
  BY <1>1, DateTold DEF Tgetdate, RealDate
<1>2. CASE ~DateAllowed(y, m, d)
  BY <1>2 DEF Tgetdate
<1>3. QED
  BY <1>1, <1>2

\* The same for the time.
LEMMA TimeStored ==
  ASSUME NEW h, NEW m, NEW s,
         IF TimeAllowed(h, m, s) THEN time' = PackedTime(h, m, s) ELSE UNCHANGED time,
         RealTime(Tgettime)
  PROVE  /\ TimeAllowed(h, m, s) =>
              Tgettime' = [hour |-> h, minute |-> m, second |-> 2 * (s \div 2)]
         /\ RealTime(Tgettime)'
<1>1. CASE TimeAllowed(h, m, s)
  BY <1>1, TimeTold DEF Tgettime, RealTime
<1>2. CASE ~TimeAllowed(h, m, s)
  BY <1>2 DEF Tgettime
<1>3. QED
  BY <1>1, <1>2

\* The fields of what the script asked for are real when the checks say so.
LEMMA AskedDateReal ==
  ASSUME NEW a, NEW y, NEW m, NEW d, a.year = y, a.month = m, a.day = d
  PROVE  DateAllowed(y, m, d) <=> a.year \in 1980..2099 /\ RealDate(a)
  BY RealDatesAllowed DEF RealDate

\* The same for the time of day.
LEMMA AskedTimeReal ==
  ASSUME NEW a, NEW h, NEW m, NEW s, a.hour = h, a.minute = m, a.second = s
  PROVE  TimeAllowed(h, m, s) <=> RealTime(a)
  BY DEF RealTime, TimeAllowed

\* At the start it is ten o'clock on the 4th of July 1985.
LEMMA InitReal ==
  ASSUME ClockInit
  PROVE  RealDate(Tgetdate) /\ RealTime(Tgettime)
<1>1. DateAllowed(1985, 7, 4) /\ TimeAllowed(10, 0, 0)
  BY DEF DateAllowed, TimeAllowed, DaysInMonth
<1>2. date = PackedDate(1985, 7, 4) /\ time = PackedTime(10, 0, 0)
  BY DEF ClockInit, PackedDate, PackedTime, Word
<1>3. RealDate(Tgetdate)
  BY <1>1, <1>2, DateTold DEF Tgetdate, RealDate
<1>4. RealTime(Tgettime)
  BY <1>1, <1>2, TimeTold DEF Tgettime, RealTime
<1>5. QED
  BY <1>3, <1>4

\* The getters of a file read the words as those of the clock do.
FileGettersAre(file, day, hour) ==
  \A f \in DOMAIN file : file[f] = IF f \in DOMAIN day THEN day[f] ELSE hour[f]

\* They do, before and after a step.
LEMMA FileGettersAgree ==
  /\ date \in Int => FileGettersAre(PushDatimeIntegers, Tgetdate, Tgettime)
  /\ date' \in Int => FileGettersAre(PushDatimeIntegers, Tgetdate, Tgettime)'
<1>1. ASSUME NEW y, NEW mon, NEW d, NEW h, NEW m, NEW s
      PROVE  FileGettersAre([year |-> y, month |-> mon, day |-> d,
                             hour |-> h, minute |-> m, second |-> s],
                            [year |-> y, month |-> mon, day |-> d],
                            [hour |-> h, minute |-> m, second |-> s])
  BY DEF FileGettersAre
<1>2. ASSUME NEW w \in Int
      PROVE  Bits(w, 512, 128) + 1980 = 1980 + Bits(w, 512, 128)
  BY DEF Bits
<1>3. QED
  BY <1>1, <1>2 DEF PushDatimeIntegers, Tgetdate, Tgettime

\* Every call keeps what is stored real, and accepts exactly what is.
LEMMA NextReal ==
  ASSUME OnlyRealTimesAreSet, ClockNext
  PROVE  OnlyRealTimesAreSet'
<1>1. RealDate(Tgetdate) /\ RealTime(Tgettime)
  BY DEF OnlyRealTimesAreSet
<1>2. ASSUME NEW y, NEW m, NEW d, l_Tsetdate(y, m, d)
      PROVE  OnlyRealTimesAreSet'
  <2>1. RealDate(Tgetdate)' /\ RealTime(Tgettime)'
    BY <1>1, <1>2, DateStored DEF l_Tsetdate, Tgettime
  <2>2. /\ asked'.fn = "Tsetdate" /\ asked'.set = DateAllowed(y, m, d)
        /\ asked'.year = y /\ asked'.month = m /\ asked'.day = d
    BY <1>2 DEF l_Tsetdate
  <2>3. DateAllowed(y, m, d) <=> asked'.year \in 1980..2099 /\ RealDate(asked')
    BY <2>2, AskedDateReal
  <2>4. QED
    BY <2>1, <2>2, <2>3 DEF OnlyRealTimesAreSet
<1>3. ASSUME NEW h, NEW m, NEW s, l_Tsettime(h, m, s)
      PROVE  OnlyRealTimesAreSet'
  <2>1. RealDate(Tgetdate)' /\ RealTime(Tgettime)'
    BY <1>1, <1>3, TimeStored DEF l_Tsettime, Tgetdate
  <2>2. /\ asked'.fn = "Tsettime" /\ asked'.set = TimeAllowed(h, m, s)
        /\ asked'.hour = h /\ asked'.minute = m /\ asked'.second = s
    BY <1>3 DEF l_Tsettime
  <2>3. TimeAllowed(h, m, s) <=> RealTime(asked')
    BY <2>2, AskedTimeReal
  <2>4. QED
    BY <2>1, <2>2, <2>3 DEF OnlyRealTimesAreSet
<1>4. ASSUME NEW y, NEW mon, NEW d, NEW h, NEW m, NEW s, l_Fdatime(y, mon, d, h, m, s)
      PROVE  OnlyRealTimesAreSet'
  <2>1. RealDate(Tgetdate)' /\ RealTime(Tgettime)'
    <3>1. CASE DateAllowed(y, mon, d) /\ TimeAllowed(h, m, s)
      <4>1. date' = PackedDate(y, mon, d) /\ time' = PackedTime(h, m, s)
        BY <1>4, <3>1 DEF l_Fdatime
      <4>2. QED
        BY <1>1, <3>1, <4>1, DateStored, TimeStored
    <3>2. CASE ~(DateAllowed(y, mon, d) /\ TimeAllowed(h, m, s))
      BY <1>1, <1>4, <3>2 DEF l_Fdatime, Tgetdate, Tgettime
    <3>3. QED
      BY <3>1, <3>2
  <2>2. /\ asked'.fn = "Fdatime"
        /\ asked'.set = (DateAllowed(y, mon, d) /\ TimeAllowed(h, m, s))
        /\ asked'.year = y /\ asked'.month = mon /\ asked'.day = d
        /\ asked'.hour = h /\ asked'.minute = m /\ asked'.second = s
    BY <1>4 DEF l_Fdatime
  <2>3. DateAllowed(y, mon, d) <=> asked'.year \in 1980..2099 /\ RealDate(asked')
    BY <2>2, AskedDateReal
  <2>4. TimeAllowed(h, m, s) <=> RealTime(asked')
    BY <2>2, AskedTimeReal
  <2>5. asked'.set <=> DateAllowed(y, mon, d) /\ TimeAllowed(h, m, s)
    BY <2>2, Zenon
  <2>6. QED
    BY <2>1, <2>2, <2>3, <2>4, <2>5 DEF OnlyRealTimesAreSet
<1>5. QED
  BY <1>2, <1>3, <1>4 DEF ClockNext

\* What is stored as the date is a number.
LEMMA NextDate ==
  ASSUME date \in Int, [ClockNext]_clockVars
  PROVE  date' \in Int
<1>1. ASSUME NEW y, NEW m, NEW d, DateAllowed(y, m, d)
      PROVE  PackedDate(y, m, d) \in Int
  <2>1. y \in Int /\ m \in Int /\ d \in Int
    BY <1>1, RealDatesAllowed
  <2>2. QED
    BY <2>1 DEF PackedDate, Word
<1>2. QED
  BY <1>1 DEF ClockNext, clockVars, l_Tsetdate, l_Tsettime, l_Fdatime

\* The getters agree as long as the year is a number.
ClockInv == date \in Int /\ OnlyRealTimesAreSet /\ GettersTellWhatWasSet

\* After every call the getters tell what it set, and both kinds of them agree.
LEMMA NextTells ==
  ASSUME OnlyRealTimesAreSet, ClockNext, date' \in Int
  PROVE  GettersTellWhatWasSet'
<1>1. RealDate(Tgetdate) /\ RealTime(Tgettime)
  BY DEF OnlyRealTimesAreSet
<1>2. ASSUME NEW y, NEW m, NEW d, l_Tsetdate(y, m, d)
      PROVE  GettersTellWhatWasSet'
  <2>1. /\ asked'.fn = "Tsetdate" /\ asked'.set = DateAllowed(y, m, d)
        /\ asked'.year = y /\ asked'.month = m /\ asked'.day = d
    BY <1>2 DEF l_Tsetdate
  <2>2. DateAllowed(y, m, d) => Tgetdate' = [year |-> y, month |-> m, day |-> d]
    BY <1>1, <1>2, DateStored DEF l_Tsetdate
  <2>3. QED
    BY <2>1, <2>2, FileGettersAgree DEF GettersTellWhatWasSet, FileGettersAre
<1>3. ASSUME NEW h, NEW m, NEW s, l_Tsettime(h, m, s)
      PROVE  GettersTellWhatWasSet'
  <2>1. /\ asked'.fn = "Tsettime" /\ asked'.set = TimeAllowed(h, m, s)
        /\ asked'.hour = h /\ asked'.minute = m /\ asked'.second = s
    BY <1>3 DEF l_Tsettime
  <2>2. TimeAllowed(h, m, s) =>
          Tgettime' = [hour |-> h, minute |-> m, second |-> 2 * (s \div 2)]
    BY <1>1, <1>3, TimeStored DEF l_Tsettime
  <2>3. QED
    BY <2>1, <2>2, FileGettersAgree DEF GettersTellWhatWasSet, FileGettersAre
<1>4. ASSUME NEW y, NEW mon, NEW d, NEW h, NEW m, NEW s, l_Fdatime(y, mon, d, h, m, s)
      PROVE  GettersTellWhatWasSet'
  <2>1. /\ asked'.fn = "Fdatime"
        /\ asked'.set = (DateAllowed(y, mon, d) /\ TimeAllowed(h, m, s))
        /\ asked'.year = y /\ asked'.month = mon /\ asked'.day = d
        /\ asked'.hour = h /\ asked'.minute = m /\ asked'.second = s
    BY <1>4 DEF l_Fdatime
  <2>2. ASSUME DateAllowed(y, mon, d), TimeAllowed(h, m, s)
        PROVE  /\ Tgetdate' = [year |-> y, month |-> mon, day |-> d]
               /\ Tgettime' = [hour |-> h, minute |-> m, second |-> 2 * (s \div 2)]
    <3>1. date' = PackedDate(y, mon, d) /\ time' = PackedTime(h, m, s)
      BY <1>4, <2>2 DEF l_Fdatime
    <3>2. QED
      BY <1>1, <2>2, <3>1, DateStored, TimeStored
  <2>3. QED
    BY <2>1, <2>2, FileGettersAgree DEF GettersTellWhatWasSet, FileGettersAre
<1>5. QED
  BY <1>2, <1>3, <1>4 DEF ClockNext

\* Whatever a script passes, what is stored is a day of the calendar and a time
\* of the day, and nothing that is one is refused.
THEOREM OnlyRealTimesAreEverSet == ClockSpec => []OnlyRealTimesAreSet
<1>1. ClockInit => OnlyRealTimesAreSet
  BY InitReal DEF OnlyRealTimesAreSet, ClockInit
<1>2. OnlyRealTimesAreSet /\ [ClockNext]_clockVars => OnlyRealTimesAreSet'
  <2>1. OnlyRealTimesAreSet /\ UNCHANGED clockVars => OnlyRealTimesAreSet'
    BY DEF OnlyRealTimesAreSet, clockVars, Tgetdate, Tgettime
  <2>2. QED
    BY <2>1, NextReal
<1>3. QED
  BY <1>1, <1>2, PTL DEF ClockSpec

\* Whatever is set is told by the getters, to the even second.
THEOREM WhatWasSetIsAlwaysTold == ClockSpec => []GettersTellWhatWasSet
<1>1. ClockInit => ClockInv
  <2>1. ClockInit => date \in Int
    BY DEF ClockInit
  <2>2. ClockInit => OnlyRealTimesAreSet
    BY InitReal DEF OnlyRealTimesAreSet, ClockInit
  <2>3. ClockInit => GettersTellWhatWasSet
    BY <2>1, FileGettersAgree DEF GettersTellWhatWasSet, ClockInit, FileGettersAre
  <2>4. QED
    BY <2>1, <2>2, <2>3 DEF ClockInv
<1>2. ClockInv /\ [ClockNext]_clockVars => ClockInv'
  <2>1. OnlyRealTimesAreSet /\ UNCHANGED clockVars => OnlyRealTimesAreSet'
    BY DEF OnlyRealTimesAreSet, clockVars, Tgetdate, Tgettime
  <2>2. GettersTellWhatWasSet /\ UNCHANGED clockVars => GettersTellWhatWasSet'
    BY DEF GettersTellWhatWasSet, clockVars, Tgetdate, Tgettime,
       PushDatimeIntegers
  <2>3. QED
    BY <2>1, <2>2, NextDate, NextReal, NextTells DEF ClockInv
<1>3. ClockInv => GettersTellWhatWasSet
  BY DEF ClockInv
<1>4. QED
  BY <1>1, <1>2, <1>3, PTL DEF ClockSpec
===============================================================================
