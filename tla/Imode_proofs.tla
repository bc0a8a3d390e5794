----------------------------- MODULE Imode_proofs -----------------------------
(***************************************************************************)
(* Lemmas about words, sizes and positions, which the proofs of the        *)
(* functions that move values share.                                       *)
(***************************************************************************)
EXTENDS Imode, FiniteSetTheorems, TLAPS

\* A number that fits a word is left alone.
LEMMA WrappedFits ==
  ASSUME NEW x \in Int, -WordMax - 1 <= x, x <= WordMax
  PROVE  Wrapped(x) = x
<1>1. ASSUME NEW a \in Nat, NEW m \in Nat, a < m PROVE a % m = a
  BY <1>1
<1>2. (x + WordMax + 1) % (2 * (WordMax + 1)) = x + WordMax + 1
  BY <1>1, WordsAreNumbers
<1>3. QED
  BY <1>2, WordsAreNumbers DEF Wrapped, Truncated

\* The two ways the code counts positions are one apart.
LEMMA ZeroIsOneLess ==
  ASSUME NEW p \in Int, NEW len \in Nat
  PROVE  /\ OneBased(p, len) \in Int
         /\ ZeroBased(p, len) = OneBased(p, len) - 1
  BY DEF ZeroBased, OneBased

\* A position names the element that the code computes, if there is one.
LEMMA NamesOne ==
  ASSUME NEW p \in Int, NEW len \in Nat, NEW k \in Int
  PROVE  Names(p, len, k) <=> k \in 1..len /\ k = OneBased(p, len)
  BY DEF Names, OneBased

\* The checks of strings and those of tables accept the same positions.
LEMMA SameRanges ==
  ASSUME NEW i \in Int, NEW j \in Int, NEW len \in Nat
  PROVE  StringRangeOK(i, j, len) <=> TableRangeOK(i, j, len)
  BY DEF StringRangeOK, TableRangeOK, ZeroBased, OneBased

\* They accept those that name a part, which is the range the code computes.
LEMMA PartIsRange ==
  ASSUME NEW i \in Int, NEW j \in Int, NEW len \in Nat
  PROVE  /\ TableRangeOK(i, j, len) <=> Part(i, j, len) # {}
         /\ TableRangeOK(i, j, len) =>
              /\ Part(i, j, len) = OneBased(i, len)..OneBased(j, len)
              /\ Cardinality(Part(i, j, len))
                   = OneBased(j, len) - OneBased(i, len) + 1
<1> DEFINE a == OneBased(i, len)
           b == OneBased(j, len)
<1>1. a \in Int /\ b \in Int
  BY ZeroIsOneLess
<1>2. ASSUME NEW k \in 1..len
      PROVE  k \in Part(i, j, len) <=> a \in 1..k /\ b \in k..len
  BY <1>1, NamesOne DEF Part
<1>3. Part(i, j, len) \subseteq 1..len
  BY DEF Part
<1>4. TableRangeOK(i, j, len) <=> 1 <= a /\ a <= b /\ b <= len
  BY <1>1 DEF TableRangeOK
<1>5. TableRangeOK(i, j, len) => Part(i, j, len) = a..b
  <2> SUFFICES ASSUME TableRangeOK(i, j, len)
               PROVE  \A k : k \in Part(i, j, len) <=> k \in a..b
    OBVIOUS
  <2>1. \A k \in 1..len : k \in Part(i, j, len) <=> k \in a..b
    BY <1>1, <1>2, <1>4
  <2>2. \A k \in a..b : k \in 1..len
    BY <1>1, <1>4
  <2>3. QED
    BY <1>3, <2>1, <2>2
<1>6. Part(i, j, len) # {} => TableRangeOK(i, j, len)
  BY <1>1, <1>2, <1>3, <1>4
<1>7. TableRangeOK(i, j, len) => Part(i, j, len) # {} /\ Cardinality(Part(i, j, len)) = b - a + 1
  BY <1>1, <1>4, <1>5, FS_Interval
<1>8. QED
  BY <1>5, <1>6, <1>7

\* A range begins with the one element that follows none of it.
LEMMA FirstOfRange ==
  ASSUME NEW a \in Int, NEW b \in Int, a <= b
  PROVE  (CHOOSE k \in a..b : k - 1 \notin a..b) = a
  OBVIOUS

\* The whole values of b bytes.
LEMMA WholeValues ==
  ASSUME NEW sz \in Imodes, NEW b \in Nat
  PROVE  /\ SizeToNval(sz, b) \in Nat
         /\ SizeToNval(sz, b) * sz = b - (b % sz)
         /\ b % sz \in 0..(sz - 1) /\ b % sz <= b
<1>1. CASE sz = 1
  BY <1>1 DEF SizeToNval
<1>2. CASE sz = 2
  BY <1>2 DEF SizeToNval
<1>3. CASE sz = 4
  BY <1>3 DEF SizeToNval
<1>4. QED
  BY <1>1, <1>2, <1>3 DEF Imodes

\* Sums and differences of whole values are whole values.
LEMMA WholeSums ==
  ASSUME NEW sz \in Imodes, NEW a \in Nat, NEW b \in Nat, a % sz = 0
  PROVE  /\ (a + b) % sz = b % sz
         /\ b % sz = 0 /\ a <= b => (b - a) % sz = 0
         /\ b % sz = 0 /\ a < b => a + sz <= b
<1>1. CASE sz = 1
  BY <1>1
<1>2. CASE sz = 2
  BY <1>2
<1>3. CASE sz = 4
  BY <1>3
<1>4. QED
  BY <1>1, <1>2, <1>3 DEF Imodes

\* n values are whole, and less than n fewer bytes are at least one value less.
LEMMA WholeProducts ==
  ASSUME NEW sz \in Imodes, NEW n \in Nat
  PROVE  /\ n * sz \in Nat /\ (n * sz) % sz = 0 /\ n * sz <= 4 * n /\ n <= n * sz
         /\ n # 0 => (n - 1) * sz = n * sz - sz /\ (n - 1) * sz \in Nat
<1>1. CASE sz = 1
  BY <1>1
<1>2. CASE sz = 2
  BY <1>2
<1>3. CASE sz = 4
  BY <1>3
<1>4. QED
  BY <1>1, <1>2, <1>3 DEF Imodes
===============================================================================
