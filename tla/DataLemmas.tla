----------------------------- MODULE DataLemmas -----------------------------
(***************************************************************************)
(* Facts about numbers and sequences that several components need.  Those  *)
(* about recursive functions are proved from the first one: a set of       *)
(* counterexamples would have a least element.                             *)
(***************************************************************************)
EXTENDS Integers, SequencesExt, SequenceTheorems, WellFoundedInduction, TLAPS

-----------------------------------------------------------------------------
(***************************************************************************)
(* Arithmetic.                                                             *)
(***************************************************************************)

\* A non-empty set of naturals has a least element (get_filesize stops at the
\* first node that matches).
LEMMA LeastIndex ==
  ASSUME NEW T \in SUBSET Nat, T # {}
  PROVE  \E x \in T : \A y \in T : x <= y
<1> DEFINE R == OpToRel(<, Nat)
<1>1. IsWellFoundedOn(R, Nat)
  BY NatLessThanWellFounded
<1>2. \A y, x \in Nat : y < x => <<y, x>> \in R
  BY DEF OpToRel
<1> HIDE DEF R
<1>3. PICK x \in T : \A y \in T : ~ (<<y, x>> \in R)
  BY <1>1, WFMin
<1>4. ASSUME NEW y \in T
      PROVE  x <= y
  <2>1. ~ (<<y, x>> \in R)
    BY <1>3
  <2>2. x \in Nat /\ y \in Nat
    OBVIOUS
  <2>3. ~ (y < x)
    BY <2>1, <2>2, <1>2, Zenon
  <2> QED
    BY <2>2, <2>3
<1> QED
  BY <1>4

\* Quotient and remainder.
LEMMA DivMod ==
  ASSUME NEW a \in Nat, NEW M \in Nat \ {0}
  PROVE  /\ a % M \in 0..(M - 1)
         /\ (a \div M) \in Nat
         /\ a = M * (a \div M) + (a % M)
  OBVIOUS

\* The remainder is the only one there is.
LEMMA ModUnique ==
  ASSUME NEW q \in Nat, NEW r \in Nat, NEW M \in Nat \ {0}, r < M
  PROVE  (M * q + r) % M = r
  OBVIOUS

\* total_bytes_recv += bytes_received counts modulo 2^32 what was received.
LEMMA ModAdd ==
  ASSUME NEW a \in Nat, NEW k \in Nat, NEW M \in Nat \ {0}
  PROVE  ((a % M) + k) % M = (a + k) % M
<1> DEFINE q == a \div M   r == a % M
<1>1. q \in Nat /\ r \in 0..(M - 1) /\ a = M * q + r
  BY DivMod
<1> HIDE DEF q, r
<1>2. r + k \in Nat
  BY <1>1
<1> DEFINE q2 == (r + k) \div M   r2 == (r + k) % M
<1>3. q2 \in Nat /\ r2 \in 0..(M - 1) /\ r + k = M * q2 + r2
  BY <1>2, DivMod
<1> HIDE DEF q2, r2
<1>4. q + q2 \in Nat /\ r2 \in Nat /\ r2 < M
  BY <1>1, <1>3
<1>5. a + k = M * (q + q2) + r2
  BY <1>1, <1>3
<1>6. (M * (q + q2) + r2) % M = r2
  BY <1>4, ModUnique
<1>7. (a + k) % M = r2
  BY <1>5, <1>6
<1> QED
  BY <1>7 DEF r2, r

\* A remainder is a number of the range.
LEMMA ModType ==
  ASSUME NEW a \in Int, NEW M \in Nat \ {0}
  PROVE  a % M \in 0..(M - 1)
  OBVIOUS

\* A small number is its own remainder.
LEMMA ModSmall ==
  ASSUME NEW a \in Nat, NEW M \in Nat \ {0}, a < M
  PROVE  a % M = a
  OBVIOUS
-----------------------------------------------------------------------------
(***************************************************************************)
(* Sequences.                                                              *)
(***************************************************************************)

\* What recv takes from a stream, and what it leaves.
LEMMA CutType ==
  ASSUME NEW S, NEW s \in Seq(S), NEW k \in 0..Len(s)
  PROVE  /\ SubSeq(s, 1, k) \in Seq(S)
         /\ Len(SubSeq(s, 1, k)) = k
         /\ \A i \in 1..k : SubSeq(s, 1, k)[i] = s[i]
         /\ SubSeq(s, k + 1, Len(s)) \in Seq(S)
         /\ Len(SubSeq(s, k + 1, Len(s))) = Len(s) - k
         /\ \A i \in 1..(Len(s) - k) : SubSeq(s, k + 1, Len(s))[i] = s[k + i]
<1>1. Len(s) \in Nat /\ \A i \in 1..Len(s) : s[i] \in S
  BY LenProperties, ElementOfSeq
<1>2. \A i \in 1..k : s[i] \in S
  BY <1>1
<1>3. \A i \in (k + 1)..Len(s) : s[i] \in S
  BY <1>1
<1>4. /\ SubSeq(s, 1, k) \in Seq(S)
      /\ Len(SubSeq(s, 1, k)) = IF 1 <= k THEN k - 1 + 1 ELSE 0
      /\ \A i \in 1..(k - 1 + 1) : SubSeq(s, 1, k)[i] = s[1 + i - 1]
  BY <1>1, <1>2, SubSeqProperties
<1>5. /\ SubSeq(s, k + 1, Len(s)) \in Seq(S)
      /\ Len(SubSeq(s, k + 1, Len(s))) = IF k + 1 <= Len(s) THEN Len(s) - (k + 1) + 1 ELSE 0
      /\ \A i \in 1..(Len(s) - (k + 1) + 1) : SubSeq(s, k + 1, Len(s))[i] = s[(k + 1) + i - 1]
  <2>1. k + 1 \in Int /\ Len(s) \in Int
    BY <1>1
  <2> QED
    BY <2>1, <1>3, SubSeqProperties
<1> QED
  BY <1>1, <1>4, <1>5

\* What FindFirstFile and FindNextFile give after a file was removed or added.
LEMMA RemoveAtType ==
  ASSUME NEW S, NEW s \in Seq(S), NEW i \in 1..Len(s)
  PROVE  /\ RemoveAt(s, i) \in Seq(S)
         /\ \A j \in 1..Len(s) : j # i =>
              \E l \in 1..Len(RemoveAt(s, i)) : RemoveAt(s, i)[l] = s[j]
<1>1. Len(s) \in Nat /\ \A j \in 1..Len(s) : s[j] \in S
  BY LenProperties, ElementOfSeq
<1> DEFINE a == SubSeq(s, 1, i - 1)   b == SubSeq(s, i + 1, Len(s))
<1>2. /\ a \in Seq(S) /\ Len(a) = i - 1
      /\ \A l \in 1..(i - 1) : a[l] = s[l]
  BY <1>1, CutType
<1>3. /\ b \in Seq(S) /\ Len(b) = Len(s) - i
      /\ \A l \in 1..(Len(s) - i) : b[l] = s[i + l]
  BY <1>1, CutType
<1>4. RemoveAt(s, i) = a \o b
  BY DEF RemoveAt
<1> HIDE DEF a, b
<1>5. /\ a \o b \in Seq(S)
      /\ Len(a \o b) = Len(a) + Len(b)
      /\ \A l \in 1..(Len(a) + Len(b)) :
           (a \o b)[l] = IF l <= Len(a) THEN a[l] ELSE b[l - Len(a)]
  BY <1>2, <1>3, ConcatProperties
<1>6. ASSUME NEW j \in 1..Len(s), j # i
      PROVE  \E l \in 1..Len(a \o b) : (a \o b)[l] = s[j]
  <2>1. CASE j < i
    <3>1. j \in 1..(Len(a) + Len(b)) /\ j <= Len(a)
      BY <2>1, <1>1, <1>2, <1>3
    <3> QED
      BY <3>1, <1>2, <1>5, <2>1
  <2>2. CASE j > i
    <3>1. j - 1 \in 1..(Len(a) + Len(b)) /\ ~ (j - 1 <= Len(a)) /\ (j - 1) - Len(a) = j - i
      BY <2>2, <1>1, <1>2, <1>3
    <3>2. b[j - i] = s[j]
      BY <2>2, <1>1, <1>3
    <3> QED
      BY <3>1, <3>2, <1>5
  <2> QED
    BY <1>6, <1>1, <2>1, <2>2
<1> QED
  BY <1>4, <1>5, <1>6

LEMMA InsertAtType ==
  ASSUME NEW S, NEW s \in Seq(S), NEW i \in 1..(Len(s) + 1), NEW e \in S
  PROVE  /\ InsertAt(s, i, e) \in Seq(S)
         /\ \A j \in 1..Len(s) :
              \E l \in 1..Len(InsertAt(s, i, e)) : InsertAt(s, i, e)[l] = s[j]
<1>1. Len(s) \in Nat /\ \A j \in 1..Len(s) : s[j] \in S
  BY LenProperties, ElementOfSeq
<1> DEFINE a == SubSeq(s, 1, i - 1)   b == SubSeq(s, i, Len(s))
<1>0. i - 1 \in 0..Len(s) /\ (i - 1) + 1 = i
  BY <1>1
<1>2. /\ a \in Seq(S) /\ Len(a) = i - 1
      /\ \A l \in 1..(i - 1) : a[l] = s[l]
  BY <1>0, CutType
<1>3. /\ b \in Seq(S) /\ Len(b) = Len(s) - (i - 1)
      /\ \A l \in 1..(Len(s) - (i - 1)) : b[l] = s[(i - 1) + l]
  BY <1>0, CutType
<1>4. InsertAt(s, i, e) = (a \o <<e>>) \o b
  BY DEF InsertAt
<1> HIDE DEF a, b
<1>5. /\ a \o <<e>> \in Seq(S)
      /\ Len(a \o <<e>>) = i
      /\ \A l \in 1..(i - 1) : (a \o <<e>>)[l] = s[l]
  BY <1>1, <1>2
<1> DEFINE c == a \o <<e>>
<1> HIDE DEF c
<1>6. c \in Seq(S) /\ Len(c) = i /\ \A l \in 1..(i - 1) : c[l] = s[l]
  BY <1>5 DEF c
<1>7. /\ c \o b \in Seq(S)
      /\ Len(c \o b) = Len(c) + Len(b)
      /\ \A l \in 1..(Len(c) + Len(b)) :
           (c \o b)[l] = IF l <= Len(c) THEN c[l] ELSE b[l - Len(c)]
  BY <1>6, <1>3, ConcatProperties
<1>8. ASSUME NEW j \in 1..Len(s)
      PROVE  \E l \in 1..Len(c \o b) : (c \o b)[l] = s[j]
  <2>1. CASE j < i
    <3>1. j \in 1..(Len(c) + Len(b)) /\ j <= Len(c)
      BY <2>1, <1>1, <1>6, <1>3
    <3> QED
      BY <3>1, <1>6, <1>7, <2>1
  <2>2. CASE j >= i
    <3>1. j + 1 \in 1..(Len(c) + Len(b)) /\ ~ (j + 1 <= Len(c)) /\ (j + 1) - Len(c) = j - i + 1
      BY <2>2, <1>1, <1>6, <1>3
    <3>2. b[j - i + 1] = s[j]
      <4>1. j - i + 1 \in 1..(Len(s) - (i - 1)) /\ (i - 1) + (j - i + 1) = j
        BY <1>1, <2>2
      <4> QED
        BY <1>3, <4>1
    <3> QED
      BY <3>1, <3>2, <1>7
  <2> QED
    BY <1>1, <2>1, <2>2
<1> QED
  BY <1>4, <1>7, <1>8 DEF c
=============================================================================
