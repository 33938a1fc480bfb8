--------------------------- MODULE SequenceLemmas ---------------------------
(***************************************************************************)
(* What inserting into a sequence and removing from it do, index by index: *)
(* the facts about InsertAt and RemoveAt of SequencesExt on which the      *)
(* proofs about the process queues and about the heap rest.  And the least *)
(* number of a set, which stands for induction in the other proofs.        *)
(***************************************************************************)
EXTENDS Integers, SequencesExt, SequenceTheorems, WellFoundedInduction, TLAPS

\* Where enqueue links a PCB in, and where allocate_memory puts the rest of
\* a block it splits: before the place, the place itself, and behind it.
LEMMA InsertAtParts ==
  ASSUME NEW S, NEW s \in Seq(S), NEW k \in 1..(Len(s) + 1), NEW e \in S
  PROVE  /\ InsertAt(s, k, e) \in Seq(S)
         /\ Len(InsertAt(s, k, e)) = Len(s) + 1
         /\ \A j \in 1..(k - 1) : InsertAt(s, k, e)[j] = s[j]
         /\ InsertAt(s, k, e)[k] = e
         /\ \A j \in k..Len(s) : InsertAt(s, k, e)[j + 1] = s[j]
PROOF
<1> DEFINE a == SubSeq(s, 1, k - 1)
           b == SubSeq(s, k, Len(s))
           ae == a \o <<e>>
<1>1. Len(s) \in Nat /\ k \in Int /\ \A i \in 1..Len(s) : s[i] \in S
  BY LenProperties, ElementOfSeq
<1>2. /\ a \in Seq(S)
      /\ Len(a) = k - 1
      /\ \A i \in 1..(k - 1) : a[i] = s[i]
  <2>1. \A i \in 1..(k - 1) : s[i] \in S
    BY <1>1
  <2>2. /\ a \in Seq(S)
        /\ Len(a) = IF 1 <= k - 1 THEN (k - 1) - 1 + 1 ELSE 0
        /\ \A i \in 1..((k - 1) - 1 + 1) : a[i] = s[1 + i - 1]
    BY <1>1, <2>1, SubSeqProperties
  <2> QED
    BY <1>1, <2>2
<1>3. /\ b \in Seq(S)
      /\ Len(b) = Len(s) - k + 1
      /\ \A i \in 1..(Len(s) - k + 1) : b[i] = s[k + i - 1]
  <2>1. \A i \in k..Len(s) : s[i] \in S
    BY <1>1
  <2>2. /\ b \in Seq(S)
        /\ Len(b) = IF k <= Len(s) THEN Len(s) - k + 1 ELSE 0
        /\ \A i \in 1..(Len(s) - k + 1) : b[i] = s[k + i - 1]
    BY <1>1, <2>1, SubSeqProperties
  <2> QED
    BY <1>1, <2>2
<1>4. <<e>> \in Seq(S) /\ Len(<<e>>) = 1 /\ <<e>>[1] = e
  OBVIOUS
<1>5. /\ ae \in Seq(S)
      /\ Len(ae) = k
      /\ \A i \in 1..k : ae[i] = IF i < k THEN s[i] ELSE e
  <2>1. /\ ae \in Seq(S)
        /\ Len(ae) = Len(a) + 1
        /\ \A i \in 1..(Len(a) + 1) : ae[i] = IF i <= Len(a) THEN a[i] ELSE <<e>>[i - Len(a)]
    BY <1>2, <1>4, ConcatProperties
  <2>2. \A i \in 1..k : ~(i < k) => i - Len(a) = 1
    BY <1>1, <1>2
  <2> HIDE DEF a, ae
  <2> QED
    BY <1>1, <1>2, <1>4, <2>1, <2>2
<1>6. /\ ae \o b \in Seq(S)
      /\ Len(ae \o b) = Len(ae) + Len(b)
      /\ \A i \in 1..(Len(ae) + Len(b)) :
           (ae \o b)[i] = IF i <= Len(ae) THEN ae[i] ELSE b[i - Len(ae)]
  <2> HIDE DEF a, b, ae
  <2> QED
    BY ONLY <1>3, <1>5, ConcatProperties
<1>7. InsertAt(s, k, e) = ae \o b
  BY DEF InsertAt
<1> QED
  <2> HIDE DEF a, b, ae
  <2>1. /\ \A j \in 1..(k - 1) : (ae \o b)[j] = s[j]
        /\ (ae \o b)[k] = e
    BY <1>1, <1>3, <1>5, <1>6
  <2>2. ASSUME NEW j \in k..Len(s) PROVE (ae \o b)[j + 1] = s[j]
    <3>1. /\ j + 1 \in 1..(Len(ae) + Len(b)) /\ ~(j + 1 <= Len(ae))
          /\ (j + 1) - Len(ae) \in 1..(Len(s) - k + 1)
          /\ k + ((j + 1) - Len(ae)) - 1 = j
      BY <1>1, <1>3, <1>5
    <3>2. (ae \o b)[j + 1] = b[(j + 1) - Len(ae)]
      BY <1>6, <3>1
    <3> QED
      BY <1>3, <3>1, <3>2
  <2>3. Len(ae) + Len(b) = Len(s) + 1
    BY <1>1, <1>3, <1>5
  <2> QED
    BY <1>6, <1>7, <2>1, <2>2, <2>3

\* The same in one formula, with a name and without.
IsInserted(S, u, s, k, e) ==
  /\ u \in Seq(S)
  /\ Len(u) = Len(s) + 1
  /\ \A i \in 1..(Len(s) + 1) : u[i] = IF i < k THEN s[i]
                                       ELSE IF i = k THEN e ELSE s[i - 1]

LEMMA Inserting ==
  ASSUME NEW S, NEW s \in Seq(S), NEW k \in 1..(Len(s) + 1), NEW e \in S
  PROVE  IsInserted(S, InsertAt(s, k, e), s, k, e)
PROOF
<1> PICK u : u = InsertAt(s, k, e)
  OBVIOUS
<1>1. /\ u \in Seq(S)
      /\ Len(u) = Len(s) + 1
      /\ \A j \in 1..(k - 1) : u[j] = s[j]
      /\ u[k] = e
      /\ \A j \in k..Len(s) : u[j + 1] = s[j]
  BY InsertAtParts
<1>2. Len(s) \in Nat /\ k \in Nat
  BY LenProperties
<1>3. ASSUME NEW i \in 1..(Len(s) + 1), i > k
      PROVE  u[i] = s[i - 1]
  <2>1. i - 1 \in k..Len(s) /\ (i - 1) + 1 = i
    BY <1>2, <1>3
  <2> QED
    BY <1>1, <2>1
<1> QED
  BY <1>1, <1>2, <1>3 DEF IsInserted

LEMMA InsertAtIndex ==
  ASSUME NEW S, NEW s \in Seq(S), NEW k \in 1..(Len(s) + 1), NEW e \in S
  PROVE  /\ InsertAt(s, k, e) \in Seq(S)
         /\ Len(InsertAt(s, k, e)) = Len(s) + 1
         /\ \A i \in 1..(Len(s) + 1) :
              InsertAt(s, k, e)[i] = IF i < k THEN s[i]
                                     ELSE IF i = k THEN e ELSE s[i - 1]
<1>1. IsInserted(S, InsertAt(s, k, e), s, k, e)
  BY Inserting
<1> QED
  BY <1>1 DEF IsInserted

\* What dequeue does to a queue, and a merge of free_memory to the heap.
LEMMA RemoveAtIndex ==
  ASSUME NEW S, NEW s \in Seq(S), NEW k \in 1..Len(s)
  PROVE  /\ RemoveAt(s, k) \in Seq(S)
         /\ Len(RemoveAt(s, k)) = Len(s) - 1
         /\ \A i \in 1..(Len(s) - 1) :
              RemoveAt(s, k)[i] = IF i < k THEN s[i] ELSE s[i + 1]
PROOF
<1> DEFINE a == SubSeq(s, 1, k - 1)
           b == SubSeq(s, k + 1, Len(s))
<1>1. Len(s) \in Nat /\ k \in Int /\ \A i \in 1..Len(s) : s[i] \in S
  BY LenProperties, ElementOfSeq
<1>2. /\ a \in Seq(S)
      /\ Len(a) = k - 1
      /\ \A i \in 1..(k - 1) : a[i] = s[i]
  <2>1. \A i \in 1..(k - 1) : s[i] \in S
    BY <1>1
  <2>2. /\ a \in Seq(S)
        /\ Len(a) = IF 1 <= k - 1 THEN (k - 1) - 1 + 1 ELSE 0
        /\ \A i \in 1..((k - 1) - 1 + 1) : a[i] = s[1 + i - 1]
    BY <1>1, <2>1, SubSeqProperties
  <2> QED
    BY <1>1, <2>2
<1>3. /\ b \in Seq(S)
      /\ Len(b) = Len(s) - k
      /\ \A i \in 1..(Len(s) - k) : b[i] = s[k + i]
  <2>1. \A i \in (k + 1)..Len(s) : s[i] \in S
    BY <1>1
  <2>2. /\ b \in Seq(S)
        /\ Len(b) = IF k + 1 <= Len(s) THEN Len(s) - (k + 1) + 1 ELSE 0
        /\ \A i \in 1..(Len(s) - (k + 1) + 1) : b[i] = s[(k + 1) + i - 1]
    BY <1>1, <2>1, SubSeqProperties
  <2> QED
    BY <1>1, <2>2
<1>4. /\ a \o b \in Seq(S)
      /\ Len(a \o b) = Len(a) + Len(b)
      /\ \A i \in 1..(Len(a) + Len(b)) :
           (a \o b)[i] = IF i <= Len(a) THEN a[i] ELSE b[i - Len(a)]
  BY <1>2, <1>3, ConcatProperties
<1>5. RemoveAt(s, k) = a \o b
  BY DEF RemoveAt
<1> QED
  <2> HIDE DEF a, b
  <2>1. \A i \in 1..(Len(s) - 1) : ~(i < k) => b[i - Len(a)] = s[i + 1]
    <3> SUFFICES ASSUME NEW i \in 1..(Len(s) - 1), ~(i < k)
                 PROVE  b[i - Len(a)] = s[i + 1]
      OBVIOUS
    <3>1. i - Len(a) \in 1..(Len(s) - k) /\ k + (i - Len(a)) = i + 1
      BY <1>1, <1>2
    <3> QED
      BY <1>3, <3>1
  <2>2. Len(a) + Len(b) = Len(s) - 1 /\ \A i \in Int : (i <= Len(a)) <=> (i < k)
    BY <1>1, <1>2, <1>3
  <2>3. \A i \in 1..(Len(s) - 1) : i < k => a[i] = s[i]
    BY <1>1, <1>2
  <2>4. ASSUME NEW i \in 1..(Len(s) - 1)
        PROVE  (a \o b)[i] = IF i < k THEN s[i] ELSE s[i + 1]
    <3>1. (a \o b)[i] = IF i < k THEN a[i] ELSE b[i - Len(a)]
      BY <1>4, <2>2
    <3> QED
      BY <2>1, <2>3, <3>1
  <2> QED
    BY <1>4, <1>5, <2>2, <2>4

\* A set of natural numbers has a least member: the first step at which a walk
\* along a list would go astray, the first alarm of a time.
LEMMA LeastNumber ==
  ASSUME NEW T \in SUBSET Nat, T # {}
  PROVE  \E x \in T : \A y \in T : x <= y
PROOF
<1> DEFINE R == OpToRel(<, Nat)
<1>1. IsWellFoundedOn(R, Nat)
  BY NatLessThanWellFounded
<1>2. \A x, y \in Nat : <<y, x>> \in R <=> y < x
  BY DEF OpToRel
<1> HIDE DEF R
<1>3. PICK x \in T : \A y \in T : ~(<<y, x>> \in R)
  BY <1>1, WFMin
<1>4. \A y \in T : ~(y < x)
  BY <1>2, <1>3
<1> QED
  BY <1>3, <1>4

\* Counting up to m: what holds at 0, and at i + 1 if at i, holds everywhere.
LEMMA CountUp ==
  ASSUME NEW m \in Nat, NEW T, 0 \in T,
         \A i \in 0..(m - 1) : i \in T => i + 1 \in T
  PROVE  \A i \in 0..m : i \in T
<1> SUFFICES ASSUME NEW j \in 0..m, j \notin T PROVE FALSE
  OBVIOUS
<1>1. PICK U \in SUBSET Nat : U = {i \in 0..m : i \notin T}
  <2>1. {i \in 0..m : i \notin T} \in SUBSET Nat
    OBVIOUS
  <2>. QED
    BY <2>1
<1>2. U # {}
  BY <1>1
<1>3. PICK x \in U : \A y \in U : x <= y
  BY <1>2, LeastNumber
<1>4. x \in 0..m /\ x \notin T /\ x # 0
  BY <1>1, <1>3
<1>5. x - 1 \in 0..(m - 1) /\ x - 1 \in 0..m /\ ~(x <= x - 1) /\ (x - 1) + 1 = x
  BY <1>4
<1>6. x - 1 \in T
  BY <1>1, <1>3, <1>5
<1>. QED
  BY <1>4, <1>5, <1>6

\* Two parts of the same length with the same elements are the same.
LEMMA EqualParts ==
  ASSUME NEW S, NEW s \in Seq(S), NEW t \in Seq(S),
         NEW m \in 0..Len(s), NEW n \in 0..Len(t),
         Len(s) - m = Len(t) - n,
         \A i \in 1 .. Len(s) - m : s[m + i] = t[n + i]
  PROVE  SubSeq(s, m + 1, Len(s)) = SubSeq(t, n + 1, Len(t))
<1> DEFINE a == SubSeq(s, m + 1, Len(s))
           b == SubSeq(t, n + 1, Len(t))
<1>1. a \in Seq(S) /\ Len(a) = Len(s) - m /\ \A i \in 1 .. Len(s) - m : a[i] = s[m + i]
  OBVIOUS
<1>2. b \in Seq(S) /\ Len(b) = Len(t) - n /\ \A i \in 1 .. Len(t) - n : b[i] = t[n + i]
  OBVIOUS
<1>3. Len(a) = Len(b) /\ \A i \in 1..Len(a) : a[i] = b[i]
  BY <1>1, <1>2
<1> HIDE DEF a, b
<1>4. a = b
  BY <1>1, <1>2, <1>3, SeqEqual
<1> QED BY <1>4 DEF a, b

\* The same for what is in front of the cursor.
LEMMA EqualFronts ==
  ASSUME NEW S, NEW s \in Seq(S), NEW t \in Seq(S),
         NEW n \in 0..Len(s), n <= Len(t),
         \A i \in 1..n : s[i] = t[i]
  PROVE  SubSeq(s, 1, n) = SubSeq(t, 1, n)
  OBVIOUS

\* The same behind two places, and the same in front of one.
SameRest(u, y, t, x) == SubSeq(u, y + 1, Len(u)) = SubSeq(t, x + 1, Len(t))
SameStart(u, t, x) == SubSeq(u, 1, x) = SubSeq(t, 1, x)

\* Inserting at a cursor and moving it on leaves what is behind it.
LEMMA InsertKeepsRest ==
  ASSUME NEW S, NEW t \in Seq(S), NEW c \in S, NEW x \in 0..Len(t), NEW y, y = x + 1,
         NEW u, u = InsertAt(t, x + 1, c)
  PROVE  SameRest(u, y, t, x)
<1>1. Len(t) \in Nat /\ y \in 1..(Len(t) + 1) /\ u = InsertAt(t, y, c)
  OBVIOUS
<1>2. /\ u \in Seq(S) /\ Len(u) = Len(t) + 1
      /\ \A i \in 1..(Len(t) + 1) : u[i] = IF i < y THEN t[i] ELSE IF i = y THEN c ELSE t[i - 1]
  <2>1. IsInserted(S, u, t, y, c)
    BY <1>1, Inserting
  <2>. QED
    BY <2>1 DEF IsInserted
<1>3. u \in Seq(S) /\ Len(u) = Len(t) + 1 /\ y \in 0..Len(u) /\ Len(u) - y = Len(t) - x
  BY <1>1, <1>2
<1>4. \A i \in 1..(Len(u) - y) : u[y + i] = t[x + i]
  <2> TAKE i \in 1..(Len(u) - y)
  <2>1. y + i \in 1..(Len(t) + 1) /\ ~(y + i < y) /\ y + i # y /\ (y + i) - 1 = x + i
    BY <1>1, <1>3
  <2>2. u[y + i] = t[(y + i) - 1]
    BY <1>1, <1>2, <2>1
  <2>. QED
    BY <2>1, <2>2
<1>. QED
  BY <1>3, <1>4, EqualParts DEF SameRest

\* So does removing the element in front of the cursor and moving it back.
LEMMA RemoveKeepsRest ==
  ASSUME NEW S, NEW t \in Seq(S), NEW x \in 1..Len(t), NEW y, y = x - 1,
         NEW u, u = RemoveAt(t, x)
  PROVE  SameRest(u, y, t, x)
<1>1. /\ u \in Seq(S) /\ Len(u) = Len(t) - 1 /\ Len(t) \in Nat
      /\ \A i \in 1..(Len(t) - 1) : u[i] = IF i < x THEN t[i] ELSE t[i + 1]
  BY RemoveAtIndex
<1>2. y \in 0..Len(u) /\ x \in 0..Len(t) /\ Len(u) - y = Len(t) - x
  BY <1>1
<1>3. \A i \in 1..(Len(u) - y) : u[y + i] = t[x + i]
  <2> TAKE i \in 1..(Len(u) - y)
  <2>1. y + i \in 1..(Len(t) - 1) /\ ~(y + i < x) /\ (y + i) + 1 = x + i
    BY <1>1, <1>2
  <2>2. u[y + i] = t[(y + i) + 1]
    BY <1>1, <2>1
  <2>. QED
    BY <2>1, <2>2
<1>. QED
  BY <1>1, <1>2, <1>3, EqualParts DEF SameRest

\* Removing the element behind the cursor leaves what is in front of it.
LEMMA RemoveKeepsStart ==
  ASSUME NEW S, NEW t \in Seq(S), NEW k \in 1..Len(t), NEW x, k = x + 1, x \in Int,
         NEW u, u = RemoveAt(t, k)
  PROVE  SameStart(u, t, x) /\ Len(u) = Len(t) - 1
<1>1. /\ u \in Seq(S) /\ Len(u) = Len(t) - 1 /\ Len(t) \in Nat
      /\ \A i \in 1..(Len(t) - 1) : u[i] = IF i < k THEN t[i] ELSE t[i + 1]
  BY RemoveAtIndex
<1>2. x \in 0..Len(u) /\ x <= Len(t) /\ \A i \in 1..x : u[i] = t[i]
  BY <1>1
<1>. QED
  BY <1>1, <1>2, EqualFronts DEF SameStart

=============================================================================
