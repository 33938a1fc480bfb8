-------------------------- MODULE LinkedListProofs --------------------------
(***************************************************************************)
(* What walking a linked list computes: if the links are those of a list s *)
(* without repetition, Chain is s and FirstOf its first member in a set.   *)
(***************************************************************************)
EXTENDS LinkedLists, SequenceLemmas, FiniteSetTheorems

\* s is the list that begins at x: the nodes of s follow each other along
\* links, the last one has no successor, and none comes twice.
IsListFrom(links, x, s) ==
  /\ s \in Seq(DOMAIN links \ {NULL})
  /\ x = IF s = << >> THEN NULL ELSE s[1]
  /\ \A i \in 1..Len(s) : links[s[i]] = IF i < Len(s) THEN s[i + 1] ELSE NULL
  /\ \A i, j \in 1..Len(s) : s[i] = s[j] => i = j

\* Such links lead out of NULL only to NULL.
AreLinks(links) ==
  /\ IsFiniteSet(DOMAIN links)
  /\ NULL \in DOMAIN links
  /\ links[NULL] = NULL

\* A list has fewer nodes than links has pointers.
LEMMA ListShort ==
  ASSUME NEW links, NEW x, NEW s, AreLinks(links), IsListFrom(links, x, s)
  PROVE  /\ Cardinality(DOMAIN links) \in Nat
         /\ Len(s) \in Nat
         /\ Len(s) + 1 <= Cardinality(DOMAIN links)
PROOF
<1> DEFINE D == DOMAIN links
<1>1. IsFiniteSet(D \ {NULL}) /\ Cardinality(D \ {NULL}) = Cardinality(D) - 1
  BY FS_RemoveElement DEF AreLinks
<1>2. Cardinality(D) \in Nat
  BY FS_CardinalityType DEF AreLinks
<1>3. Len(s) \in Nat /\ s \in [1..Len(s) -> D \ {NULL}]
  BY LenProperties DEF IsListFrom
<1>4. s \in Injection(1..Len(s), D \ {NULL})
  BY <1>3 DEF IsListFrom, Injection, IsInjective
<1>5. Cardinality(1..Len(s)) <= Cardinality(D \ {NULL})
  BY <1>1, <1>4, FS_Injection
<1>6. Cardinality(1..Len(s)) = Len(s)
  <2>1. 1 \in Int /\ Len(s) \in Int
    BY <1>3
  <2>2. Cardinality(1..Len(s)) = IF 1 > Len(s) THEN 0 ELSE Len(s) - 1 + 1
    BY <2>1, FS_Interval
  <2> QED
    BY <1>3, <2>2
<1> QED
  BY <1>1, <1>2, <1>3, <1>5, <1>6

\* A walk meets the nodes of the list, and then NULL for ever.
LEMMA WalkIsList ==
  ASSUME NEW links, NEW x, NEW s, AreLinks(links), IsListFrom(links, x, s)
  PROVE  Walk(links, x) = [k \in 1..Cardinality(DOMAIN links) |->
                             IF k <= Len(s) THEN s[k] ELSE NULL]
PROOF
<1> DEFINE n == Cardinality(DOMAIN links)
           w == [k \in 1..n |-> IF k <= Len(s) THEN s[k] ELSE NULL]
           Step(f) == [k \in 1..n |-> IF k = 1 THEN x ELSE links[f[k - 1]]]
<1>1. n \in Nat /\ Len(s) \in Nat /\ Len(s) + 1 <= n
  BY ListShort
<1> HIDE DEF n
<1>2. w = Step(w)
  <2> SUFFICES ASSUME NEW k \in 1..n
               PROVE  w[k] = IF k = 1 THEN x ELSE links[w[k - 1]]
    OBVIOUS
  <2>1. CASE k = 1
    <3>1. s = << >> <=> Len(s) = 0
      BY EmptySeq DEF IsListFrom
    <3> QED
      BY <1>1, <2>1, <3>1 DEF IsListFrom
  <2>2. CASE k # 1
    <3>1. k - 1 \in 1..n /\ (k - 1) + 1 = k
      BY <1>1, <2>2
    <3>2. CASE k - 1 <= Len(s)
      <4>1. w[k - 1] = s[k - 1] /\ k - 1 \in 1..Len(s)
        BY <1>1, <3>1, <3>2
      <4>2. links[s[k - 1]] = IF k - 1 < Len(s) THEN s[k] ELSE NULL
        BY <3>1, <4>1 DEF IsListFrom
      <4> QED
        BY <1>1, <2>2, <4>1, <4>2
    <3>3. CASE ~(k - 1 <= Len(s))
      <4>1. w[k - 1] = NULL /\ w[k] = NULL
        BY <1>1, <3>1, <3>3
      <4> QED
        BY <2>2, <4>1 DEF AreLinks
    <3> QED
      BY <3>2, <3>3
  <2> QED
    BY <2>1, <2>2
<1> HIDE DEF w
<1>3. ASSUME NEW f, f = Step(f)
      PROVE  f = w
  <2> DEFINE T == {k \in 1..n : f[k] # w[k]}
  <2>1. T = {}
    <3> SUFFICES ASSUME T # {} PROVE FALSE
      OBVIOUS
    <3>1. PICK k \in T : \A j \in T : k <= j
      <4>1. T \in SUBSET Nat
        BY <1>1
      <4> HIDE DEF T
      <4> QED
        BY <4>1, LeastNumber
    <3>2. k \in 1..n /\ f[k] # w[k]
      OBVIOUS
    <3>3. f[k] = IF k = 1 THEN x ELSE links[f[k - 1]]
      BY <1>3, <3>2
    <3>4. w[k] = IF k = 1 THEN x ELSE links[w[k - 1]]
      BY <1>2, <3>2
    <3>5. k # 1
      BY <3>2, <3>3, <3>4
    <3>6. k - 1 \in 1..n /\ ~(k <= k - 1)
      BY <1>1, <3>2, <3>5
    <3>7. f[k - 1] = w[k - 1]
      BY <3>1, <3>6
    <3> QED
      BY <3>2, <3>3, <3>4, <3>5, <3>7
  <2>2. DOMAIN f = 1..n /\ DOMAIN w = 1..n
    BY <1>3 DEF w
  <2>3. f = [k \in 1..n |-> f[k]] /\ w = [k \in 1..n |-> w[k]]
    BY <1>3 DEF w
  <2> QED
    BY <2>1, <2>3
<1>4. Walk(links, x) = CHOOSE f : f = Step(f)
  BY DEF Walk, n
<1> QED
  BY <1>2, <1>3, <1>4 DEF w, n

\* QueueOf, and every other list read from its head, is the list.
LEMMA ChainIsList ==
  ASSUME NEW links, NEW x, NEW s, AreLinks(links), IsListFrom(links, x, s)
  PROVE  Chain(links, x) = s
PROOF
<1> DEFINE n == Cardinality(DOMAIN links)
           at == Walk(links, x)
<1>1. n \in Nat /\ Len(s) \in Nat /\ Len(s) + 1 <= n
  BY ListShort
<1>2. at = [k \in 1..n |-> IF k <= Len(s) THEN s[k] ELSE NULL]
  BY WalkIsList
<1>3. \A k \in 1..Len(s) : s[k] # NULL
  BY DEF IsListFrom
<1>4. s = [k \in 1..Len(s) |-> s[k]]
  BY LenProperties DEF IsListFrom
<1>5. Chain(links, x) = [k \in {j \in DOMAIN at : at[j] # NULL} |-> at[k]]
  BY DEF Chain
<1> HIDE DEF n, at
<1>6. {j \in DOMAIN at : at[j] # NULL} = 1..Len(s)
  BY <1>1, <1>2, <1>3
<1>7. \A k \in 1..Len(s) : at[k] = s[k]
  BY <1>1, <1>2
<1> QED
  BY <1>4, <1>5, <1>6, <1>7

\* A search along the list stops at the first node it is looking for.
LEMMA FirstOfIsFirst ==
  ASSUME NEW links, NEW x, NEW s, NEW S, NULL \notin S,
         AreLinks(links), IsListFrom(links, x, s)
  PROVE  \/ /\ FirstOf(links, x, S) = NULL
            /\ \A i \in 1..Len(s) : s[i] \notin S
         \/ \E i \in 1..Len(s) :
              /\ FirstOf(links, x, S) = s[i] /\ s[i] \in S
              /\ \A j \in 1..(i - 1) : s[j] \notin S
PROOF
<1> DEFINE n == Cardinality(DOMAIN links)
           at == Walk(links, x)
           hits == {k \in DOMAIN at : at[k] \in S}
           first == CHOOSE k \in hits : \A j \in hits : k <= j
<1>1. n \in Nat /\ Len(s) \in Nat /\ Len(s) + 1 <= n
  BY ListShort
<1>2. at = [k \in 1..n |-> IF k <= Len(s) THEN s[k] ELSE NULL]
  BY WalkIsList
<1>3. FirstOf(links, x, S) = IF hits = {} THEN NULL ELSE at[first]
  BY DEF FirstOf
<1> HIDE DEF n, at
<1>4. \A k : k \in hits <=> k \in 1..Len(s) /\ s[k] \in S
  BY <1>1, <1>2
<1> HIDE DEF hits
<1>5. CASE hits = {}
  BY <1>3, <1>4, <1>5
<1>6. CASE hits # {}
  <2>1. hits \in SUBSET Nat
    BY <1>1, <1>4
  <2>2. \E k \in hits : \A j \in hits : k <= j
    BY <1>6, <2>1, LeastNumber
  <2>3. first \in hits /\ \A j \in hits : first <= j
    BY <2>2
  <2> HIDE DEF first
  <2>4. first \in 1..Len(s) /\ s[first] \in S /\ at[first] = s[first]
    BY <1>1, <1>2, <1>4, <2>3
  <2>5. \A j \in 1..(first - 1) : s[j] \notin S
    BY <1>1, <1>4, <2>3, <2>4
  <2> QED
    BY <1>3, <1>6, <2>4, <2>5
<1> QED
  BY <1>5, <1>6

=============================================================================
