----------------------------- MODULE HeapProofs -----------------------------
(***************************************************************************)
(* What modules HeapBlocks and HeapClients promise, proved for any heap,   *)
(* any size of the MCB, any sizes that callers ask for and any number of   *)
(* calls.  First the row of blocks by itself; then lists that are ordered  *)
(* by address; then what each step of allocate_memory and free_memory does *)
(* to the three lists and to the row they stand for; then the clients.     *)
(***************************************************************************)
EXTENDS HeapClients, LinkedListProofs

-----------------------------------------------------------------------------

(***************************************************************************)
(* Blocks and rows of blocks.                                              *)
(***************************************************************************)

\* The sizes and addresses in a row of MCBs are numbers.
LEMMA RowType ==
  ASSUME NEW s \in Seq(Block)
  PROVE  /\ Len(s) \in Nat
         /\ DOMAIN s = 1..Len(s)
         /\ \A i \in 1..Len(s) :
              /\ s[i] \in Block
              /\ s[i].addr \in Nat /\ s[i].size \in Nat /\ s[i].free \in BOOLEAN
              /\ End(s, i) \in Nat /\ s[i].addr <= End(s, i)
PROOF
<1>1. Len(s) \in Nat /\ DOMAIN s = 1..Len(s)
  BY LenProperties
<1>2. \A i \in 1..Len(s) : s[i] \in Block
  BY ElementOfSeq
<1>3. ASSUME NEW i \in 1..Len(s)
      PROVE  s[i].addr \in Nat /\ s[i].size \in Nat /\ s[i].free \in BOOLEAN
  BY <1>2 DEF Block
<1>4. ASSUME NEW i \in 1..Len(s) PROVE End(s, i) \in Nat /\ s[i].addr <= End(s, i)
  <2>1. s[i].addr \in Nat /\ s[i].size \in Nat
    BY <1>3
  <2> QED
    BY <2>1, HeapAssumption DEF End
<1> QED
  BY <1>1, <1>2, <1>3, <1>4

\* Setting the size, or the mark, of an MCB keeps its other fields.
LEMMA FieldsKept ==
  ASSUME NEW b \in Block, NEW n, NEW f
  PROVE  /\ [b EXCEPT !.size = n] = [addr |-> b.addr, size |-> n, free |-> b.free]
         /\ [b EXCEPT !.free = f] = [addr |-> b.addr, size |-> b.size, free |-> f]
PROOF
  BY DEF Block

\* Writing one MCB leaves a row of blocks.
LEMMA UpdatedRow ==
  ASSUME NEW s \in Seq(Block), NEW i \in 1..Len(s), NEW b \in Block
  PROVE  /\ [s EXCEPT ![i] = b] \in Seq(Block)
         /\ Len([s EXCEPT ![i] = b]) = Len(s)
         /\ \A j \in 1..Len(s) : [s EXCEPT ![i] = b][j] = IF j = i THEN b ELSE s[j]
PROOF
<1>1. Len(s) \in Nat /\ DOMAIN s = 1..Len(s)
  BY LenProperties
<1>2. /\ [s EXCEPT ![i] = b] \in Seq(Block)
      /\ Len([s EXCEPT ![i] = b]) = Len(s)
  BY ExceptSeq
<1> QED
  BY <1>1, <1>2

\* So does adding an MCB.
LEMMA InsertedRow ==
  ASSUME NEW s \in Seq(Block), NEW k \in 1..(Len(s) + 1), NEW b \in Block
  PROVE  /\ InsertAt(s, k, b) \in Seq(Block)
         /\ Len(InsertAt(s, k, b)) = Len(s) + 1
         /\ \A j \in 1..(k - 1) : InsertAt(s, k, b)[j] = s[j]
         /\ InsertAt(s, k, b)[k] = b
         /\ \A j \in k..Len(s) : InsertAt(s, k, b)[j + 1] = s[j]
PROOF
  BY InsertAtParts

-----------------------------------------------------------------------------

(***************************************************************************)
(* No step makes blocks overlap.                                           *)
(***************************************************************************)

\* A row whose block i became two blocks, one behind the other, inside it.
LEMMA SplitApart ==
  ASSUME NEW s \in Seq(Block), Apart(s), NEW i \in 1..Len(s),
         NEW r \in Seq(Block), Len(r) = Len(s) + 1,
         \A j \in 1..(i - 1) : r[j] = s[j],
         \A j \in (i + 1)..Len(s) : r[j + 1] = s[j],
         r[i].addr = s[i].addr, End(r, i) <= r[i + 1].addr,
         End(r, i + 1) = End(s, i)
  PROVE  Apart(r)
PROOF
<1>1. /\ Len(s) \in Nat /\ HeapSize \in Nat
      /\ DOMAIN s = 1..Len(s) /\ DOMAIN r = 1..(Len(s) + 1)
  BY RowType, HeapAssumption
<1>2. \A j \in 1..Len(s) : End(s, j) \in Nat /\ s[j].addr \in Nat
  BY RowType
<1>3. \A j \in 1..(Len(s) + 1) : End(r, j) \in Nat /\ r[j].addr \in Nat
  BY RowType
<1>4. \A j \in 1..Len(s) : End(s, j) <= HeapSize
  BY <1>1 DEF Apart
<1>5. \A j, k \in 1..Len(s) : j < k => End(s, j) <= s[k].addr
  BY <1>1 DEF Apart
<1>6. \A j \in 1..(i - 1) : End(r, j) = End(s, j) /\ r[j].addr = s[j].addr
  BY DEF End
<1>7. \A j \in (i + 1)..Len(s) : End(r, j + 1) = End(s, j) /\ r[j + 1].addr = s[j].addr
  BY DEF End
<1>8. r[i].addr <= End(r, i) /\ r[i + 1].addr <= End(r, i + 1)
  <2>1. i \in 1..Len(r) /\ i + 1 \in 1..Len(r)
    BY <1>1
  <2>2. \A j \in 1..Len(r) : r[j].addr <= End(r, j)
    BY RowType
  <2> QED
    BY <2>1, <2>2
<1>9. s[i].addr <= r[i + 1].addr /\ End(r, i) <= End(s, i)
  BY <1>1, <1>2, <1>3, <1>8
<1>10. ASSUME NEW j \in 1..(Len(s) + 1)
       PROVE  j \in 1..(i - 1) \/ j = i \/ j = i + 1
              \/ j - 1 \in (i + 1)..Len(s)
  BY <1>1
<1>11. ASSUME NEW j \in 1..(Len(s) + 1)
       PROVE  End(r, j) <= HeapSize
  <2>1. CASE j \in 1..(i - 1)
    BY <1>1, <1>4, <1>6, <2>1
  <2>2. CASE j = i \/ j = i + 1
    BY <1>1, <1>2, <1>3, <1>4, <1>9, <2>2
  <2>3. CASE j - 1 \in (i + 1)..Len(s)
    <3>1. End(r, (j - 1) + 1) = End(s, j - 1) /\ (j - 1) + 1 = j /\ j - 1 \in 1..Len(s)
      BY <1>1, <1>7, <2>3
    <3> QED
      BY <1>4, <3>1
  <2> QED
    BY <1>10, <2>1, <2>2, <2>3
<1>12. ASSUME NEW j \in 1..(Len(s) + 1), NEW k \in 1..(Len(s) + 1), j < k
       PROVE  End(r, j) <= r[k].addr
  <2>1. ASSUME j \in 1..(i - 1)
        PROVE  /\ End(r, j) <= s[i].addr
               /\ k \in 1..(i - 1) => End(r, j) <= r[k].addr
    BY <1>1, <1>5, <1>6, <1>12, <2>1
  <2>2. CASE k \in 1..(i - 1)
    BY <1>1, <1>12, <2>1, <2>2
  <2>3. CASE k = i
    BY <1>1, <1>12, <2>1, <2>3
  <2>4. CASE k = i + 1
    <3>1. CASE j = i
      BY <2>4, <3>1
    <3>2. CASE j \in 1..(i - 1)
      <4>1. End(r, j) <= s[i].addr /\ s[i].addr <= r[i + 1].addr
        BY <1>9, <2>1, <3>2
      <4>2. End(r, j) \in Nat /\ s[i].addr \in Nat /\ r[i + 1].addr \in Nat
        BY <1>1, <1>2, <1>3
      <4> QED
        BY <2>4, <4>1, <4>2
    <3> QED
      BY <1>1, <1>12, <2>4, <3>1, <3>2
  <2>5. CASE k - 1 \in (i + 1)..Len(s)
    <3>1. /\ r[k].addr = s[k - 1].addr
          /\ k - 1 \in 1..Len(s) /\ i < k - 1
      <4>1. r[(k - 1) + 1].addr = s[k - 1].addr /\ (k - 1) + 1 = k
        BY <1>7, <2>5
      <4> QED
        BY <1>1, <2>5, <4>1
    <3>2. End(s, i) <= s[k - 1].addr
      BY <1>5, <3>1
    <3>3. CASE j \in 1..(i - 1)
      BY <1>1, <1>5, <1>6, <3>1, <3>3
    <3>4. CASE j = i \/ j = i + 1
      BY <1>1, <1>2, <1>3, <1>9, <3>1, <3>2, <3>4
    <3>5. CASE j - 1 \in (i + 1)..Len(s)
      <4>1. End(r, (j - 1) + 1) = End(s, j - 1) /\ (j - 1) + 1 = j
        BY <1>7, <3>5
      <4>2. j - 1 \in 1..Len(s) /\ j - 1 < k - 1
        BY <1>1, <1>12, <3>5
      <4> QED
        BY <1>5, <3>1, <4>1, <4>2
    <3> QED
      BY <1>10, <3>3, <3>4, <3>5
  <2> QED
    BY <1>10, <2>2, <2>3, <2>4, <2>5
<1> QED
  BY <1>1, <1>11, <1>12 DEF Apart

\* A row whose block i took in its successor, and does not reach further.
LEMMA AbsorbApart ==
  ASSUME NEW s \in Seq(Block), Apart(s), NEW i \in 1..(Len(s) - 1),
         NEW r \in Seq(Block), Len(r) = Len(s) - 1,
         \A j \in 1..(i - 1) : r[j] = s[j],
         \A j \in (i + 1)..(Len(s) - 1) : r[j] = s[j + 1],
         r[i].addr = s[i].addr, End(r, i) <= End(s, i + 1)
  PROVE  Apart(r)
PROOF
<1>1. /\ Len(s) \in Nat /\ HeapSize \in Nat
      /\ DOMAIN s = 1..Len(s) /\ DOMAIN r = 1..(Len(s) - 1)
  BY RowType, HeapAssumption
<1>2. \A j \in 1..Len(s) : End(s, j) \in Nat /\ s[j].addr \in Nat
  BY RowType
<1>3. \A j \in 1..(Len(s) - 1) : End(r, j) \in Nat /\ r[j].addr \in Nat
  BY RowType
<1>4. \A j \in 1..Len(s) : End(s, j) <= HeapSize
  BY <1>1 DEF Apart
<1>5. \A j, k \in 1..Len(s) : j < k => End(s, j) <= s[k].addr
  BY <1>1 DEF Apart
<1>6. \A j \in 1..(i - 1) : End(r, j) = End(s, j) /\ r[j].addr = s[j].addr
  BY DEF End
<1>7. \A j \in (i + 1)..(Len(s) - 1) : End(r, j) = End(s, j + 1) /\ r[j].addr = s[j + 1].addr
  BY DEF End
<1>8. ASSUME NEW j \in 1..(Len(s) - 1)
      PROVE  End(r, j) <= HeapSize
  <2>1. CASE j < i
    BY <1>1, <1>4, <1>6, <2>1
  <2>2. CASE j = i
    <3>1. End(s, i + 1) <= HeapSize /\ End(s, i + 1) \in Nat /\ End(r, i) \in Nat
      BY <1>1, <1>2, <1>3, <1>4
    <3> QED
      BY <1>1, <2>2, <3>1
  <2>3. CASE j > i
    BY <1>1, <1>4, <1>7, <2>3
  <2> QED
    BY <1>1, <2>1, <2>2, <2>3
<1>9. ASSUME NEW j \in 1..(Len(s) - 1), NEW k \in 1..(Len(s) - 1), j < k
      PROVE  End(r, j) <= r[k].addr
  <2>1. CASE k <= i
    <3>1. End(r, j) = End(s, j) /\ r[k].addr = s[k].addr
      BY <1>1, <1>6, <1>9, <2>1
    <3>2. j \in 1..Len(s) /\ k \in 1..Len(s)
      BY <1>1
    <3> QED
      BY <1>5, <1>9, <3>1, <3>2
  <2>2. CASE k > i
    <3>1. r[k].addr = s[k + 1].addr /\ k + 1 \in 1..Len(s)
      BY <1>1, <1>7, <2>2
    <3>2. CASE j < i
      <4>1. End(r, j) = End(s, j) /\ j \in 1..Len(s) /\ j < k + 1
        BY <1>1, <1>6, <1>9, <3>2
      <4> QED
        BY <1>5, <3>1, <4>1
    <3>3. CASE j = i
      <4>1. End(s, i + 1) <= s[k + 1].addr
        BY <1>1, <1>5, <2>2, <3>1
      <4>2. End(r, i) \in Nat /\ End(s, i + 1) \in Nat /\ s[k + 1].addr \in Nat
        BY <1>1, <1>2, <1>3, <3>1
      <4> QED
        BY <3>1, <3>3, <4>1, <4>2
    <3>4. CASE j > i
      <4>1. End(r, j) = End(s, j + 1) /\ j + 1 \in 1..Len(s) /\ j + 1 < k + 1
        BY <1>1, <1>7, <1>9, <3>4
      <4> QED
        BY <1>5, <3>1, <4>1
    <3> QED
      BY <1>1, <3>2, <3>3, <3>4
  <2> QED
    BY <1>1, <2>1, <2>2
<1> QED
  BY <1>1, <1>8, <1>9 DEF Apart

-----------------------------------------------------------------------------

(***************************************************************************)
(* The inductive invariant.  Coalesced is part of it: that a new free      *)
(* block has no free neighbour behind it, and that a freed one has none    *)
(* left after merging once in each direction, both rest on it.             *)
(***************************************************************************)
Inv ==
  /\ TypeOK
  /\ Layout
  /\ Coalesced

\* initialize_heap makes one free block that ends with the heap.
LEMMA InitInv == Init => Inv
PROOF
<1> SUFFICES ASSUME Init PROVE Inv
  OBVIOUS
<1> DEFINE b == [addr |-> 0, size |-> HeapSize - MCBSize, free |-> TRUE]
<1>1. b \in Block
  BY HeapAssumption DEF Block
<1>2. blocks = <<b>>
  BY DEF Init
<1>3. b.addr + MCBSize + b.size = HeapSize
  BY HeapAssumption
<1> HIDE DEF b
<1>4. TypeOK /\ DOMAIN blocks = {1} /\ blocks[1] = b
  BY <1>1, <1>2 DEF TypeOK
<1>5. Layout
  BY <1>3, <1>4, HeapAssumption DEF Layout, Apart, End
<1>6. Coalesced
  BY <1>4 DEF Coalesced, IsFree
<1> QED
  BY <1>4, <1>5, <1>6 DEF Inv

\* allocate_memory, when the block found is too small to be split.
LEMMA TakeStep ==
  ASSUME Inv, NEW i \in DOMAIN blocks, NEW n \in Sizes, Take(n, i)
  PROVE  Inv'
PROOF
<1> DEFINE b == [addr |-> blocks[i].addr, size |-> blocks[i].size, free |-> FALSE]
<1>1. /\ blocks \in Seq(Block) /\ Apart(blocks) /\ Coalesced
      /\ i \in 1..Len(blocks) /\ DOMAIN blocks = 1..Len(blocks) /\ Len(blocks) \in Nat
      /\ \A j \in 1..Len(blocks) : blocks[j] \in Block
  BY RowType DEF Inv, TypeOK, Layout
<1>2. b \in Block
  BY <1>1 DEF Block
<1>3. blocks' = [blocks EXCEPT ![i] = b]
  <2>1. [blocks[i] EXCEPT !.free = FALSE] = b
    BY <1>1, FieldsKept
  <2> HIDE DEF b
  <2> QED
    BY <2>1 DEF Take
<1>4. /\ blocks' \in Seq(Block) /\ Len(blocks') = Len(blocks)
      /\ DOMAIN blocks' = 1..Len(blocks)
      /\ \A j \in 1..Len(blocks) : blocks'[j] = IF j = i THEN b ELSE blocks[j]
  <2> HIDE DEF b
  <2>1. /\ blocks' \in Seq(Block) /\ Len(blocks') = Len(blocks)
        /\ \A j \in 1..Len(blocks) : blocks'[j] = IF j = i THEN b ELSE blocks[j]
    BY <1>1, <1>2, <1>3, UpdatedRow
  <2> QED
    BY <2>1, RowType
<1>5. \A j \in 1..Len(blocks) :
        /\ blocks'[j].addr = blocks[j].addr /\ blocks'[j].size = blocks[j].size
        /\ blocks'[j].free => blocks[j].free
  BY <1>4
<1>6. Apart(blocks')
  BY <1>1, <1>4, <1>5 DEF Apart, End
<1>7. Coalesced'
  BY <1>1, <1>4, <1>5 DEF Coalesced, IsFree
<1> QED
  BY <1>4, <1>6, <1>7 DEF Inv, TypeOK, Layout

\* allocate_memory, when the end of the block found becomes a block.
LEMMA SplitStep ==
  ASSUME Inv, NEW i \in DOMAIN blocks, NEW n \in Sizes, Split(n, i)
  PROVE  Inv'
PROOF
<1> DEFINE b == [addr |-> blocks[i].addr, size |-> n, free |-> FALSE]
           e == [addr |-> blocks[i].addr + MCBSize + n,
                 size |-> blocks[i].size - n - MCBSize,
                 free |-> TRUE]
           u == [blocks EXCEPT ![i] = b]
           r == InsertAt(u, i + 1, e)
           L == Len(blocks)
<1>1. /\ blocks \in Seq(Block) /\ Apart(blocks) /\ Coalesced
      /\ i \in 1..L /\ DOMAIN blocks = 1..L /\ L \in Nat
      /\ \A j \in 1..L : blocks[j] \in Block
  BY RowType DEF Inv, TypeOK, Layout
<1>2. /\ blocks[i].addr \in Nat /\ blocks[i].size \in Nat /\ blocks[i].free
      /\ n \in Nat /\ MCBSize \in Nat /\ blocks[i].size > n + MCBSize
  BY <1>1, RowType, HeapAssumption DEF Split, FirstFit
<1>3. b \in Block /\ e \in Block
  BY <1>2 DEF Block
<1>4. blocks' = r
  BY DEF Split
<1>5. /\ b.addr = blocks[i].addr /\ ~b.free /\ e.free
      /\ b.addr + MCBSize + b.size = e.addr
      /\ e.addr + MCBSize + e.size = blocks[i].addr + MCBSize + blocks[i].size
  BY <1>2
<1> HIDE DEF b, e
<1>6. /\ u \in Seq(Block) /\ Len(u) = L
      /\ \A j \in 1..L : u[j] = IF j = i THEN b ELSE blocks[j]
  BY <1>1, <1>3, UpdatedRow
<1> HIDE DEF u
<1>7. /\ r \in Seq(Block) /\ Len(r) = L + 1
      /\ \A j \in 1..i : r[j] = u[j]
      /\ r[i + 1] = e
      /\ \A j \in (i + 1)..L : r[j + 1] = u[j]
  <2>1. i + 1 \in 1..(Len(u) + 1) /\ (i + 1) - 1 = i
    BY <1>1, <1>6
  <2>2. /\ InsertAt(u, i + 1, e) \in Seq(Block)
        /\ Len(InsertAt(u, i + 1, e)) = Len(u) + 1
        /\ \A j \in 1..((i + 1) - 1) : InsertAt(u, i + 1, e)[j] = u[j]
        /\ InsertAt(u, i + 1, e)[i + 1] = e
        /\ \A j \in (i + 1)..Len(u) : InsertAt(u, i + 1, e)[j + 1] = u[j]
    <3> HIDE DEF r, L
    <3> QED
      BY <1>3, <1>6, <2>1, InsertedRow
  <2> HIDE DEF L
  <2> QED
    BY <1>6, <2>1, <2>2
<1> HIDE DEF r, L
<1>8. \A j \in 1..(i - 1) : r[j] = blocks[j]
  BY <1>1, <1>6, <1>7
<1>9. r[i] = b /\ r[i + 1] = e
  BY <1>1, <1>6, <1>7
<1>10. \A j \in (i + 1)..L : r[j + 1] = blocks[j]
  BY <1>1, <1>6, <1>7
<1>11. Apart(r)
  <2>1. /\ r[i].addr = blocks[i].addr /\ End(r, i) = r[i + 1].addr
        /\ End(r, i + 1) = End(blocks, i)
    BY <1>5, <1>9 DEF End
  <2>2. End(r, i) <= r[i + 1].addr
    <3>1. e.addr \in Nat
      BY <1>3 DEF Block
    <3> QED
      BY <1>9, <2>1, <3>1
  <2> QED
    BY <1>1, <1>7, <1>8, <1>10, <2>1, <2>2, SplitApart DEF L
<1>12. ASSUME NEW j \in 1..(L + 1), j + 1 \in 1..(L + 1), r[j].free
       PROVE  ~r[j + 1].free
  <2>1. \A k \in 1..L : k + 1 \in 1..L /\ blocks[k].free => ~blocks[k + 1].free
    BY <1>1 DEF Coalesced, IsFree
  <2>2. CASE j + 1 < i
    BY <1>1, <1>8, <1>12, <2>1, <2>2
  <2>3. CASE j + 1 = i
    BY <1>1, <1>5, <1>9, <2>3
  <2>4. CASE j = i
    BY <1>5, <1>9, <1>12, <2>4
  <2>5. CASE j = i + 1
    <3>1. i + 1 \in (i + 1)..L
      BY <1>1, <1>12, <2>5
    <3>2. r[j + 1] = blocks[i + 1] /\ i + 1 \in 1..L
      BY <1>1, <1>10, <2>5, <3>1
    <3> QED
      BY <1>1, <1>2, <2>1, <3>2
  <2>6. CASE j > i + 1
    <3>1. j - 1 \in (i + 1)..L /\ j \in (i + 1)..L /\ (j - 1) + 1 = j
      BY <1>1, <1>12, <2>6
    <3>2. r[j] = blocks[j - 1] /\ r[j + 1] = blocks[j]
      BY <1>10, <3>1
    <3> QED
      BY <1>1, <1>12, <2>1, <3>1, <3>2
  <2> QED
    BY <1>1, <2>2, <2>3, <2>4, <2>5, <2>6
<1>13. DOMAIN r = 1..(L + 1)
  BY <1>7, RowType
<1>14. Coalesced'
  BY <1>4, <1>12, <1>13 DEF Coalesced, IsFree
<1> QED
  BY <1>4, <1>7, <1>11, <1>14 DEF Inv, TypeOK, Layout

\* A block that grows by the size of its successor ends in front of where
\* the successor ended.
LEMMA Shift ==
  ASSUME NEW a \in Nat, NEW x \in Nat, NEW b \in Nat, NEW y \in Nat,
         NEW h \in Nat, a + h + x <= b
  PROVE  a + h + (x + y) <= b + h + y
PROOF
  OBVIOUS

\* A merge of free_memory: the MCB of the successor is lost, so the merged
\* block ends in front of where the successor did.
LEMMA AbsorbRow ==
  ASSUME NEW s \in Seq(Block), Apart(s), NEW i \in 1..(Len(s) - 1)
  PROVE  /\ Absorb(s, i) \in Seq(Block)
         /\ Apart(Absorb(s, i))
         /\ Len(Absorb(s, i)) = Len(s) - 1
         /\ \A j \in 1..i : Absorb(s, i)[j].free = s[j].free
         /\ \A j \in (i + 1)..(Len(s) - 1) : Absorb(s, i)[j].free = s[j + 1].free
PROOF
<1> DEFINE b == [addr |-> s[i].addr, size |-> s[i].size + s[i + 1].size,
                 free |-> s[i].free]
           u == [s EXCEPT ![i] = b]
           r == RemoveAt(u, i + 1)
<1>1. /\ Len(s) \in Nat /\ DOMAIN s = 1..Len(s)
      /\ i \in 1..Len(s) /\ i + 1 \in 1..Len(s)
      /\ s[i] \in Block /\ s[i + 1] \in Block
  <2>1. Len(s) \in Nat /\ DOMAIN s = 1..Len(s)
    BY RowType
  <2>2. i \in 1..Len(s) /\ i + 1 \in 1..Len(s)
    BY <2>1
  <2> QED
    BY <2>1, <2>2, RowType
<1>2. b \in Block
  BY <1>1 DEF Block
<1>3. Absorb(s, i) = r
  <2>1. [s[i] EXCEPT !.size = @ + s[i + 1].size] = b
    BY <1>1, FieldsKept
  <2> HIDE DEF b
  <2>2. [s EXCEPT ![i].size = @ + s[i + 1].size] = u
    BY <2>1
  <2> HIDE DEF u
  <2> QED
    BY <2>2 DEF Absorb
<1>4. /\ b.addr = s[i].addr /\ b.free = s[i].free
      /\ b.size = s[i].size + s[i + 1].size
  OBVIOUS
<1> HIDE DEF b
<1>5. /\ u \in Seq(Block) /\ Len(u) = Len(s)
      /\ \A j \in 1..Len(s) : u[j] = IF j = i THEN b ELSE s[j]
  BY <1>1, <1>2, UpdatedRow
<1> HIDE DEF u
<1>6. /\ r \in Seq(Block) /\ Len(r) = Len(s) - 1
      /\ \A j \in 1..(Len(s) - 1) : r[j] = IF j < i + 1 THEN u[j] ELSE u[j + 1]
  <2>1. i + 1 \in 1..Len(u)
    BY <1>1, <1>5
  <2> QED
    BY <1>5, <2>1, RemoveAtIndex
<1> HIDE DEF r
<1>7. \A j \in 1..(i - 1) : r[j] = s[j]
  BY <1>1, <1>5, <1>6
<1>8. r[i] = b
  BY <1>1, <1>5, <1>6
<1>9. ASSUME NEW j \in (i + 1)..(Len(s) - 1) PROVE r[j] = s[j + 1]
  <2>1. j \in 1..(Len(s) - 1) /\ ~(j < i + 1) /\ j + 1 \in 1..Len(s) /\ j + 1 # i
    BY <1>1
  <2> QED
    BY <1>5, <1>6, <2>1
<1>10. End(r, i) <= End(s, i + 1)
  <2>1. s[i].addr + MCBSize + s[i].size <= s[i + 1].addr
    <3>1. End(s, i) <= s[i + 1].addr
      BY <1>1 DEF Apart
    <3> QED
      BY <3>1 DEF End
  <2>2. /\ s[i].addr \in Nat /\ s[i].size \in Nat /\ MCBSize \in Nat
        /\ s[i + 1].addr \in Nat /\ s[i + 1].size \in Nat
    BY <1>1, HeapAssumption DEF Block
  <2>3. s[i].addr + MCBSize + (s[i].size + s[i + 1].size)
          <= s[i + 1].addr + MCBSize + s[i + 1].size
    BY <2>1, <2>2, Shift
  <2> QED
    BY <1>4, <1>8, <2>3 DEF End
<1>11. Apart(r)
  <2>1. r[i].addr = s[i].addr
    BY <1>4, <1>8
  <2> QED
    BY <1>6, <1>7, <1>9, <1>10, <2>1, AbsorbApart
<1>12. \A j \in 1..i : r[j].free = s[j].free
  BY <1>1, <1>4, <1>7, <1>8
<1> QED
  BY <1>3, <1>6, <1>9, <1>11, <1>12

\* free_memory: what is free behind and in front of the block joins it.
LEMMA FreeStep ==
  ASSUME Inv, NEW i \in DOMAIN blocks, Free(i)
  PROVE  Inv'
PROOF
<1> DEFINE b == [addr |-> blocks[i].addr, size |-> blocks[i].size, free |-> TRUE]
           s == [blocks EXCEPT ![i] = b]
           f == IF IsFree(i + 1) THEN Absorb(s, i) ELSE s
           g == IF IsFree(i - 1) THEN Absorb(f, i - 1) ELSE f
           L == Len(blocks)
<1>1. /\ blocks \in Seq(Block) /\ Apart(blocks) /\ Coalesced
      /\ i \in 1..L /\ DOMAIN blocks = 1..L /\ L \in Nat
      /\ \A j \in 1..L : blocks[j] \in Block
  BY RowType DEF Inv, TypeOK, Layout
<1>2. b \in Block
  BY <1>1 DEF Block
<1>3. blocks' = g
  <2>1. [blocks[i] EXCEPT !.free = TRUE] = b
    BY <1>1, FieldsKept
  <2> HIDE DEF b
  <2>2. [blocks EXCEPT ![i].free = TRUE] = s
    BY <2>1
  <2> HIDE DEF s
  <2> QED
    BY <2>2 DEF Free
<1>4. b.addr = blocks[i].addr /\ b.size = blocks[i].size /\ b.free
  OBVIOUS
<1> HIDE DEF b
<1>5. /\ s \in Seq(Block) /\ Len(s) = L /\ DOMAIN s = 1..L
      /\ \A j \in 1..L : s[j] = IF j = i THEN b ELSE blocks[j]
  BY <1>1, <1>2, UpdatedRow, RowType
<1> HIDE DEF s
<1>6. \A j \in 1..L : s[j].addr = blocks[j].addr /\ s[j].size = blocks[j].size
  BY <1>4, <1>5
<1>7. Apart(s)
  BY <1>1, <1>5, <1>6 DEF Apart, End
<1>8. \A j \in 1..L : s[j].free = IF j = i THEN TRUE ELSE blocks[j].free
  BY <1>4, <1>5
<1>9. \A j \in 1..L : j + 1 \in 1..L /\ blocks[j].free => ~blocks[j + 1].free
  BY <1>1 DEF Coalesced, IsFree
<1>10. /\ f \in Seq(Block) /\ Apart(f)
       /\ \A j \in 1..i : f[j].free = s[j].free
       /\ i + 1 \in 1..Len(f) => ~f[i + 1].free
       /\ \A j \in (i + 1)..Len(f) : j + 1 \in 1..Len(f) /\ f[j].free => ~f[j + 1].free
       /\ i \in 1..Len(f) /\ Len(f) \in Nat
  <2>1. CASE IsFree(i + 1)
    <3>1. i + 1 \in 1..L /\ blocks[i + 1].free /\ i \in 1..(Len(s) - 1)
      BY <1>1, <1>5, <2>1 DEF IsFree
    <3>2. f = Absorb(s, i)
      BY <2>1
    <3>3. /\ f \in Seq(Block) /\ Apart(f) /\ Len(f) = L - 1
          /\ \A j \in 1..i : f[j].free = s[j].free
          /\ \A j \in (i + 1)..(L - 1) : f[j].free = s[j + 1].free
      <4>1. /\ Absorb(s, i) \in Seq(Block) /\ Apart(Absorb(s, i))
            /\ Len(Absorb(s, i)) = Len(s) - 1
            /\ \A j \in 1..i : Absorb(s, i)[j].free = s[j].free
            /\ \A j \in (i + 1)..(Len(s) - 1) : Absorb(s, i)[j].free = s[j + 1].free
        <5> HIDE DEF f, g, L
        <5> QED
          BY <1>5, <1>7, <3>1, AbsorbRow, Zenon
      <4> HIDE DEF f, g, L
      <4> QED
        BY <1>5, <3>2, <4>1
    <3> HIDE DEF f, L
    <3>4. ASSUME NEW j \in (i + 1)..(L - 1) PROVE f[j].free = blocks[j + 1].free
      <4>1. j + 1 \in 1..L /\ j + 1 # i
        BY <1>1
      <4> QED
        BY <1>8, <3>3, <4>1
    <3>5. i + 1 \in 1..Len(f) => ~f[i + 1].free
      <4> SUFFICES ASSUME i + 1 \in 1..Len(f) PROVE ~f[i + 1].free
        OBVIOUS
      <4>1. i + 1 \in (i + 1)..(L - 1) /\ (i + 1) + 1 \in 1..L
        BY <1>1, <3>3
      <4> QED
        BY <1>9, <3>1, <3>4, <4>1
    <3>6. ASSUME NEW j \in (i + 1)..Len(f), j + 1 \in 1..Len(f), f[j].free
          PROVE  ~f[j + 1].free
      <4>1. /\ j \in (i + 1)..(L - 1) /\ j + 1 \in (i + 1)..(L - 1)
            /\ j + 1 \in 1..L /\ (j + 1) + 1 \in 1..L
        BY <1>1, <3>3, <3>6
      <4> QED
        BY <1>9, <3>4, <3>6, <4>1
    <3> QED
      BY <1>1, <3>1, <3>3, <3>5, <3>6
  <2>2. CASE ~IsFree(i + 1)
    <3>1. f = s
      BY <2>2
    <3> HIDE DEF f, L
    <3>2. i + 1 \in 1..L => ~s[i + 1].free
      <4>1. i + 1 \in 1..L => ~blocks[i + 1].free /\ i + 1 # i
        BY <1>1, <2>2 DEF IsFree
      <4> QED
        BY <1>8, <4>1
    <3>3. ASSUME NEW j \in (i + 1)..L, j + 1 \in 1..L, s[j].free
          PROVE  ~s[j + 1].free
      <4>1. j \in 1..L /\ j # i /\ j + 1 # i
        BY <1>1
      <4> QED
        BY <1>8, <1>9, <3>3, <4>1
    <3> QED
      BY <1>1, <1>5, <1>7, <3>1, <3>2, <3>3
  <2> QED
    BY <2>1, <2>2
<1> HIDE DEF f, L
<1>11. \A j \in 1..Len(f) : j + 1 \in 1..Len(f) /\ j # i - 1 /\ f[j].free => ~f[j + 1].free
  <2> SUFFICES ASSUME NEW j \in 1..Len(f), j + 1 \in 1..Len(f), j # i - 1, f[j].free
               PROVE  ~f[j + 1].free
    OBVIOUS
  <2>1. CASE j < i
    <3>1. /\ j \in 1..i /\ j + 1 \in 1..i /\ j + 1 # i /\ j # i
          /\ j \in 1..L /\ j + 1 \in 1..L
      BY <1>1, <1>10, <2>1
    <3> QED
      BY <1>8, <1>9, <1>10, <3>1
  <2>2. CASE j = i
    BY <1>10, <2>2
  <2>3. CASE j > i
    <3>1. j \in (i + 1)..Len(f)
      BY <1>1, <1>10, <2>3
    <3> QED
      BY <1>10, <3>1
  <2> QED
    BY <1>1, <2>1, <2>2, <2>3
<1>12. /\ g \in Seq(Block) /\ Apart(g)
       /\ \A j \in 1..Len(g) : j + 1 \in 1..Len(g) /\ g[j].free => ~g[j + 1].free
  <2>1. CASE IsFree(i - 1)
    <3>1. /\ i - 1 \in 1..L /\ blocks[i - 1].free
          /\ i - 1 \in 1..(Len(f) - 1) /\ (i - 1) + 1 = i
      BY <1>1, <1>10, <2>1 DEF IsFree
    <3>2. g = Absorb(f, i - 1)
      BY <2>1
    <3>3. /\ g \in Seq(Block) /\ Apart(g) /\ Len(g) = Len(f) - 1
          /\ \A j \in 1..(i - 1) : g[j].free = f[j].free
          /\ \A j \in i..(Len(f) - 1) : g[j].free = f[j + 1].free
      <4>1. /\ Absorb(f, i - 1) \in Seq(Block) /\ Apart(Absorb(f, i - 1))
            /\ Len(Absorb(f, i - 1)) = Len(f) - 1
            /\ \A j \in 1..(i - 1) : Absorb(f, i - 1)[j].free = f[j].free
            /\ \A j \in ((i - 1) + 1)..(Len(f) - 1) :
                 Absorb(f, i - 1)[j].free = f[j + 1].free
        <5> HIDE DEF g
        <5> QED
          BY <1>10, <3>1, AbsorbRow, Zenon
      <4> HIDE DEF g
      <4> QED
        BY <3>1, <3>2, <4>1
    <3> HIDE DEF g
    <3>4. ASSUME NEW j \in 1..Len(g), j + 1 \in 1..Len(g), g[j].free
          PROVE  ~g[j + 1].free
      <4>1. CASE j < i - 1
        <5>1. /\ j \in 1..(i - 1) /\ j + 1 \in 1..(i - 1) /\ j # i - 1
              /\ j \in 1..Len(f) /\ j + 1 \in 1..Len(f)
          BY <1>1, <1>10, <3>3, <3>4, <4>1
        <5> QED
          BY <1>11, <3>3, <3>4, <5>1
      <4>2. CASE j = i - 1
        <5>1. /\ j + 1 = i /\ i \in i..(Len(f) - 1)
              /\ i \in 1..Len(f) /\ i + 1 \in 1..Len(f)
          BY <1>1, <1>10, <3>3, <3>4, <4>2
        <5> QED
          BY <1>10, <3>3, <5>1
      <4>3. CASE j > i - 1
        <5>1. /\ j \in i..(Len(f) - 1) /\ j + 1 \in i..(Len(f) - 1)
              /\ j + 1 \in 1..Len(f) /\ (j + 1) + 1 \in 1..Len(f) /\ j + 1 # i - 1
          BY <1>1, <1>10, <3>3, <3>4, <4>3
        <5> QED
          BY <1>11, <3>3, <3>4, <5>1
      <4> QED
        BY <1>1, <4>1, <4>2, <4>3
    <3> QED
      BY <3>3, <3>4
  <2>2. CASE ~IsFree(i - 1)
    <3>1. g = f
      BY <2>2
    <3>2. i - 1 \in 1..Len(f) => ~f[i - 1].free
      <4> SUFFICES ASSUME i - 1 \in 1..Len(f) PROVE ~f[i - 1].free
        OBVIOUS
      <4>1. i - 1 \in 1..i /\ i - 1 \in 1..L /\ i - 1 # i
        BY <1>1, <1>10
      <4>2. ~blocks[i - 1].free
        BY <1>1, <2>2, <4>1 DEF IsFree
      <4> QED
        BY <1>8, <1>10, <4>1, <4>2
    <3> HIDE DEF g
    <3> QED
      BY <1>10, <1>11, <3>1, <3>2
  <2> QED
    BY <2>1, <2>2
<1> HIDE DEF g
<1>13. DOMAIN g = 1..Len(g)
  BY <1>12, RowType
<1>14. Coalesced'
  BY <1>3, <1>12, <1>13 DEF Coalesced, IsFree
<1> QED
  BY <1>3, <1>12, <1>14 DEF Inv, TypeOK, Layout

\* Every call of allocate_memory and free_memory keeps the invariant.
LEMMA NextInv == Inv /\ [Next]_blocks => Inv'
PROOF
<1> SUFFICES ASSUME Inv, [Next]_blocks PROVE Inv'
  OBVIOUS
<1>1. CASE UNCHANGED blocks
  BY <1>1 DEF Inv, TypeOK, Layout, Coalesced, IsFree
<1>2. CASE Next
  BY <1>2, TakeStep, SplitStep, FreeStep DEF Next
<1> QED
  BY <1>1, <1>2

\* The invariant holds whatever is allocated and freed.
THEOREM Invariance == Spec => []Inv
PROOF
  BY InitInv, NextInv, PTL DEF Spec

\* The sizes kept in the MCBs never become negative (size_t would wrap):
\* a block is only split when another MCB fits into it.
THEOREM TypeCorrect == Spec => []TypeOK
PROOF
<1>1. Inv => TypeOK
  BY DEF Inv
<1> QED
  BY <1>1, Invariance, PTL

\* allocate_memory never hands out bytes that belong to another block or
\* hold an MCB, for any sequence of calls.
THEOREM BlocksApart == Spec => []Layout
PROOF
<1>1. Inv => Layout
  BY DEF Inv
<1> QED
  BY <1>1, Invariance, PTL

\* Merging once behind and once in front of a freed block is enough: two
\* free blocks are never neighbours.
THEOREM FreeBlocksMerged == Spec => []Coalesced
PROOF
<1>1. Inv => Coalesced
  BY DEF Inv
<1> QED
  BY <1>1, Invariance, PTL

-----------------------------------------------------------------------------

(***************************************************************************)
(* Lists in the order of the addresses.                                    *)
(***************************************************************************)

\* v is the address that follows a in the list of the addresses in S, ...
IsNext(S, a, v) ==
  \/ v = NULL /\ \A b \in S : b <= a
  \/ v \in S /\ a < v /\ \A b \in S : b <= a \/ v <= b

\* ... the one in front of a, ...
IsPrev(S, a, v) ==
  \/ v = NULL /\ \A b \in S : a <= b
  \/ v \in S /\ v < a /\ \A b \in S : a <= b \/ b <= v

\* ... and the first of the list.
IsFirst(S, v) ==
  \/ v = NULL /\ S = {}
  \/ v \in S /\ \A b \in S : v <= b

\* A pointer that is not NULL leads on, and one that is is the last.
LEMMA NextCases ==
  ASSUME NEW S \in SUBSET Nat, NEW a, NEW v, IsNext(S, a, v)
  PROVE  /\ v = NULL => \A b \in S : b <= a
         /\ v # NULL => v \in S /\ a < v /\ \A b \in S : b <= a \/ v <= b
PROOF
  BY NullAssumption DEF IsNext

\* The same backwards.
LEMMA PrevCases ==
  ASSUME NEW S \in SUBSET Nat, NEW a, NEW v, IsPrev(S, a, v)
  PROVE  /\ v = NULL => \A b \in S : a <= b
         /\ v # NULL => v \in S /\ v < a /\ \A b \in S : a <= b \/ b <= v
PROOF
  BY NullAssumption DEF IsPrev

\* The node in front of a is the one that a follows, ...
LEMMA NextIsPrev ==
  ASSUME NEW S \in SUBSET Nat, NEW a \in Nat, NEW x \in S, NEW p,
         IsPrev(S, a, p), x < a, \A b \in S : b <= x \/ a <= b
  PROVE  x = p
PROOF
<1>0. x \in Nat /\ \A b \in S : b \in Nat
  OBVIOUS
<1>1. p # NULL
  BY <1>0, PrevCases
<1>2. p \in S /\ p < a /\ \A b \in S : a <= b \/ b <= p
  BY <1>1, PrevCases
<1> QED
  BY <1>0, <1>2

\* ... and the node behind a is the one that a precedes.
LEMMA PrevIsNext ==
  ASSUME NEW S \in SUBSET Nat, NEW a \in Nat, NEW x \in S, NEW n,
         IsNext(S, a, n), a < x, \A b \in S : x <= b \/ b <= a
  PROVE  x = n
PROOF
<1>0. x \in Nat /\ \A b \in S : b \in Nat
  OBVIOUS
<1>1. n # NULL
  BY <1>0, NextCases
<1>2. n \in S /\ a < n /\ \A b \in S : b <= a \/ n <= b
  BY <1>1, NextCases
<1> QED
  BY <1>0, <1>2

\* Without a, the node in front of it leads to the one behind it, ...
LEMMA NextWithout ==
  ASSUME NEW S \in SUBSET Nat, NEW a \in S, NEW x \in S \ {a}, NEW n, NEW p, NEW v,
         IsNext(S, a, n), IsPrev(S, a, p), IsNext(S, x, v)
  PROVE  IsNext(S \ {a}, x, IF x = p THEN n ELSE v)
PROOF
<1>0. a \in Nat /\ x \in Nat /\ x # a /\ x \in S /\ a \in S /\ \A b \in S : b \in Nat
  OBVIOUS
<1>1. CASE x = p
  <2>1. x < a /\ \A b \in S : a <= b \/ b <= x
    BY <1>0, <1>1, NullAssumption, PrevCases
  <2>2. CASE n = NULL
    <3>1. \A b \in S : b <= a
      BY <2>2, NextCases
    <3>2. \A b \in S \ {a} : b <= x
      BY ONLY <1>0, <2>1, <3>1
    <3> QED
      BY ONLY <1>1, <2>2, <3>2 DEF IsNext
  <2>3. CASE n # NULL
    <3>1. n \in S /\ a < n /\ \A b \in S : b <= a \/ n <= b
      BY <2>3, NextCases
    <3>2. n \in S \ {a} /\ x < n /\ \A b \in S \ {a} : b <= x \/ n <= b
      BY ONLY <1>0, <2>1, <3>1
    <3> QED
      BY ONLY <1>1, <2>3, <3>2 DEF IsNext
  <2> QED
    BY <2>2, <2>3
<1>2. CASE x # p
  <2>1. v # a
    <3>1. ASSUME v = a PROVE FALSE
      <4>1. x < a /\ \A b \in S : b <= x \/ a <= b
        BY <1>0, <3>1, NullAssumption, NextCases
      <4> QED
        BY <1>0, <1>2, <4>1, NextIsPrev
    <3> QED
      BY <3>1
  <2> QED
    BY ONLY <1>0, <1>2, <2>1, IsNext(S, x, v) DEF IsNext
<1> QED
  BY <1>1, <1>2

\* ... the node behind it back to the one in front, ...
LEMMA PrevWithout ==
  ASSUME NEW S \in SUBSET Nat, NEW a \in S, NEW x \in S \ {a}, NEW n, NEW p, NEW v,
         IsNext(S, a, n), IsPrev(S, a, p), IsPrev(S, x, v)
  PROVE  IsPrev(S \ {a}, x, IF x = n THEN p ELSE v)
PROOF
<1>0. a \in Nat /\ x \in Nat /\ x # a /\ x \in S /\ a \in S /\ \A b \in S : b \in Nat
  OBVIOUS
<1>1. CASE x = n
  <2>1. a < x /\ \A b \in S : b <= a \/ x <= b
    BY <1>0, <1>1, NullAssumption, NextCases
  <2>2. CASE p = NULL
    <3>1. \A b \in S : a <= b
      BY <2>2, PrevCases
    <3>2. \A b \in S \ {a} : x <= b
      BY ONLY <1>0, <2>1, <3>1
    <3> QED
      BY ONLY <1>1, <2>2, <3>2 DEF IsPrev
  <2>3. CASE p # NULL
    <3>1. p \in S /\ p < a /\ \A b \in S : a <= b \/ b <= p
      BY <2>3, PrevCases
    <3>2. p \in S \ {a} /\ p < x /\ \A b \in S \ {a} : x <= b \/ b <= p
      BY ONLY <1>0, <2>1, <3>1
    <3> QED
      BY ONLY <1>1, <2>3, <3>2 DEF IsPrev
  <2> QED
    BY <2>2, <2>3
<1>2. CASE x # n
  <2>1. v # a
    <3>1. ASSUME v = a PROVE FALSE
      <4>1. a < x /\ \A b \in S : x <= b \/ b <= a
        BY <1>0, <3>1, NullAssumption, PrevCases
      <4> QED
        BY <1>0, <1>2, <4>1, PrevIsNext
    <3> QED
      BY <3>1
  <2> QED
    BY ONLY <1>0, <1>2, <2>1, IsPrev(S, x, v) DEF IsPrev
<1> QED
  BY <1>1, <1>2

\* ... and the list begins behind it if it was the first.
LEMMA FirstWithout ==
  ASSUME NEW S \in SUBSET Nat, NEW a \in S, NEW n, NEW p, NEW head,
         IsNext(S, a, n), IsPrev(S, a, p), IsFirst(S, head)
  PROVE  IsFirst(S \ {a}, IF p = NULL THEN n ELSE head)
PROOF
<1>0. a \in Nat /\ a \in S /\ \A b \in S : b \in Nat
  OBVIOUS
<1>1. head \in S /\ \A b \in S : head <= b
  BY DEF IsFirst
<1>2. CASE p = NULL
  <2>1. \A b \in S : a <= b
    BY <1>2, PrevCases
  <2>2. CASE n = NULL
    <3>1. \A b \in S : b <= a
      BY <2>2, NextCases
    <3>2. S \ {a} = {}
      BY ONLY <1>0, <2>1, <3>1
    <3> QED
      BY ONLY <1>2, <2>2, <3>2 DEF IsFirst
  <2>3. CASE n # NULL
    <3>1. n \in S /\ a < n /\ \A b \in S : b <= a \/ n <= b
      BY <2>3, NextCases
    <3>2. n \in S \ {a} /\ \A b \in S \ {a} : n <= b
      BY ONLY <1>0, <2>1, <3>1
    <3> QED
      BY ONLY <1>2, <2>3, <3>2 DEF IsFirst
  <2> QED
    BY <2>2, <2>3
<1>3. CASE p # NULL
  <2>1. p \in S /\ p < a
    BY <1>3, PrevCases
  <2>2. head # a
    BY ONLY <1>0, <1>1, <2>1
  <2> QED
    BY ONLY <1>1, <1>3, <2>2 DEF IsFirst
<1> QED
  BY <1>2, <1>3

\* With a, the node in front of it leads to it, ...
LEMMA NextWith ==
  ASSUME NEW S \in SUBSET Nat, NEW a \in Nat \ S, NEW x \in S, NEW p, NEW v,
         IsPrev(S, a, p), IsNext(S, x, v)
  PROVE  IsNext(S \cup {a}, x, IF x = p THEN a ELSE v)
PROOF
<1>0. a \in Nat /\ x \in Nat /\ x # a /\ x \in S /\ \A b \in S : b \in Nat /\ b # a
  OBVIOUS
<1>1. CASE x = p
  <2>1. x < a /\ \A b \in S : a <= b \/ b <= x
    BY <1>0, <1>1, NullAssumption, PrevCases
  <2>2. x < a /\ \A b \in S \cup {a} : b <= x \/ a <= b
    BY ONLY <1>0, <2>1
  <2> QED
    BY ONLY <1>1, <2>2 DEF IsNext
<1>2. CASE x # p
  <2>1. CASE v = NULL
    <3>1. \A b \in S : b <= x
      BY <2>1, NextCases
    <3>2. ~(x < a)
      BY <1>0, <1>2, <3>1, NextIsPrev
    <3>3. \A b \in S \cup {a} : b <= x
      BY ONLY <1>0, <3>1, <3>2
    <3> QED
      BY ONLY <1>2, <2>1, <3>3 DEF IsNext
  <2>2. CASE v # NULL
    <3>1. v \in S /\ x < v /\ \A b \in S : b <= x \/ v <= b
      BY <2>2, NextCases
    <3>2. ~(x < a /\ a < v)
      <4>1. ASSUME x < a, a < v PROVE FALSE
        <5>1. \A b \in S : b <= x \/ a <= b
          BY ONLY <1>0, <3>1, <4>1
        <5> QED
          BY <1>0, <1>2, <4>1, <5>1, NextIsPrev
      <4> QED
        BY <4>1
    <3>3. \A b \in S \cup {a} : b <= x \/ v <= b
      BY ONLY <1>0, <3>1, <3>2
    <3> QED
      BY ONLY <1>2, <2>2, <3>1, <3>3 DEF IsNext
  <2> QED
    BY <2>1, <2>2
<1> QED
  BY <1>1, <1>2

\* ... the node behind it back to it, ...
LEMMA PrevWith ==
  ASSUME NEW S \in SUBSET Nat, NEW a \in Nat \ S, NEW x \in S, NEW n, NEW v,
         IsNext(S, a, n), IsPrev(S, x, v)
  PROVE  IsPrev(S \cup {a}, x, IF x = n THEN a ELSE v)
PROOF
<1>0. a \in Nat /\ x \in Nat /\ x # a /\ x \in S /\ \A b \in S : b \in Nat /\ b # a
  OBVIOUS
<1>1. CASE x = n
  <2>1. a < x /\ \A b \in S : b <= a \/ x <= b
    BY <1>0, <1>1, NullAssumption, NextCases
  <2>2. a < x /\ \A b \in S \cup {a} : x <= b \/ b <= a
    BY ONLY <1>0, <2>1
  <2> QED
    BY ONLY <1>1, <2>2 DEF IsPrev
<1>2. CASE x # n
  <2>1. CASE v = NULL
    <3>1. \A b \in S : x <= b
      BY <2>1, PrevCases
    <3>2. ~(a < x)
      BY <1>0, <1>2, <3>1, PrevIsNext
    <3>3. \A b \in S \cup {a} : x <= b
      BY ONLY <1>0, <3>1, <3>2
    <3> QED
      BY ONLY <1>2, <2>1, <3>3 DEF IsPrev
  <2>2. CASE v # NULL
    <3>1. v \in S /\ v < x /\ \A b \in S : x <= b \/ b <= v
      BY <2>2, PrevCases
    <3>2. ~(a < x /\ v < a)
      <4>1. ASSUME a < x, v < a PROVE FALSE
        <5>1. \A b \in S : x <= b \/ b <= a
          BY ONLY <1>0, <3>1, <4>1
        <5> QED
          BY <1>0, <1>2, <4>1, <5>1, PrevIsNext
      <4> QED
        BY <4>1
    <3>3. \A b \in S \cup {a} : x <= b \/ b <= v
      BY ONLY <1>0, <3>1, <3>2
    <3> QED
      BY ONLY <1>2, <2>2, <3>1, <3>3 DEF IsPrev
  <2> QED
    BY <2>1, <2>2
<1> QED
  BY <1>1, <1>2

\* ... and the list begins with it if nothing is in front.
LEMMA SelfWith ==
  ASSUME NEW S \in SUBSET Nat, NEW a \in Nat \ S, NEW n, NEW p, NEW head,
         IsNext(S, a, n), IsPrev(S, a, p), IsFirst(S, head)
  PROVE  /\ IsNext(S \cup {a}, a, n) /\ IsPrev(S \cup {a}, a, p)
         /\ IsFirst(S \cup {a}, IF p = NULL THEN a ELSE head)
PROOF
<1>0. a \in Nat /\ \A b \in S : b \in Nat
  OBVIOUS
<1>1. IsNext(S \cup {a}, a, n)
  BY ONLY <1>0, IsNext(S, a, n) DEF IsNext
<1>2. IsPrev(S \cup {a}, a, p)
  BY ONLY <1>0, IsPrev(S, a, p) DEF IsPrev
<1>3. CASE p = NULL
  <2>1. \A b \in S : a <= b
    BY <1>3, PrevCases
  <2>2. \A b \in S \cup {a} : a <= b
    BY ONLY <1>0, <2>1
  <2> QED
    BY ONLY <1>1, <1>2, <1>3, <2>2 DEF IsFirst
<1>4. CASE p # NULL
  <2>1. p \in S /\ p < a
    BY <1>4, PrevCases
  <2>2. head \in S /\ \A b \in S : head <= b
    BY ONLY <2>1, IsFirst(S, head) DEF IsFirst
  <2>3. \A b \in S \cup {a} : head <= b
    BY ONLY <1>0, <2>1, <2>2
  <2> QED
    BY ONLY <1>1, <1>2, <1>4, <2>2, <2>3 DEF IsFirst
<1> QED
  BY <1>3, <1>4

\* The lists hold the addresses in S, in order and linked both ways.
IsOrdered(S, head, N, P) ==
  /\ IsFirst(S, head)
  /\ \A a \in S : IsNext(S, a, N[a]) /\ IsPrev(S, a, P[a])

\* Node a is taken out, ...
UnlinkedFrom(S, a, N, P, M, Q) ==
  \A x \in S \ {a} : /\ M[x] = IF x = P[a] THEN N[a] ELSE N[x]
                     /\ Q[x] = IF x = N[a] THEN P[a] ELSE P[x]

\* ... or put in, between p and n.
LinkedInto(S, a, p, n, N, P, M, Q) ==
  /\ M[a] = n /\ Q[a] = p
  /\ \A x \in S : /\ M[x] = IF x = p THEN a ELSE N[x]
                  /\ Q[x] = IF x = n THEN a ELSE P[x]

\* What is left is a list, ...
LEMMA NodeRemoved ==
  ASSUME NEW S \in SUBSET Nat, NEW a \in S, NEW head, NEW N, NEW P, NEW first, NEW M, NEW Q,
         IsOrdered(S, head, N, P), UnlinkedFrom(S, a, N, P, M, Q),
         first = IF P[a] = NULL THEN N[a] ELSE head
  PROVE  IsOrdered(S \ {a}, first, M, Q)
PROOF
<1>1. PICK n, p : n = N[a] /\ p = P[a]
  OBVIOUS
<1>2. IsNext(S, a, n) /\ IsPrev(S, a, p) /\ IsFirst(S, head)
  BY <1>1 DEF IsOrdered
<1>3. IsFirst(S \ {a}, first)
  BY <1>1, <1>2, FirstWithout
<1>4. ASSUME NEW x \in S \ {a}
      PROVE  IsNext(S \ {a}, x, M[x]) /\ IsPrev(S \ {a}, x, Q[x])
  <2>1. PICK v, w : v = N[x] /\ w = P[x]
    OBVIOUS
  <2>2. IsNext(S, x, v) /\ IsPrev(S, x, w)
    BY <2>1 DEF IsOrdered
  <2>3. M[x] = (IF x = p THEN n ELSE v) /\ Q[x] = (IF x = n THEN p ELSE w)
    BY <1>1, <2>1 DEF UnlinkedFrom
  <2>4. IsNext(S \ {a}, x, IF x = p THEN n ELSE v)
    BY <1>2, <2>2, NextWithout
  <2>5. IsPrev(S \ {a}, x, IF x = n THEN p ELSE w)
    BY <1>2, <2>2, PrevWithout
  <2> QED
    BY <2>3, <2>4, <2>5
<1> QED
  BY <1>3, <1>4 DEF IsOrdered

\* ... and so it is with one more.
LEMMA NodeAdded ==
  ASSUME NEW S \in SUBSET Nat, NEW a \in Nat \ S, NEW head, NEW N, NEW P, NEW first, NEW M, NEW Q,
         NEW n, NEW p, IsNext(S, a, n), IsPrev(S, a, p),
         IsOrdered(S, head, N, P), LinkedInto(S, a, p, n, N, P, M, Q),
         first = IF p = NULL THEN a ELSE head
  PROVE  IsOrdered(S \cup {a}, first, M, Q)
PROOF
<1>1. IsFirst(S, head)
  BY DEF IsOrdered
<1>2. /\ IsNext(S \cup {a}, a, n) /\ IsPrev(S \cup {a}, a, p)
      /\ IsFirst(S \cup {a}, first)
  BY <1>1, SelfWith
<1>3. ASSUME NEW x \in S
      PROVE  IsNext(S \cup {a}, x, M[x]) /\ IsPrev(S \cup {a}, x, Q[x])
  <2>1. PICK v, w : v = N[x] /\ w = P[x]
    OBVIOUS
  <2>2. IsNext(S, x, v) /\ IsPrev(S, x, w)
    BY <2>1 DEF IsOrdered
  <2>3. M[x] = (IF x = p THEN a ELSE v) /\ Q[x] = (IF x = n THEN a ELSE w)
    BY <2>1 DEF LinkedInto
  <2>4. IsNext(S \cup {a}, x, IF x = p THEN a ELSE v)
    BY <2>2, NextWith
  <2>5. IsPrev(S \cup {a}, x, IF x = n THEN a ELSE w)
    BY <2>2, PrevWith
  <2> QED
    BY <2>3, <2>4, <2>5
<1>4. M[a] = n /\ Q[a] = p
  BY DEF LinkedInto
<1> QED
  BY <1>2, <1>3, <1>4 DEF IsOrdered

-----------------------------------------------------------------------------

(***************************************************************************)
(* Reading such a list from its head.                                      *)
(***************************************************************************)

\* s is the addresses in S in their order.
Enumerates(s, S) ==
  /\ s \in Seq(Nat)
  /\ \A i \in 1..Len(s) : s[i] \in S
  /\ \A x \in S : \E i \in 1..Len(s) : s[i] = x
  /\ \A i, j \in 1..Len(s) : i < j => s[i] < s[j]

\* The addresses below a bound can be put in order.
LEMMA Enumerable ==
  ASSUME NEW m \in Nat, NEW S \in SUBSET (0..m)
  PROVE  \E s : Enumerates(s, S)
PROOF
<1> DEFINE Below(k) == {x \in S : x < k}
           T == {k \in 0..(m + 1) : \E s : Enumerates(s, Below(k))}
<1>0. \A x \in S : x \in Nat /\ ~(x < 0) /\ x < m + 1
  OBVIOUS
<1>1. 0 \in T
  <2>1. Below(0) = {}
    BY <1>0
  <2>2. << >> \in Seq(Nat) /\ Len(<< >>) = 0
    OBVIOUS
  <2>3. Enumerates(<< >>, {})
    BY ONLY <2>2 DEF Enumerates
  <2>4. Enumerates(<< >>, Below(0))
    BY <2>1, <2>3
  <2> HIDE DEF Below
  <2> QED
    BY <2>4
<1>2. ASSUME NEW k \in 0..((m + 1) - 1), k \in T PROVE k + 1 \in T
  <2>1. PICK s : Enumerates(s, Below(k))
    BY <1>2
  <2>2. k + 1 \in 0..(m + 1)
    OBVIOUS
  <2>3. CASE k \notin S
    <3>1. \A x \in S : x < k + 1 <=> x < k
      BY <1>0, <2>3
    <3>2. Below(k + 1) = Below(k)
      BY <3>1
    <3> HIDE DEF Below
    <3> QED
      BY <2>1, <2>2, <3>2
  <2>4. CASE k \in S
    <3>1. PICK t : t = Append(s, k)
      OBVIOUS
    <3>2. /\ s \in Seq(Nat) /\ Len(s) \in Nat
          /\ t \in Seq(Nat) /\ Len(t) = Len(s) + 1 /\ t[Len(s) + 1] = k
          /\ \A i \in 1..Len(s) : t[i] = s[i] /\ s[i] \in Nat
      BY <2>1, <3>1 DEF Enumerates
    <3>3. \A x : x \in Below(k + 1) <=> x \in Below(k) \/ x = k
      <4>1. \A x \in S : x < k + 1 <=> x < k \/ x = k
        BY <1>0
      <4> QED
        BY <2>4, <4>1
    <3>4. \A x \in Below(k) : x < k
      OBVIOUS
    <3> HIDE DEF Below
    <3>5. \A i \in 1..Len(s) : t[i] \in Below(k)
      BY <2>1, <3>2 DEF Enumerates
    <3>6. \A i \in 1..Len(t) : i \in 1..Len(s) \/ i = Len(s) + 1
      BY ONLY <3>2
    <3>7. \A i \in 1..Len(t) : t[i] \in Below(k + 1)
      BY ONLY <3>2, <3>3, <3>5, <3>6
    <3>8. \A x \in Below(k + 1) : \E i \in 1..Len(t) : t[i] = x
      <4> TAKE x \in Below(k + 1)
      <4>1. CASE x = k
        <5>1. Len(s) + 1 \in 1..Len(t) /\ t[Len(s) + 1] = x
          BY ONLY <3>2, <4>1
        <5> QED
          BY <5>1
      <4>2. CASE x # k
        <5>1. PICK i \in 1..Len(s) : s[i] = x
          BY <2>1, <3>3, <4>2 DEF Enumerates
        <5>2. i \in 1..Len(t) /\ t[i] = x
          BY <3>2, <5>1
        <5> QED
          BY <5>2
      <4> QED
        BY <4>1, <4>2
    <3>9. \A i, j \in 1..Len(t) : i < j => t[i] < t[j]
      <4> SUFFICES ASSUME NEW i \in 1..Len(t), NEW j \in 1..Len(t), i < j
                   PROVE  t[i] < t[j]
        OBVIOUS
      <4>1. i \in 1..Len(s)
        BY <3>2
      <4>2. CASE j = Len(s) + 1
        BY <3>2, <3>4, <3>5, <4>1, <4>2
      <4>3. CASE j \in 1..Len(s)
        BY <2>1, <3>2, <4>1, <4>3 DEF Enumerates
      <4> QED
        BY <3>6, <4>2, <4>3
    <3>10. Enumerates(t, Below(k + 1))
      BY <3>2, <3>7, <3>8, <3>9 DEF Enumerates
    <3> QED
      BY <2>2, <3>10
  <2> QED
    BY <2>3, <2>4
<1>3. m + 1 \in T
  <2> HIDE DEF T
  <2>1. m + 1 \in Nat /\ m + 1 \in 0..(m + 1)
    OBVIOUS
  <2> QED
    BY <1>1, <1>2, <2>1, CountUp
<1>4. Below(m + 1) = S
  BY <1>0
<1> HIDE DEF Below
<1> QED
  BY <1>3, <1>4

\* There is only one such sequence.
LEMMA OneOrder ==
  ASSUME NEW S, NEW s, NEW t, Enumerates(s, S), Enumerates(t, S)
  PROVE  s = t
PROOF
<1>1. /\ s \in Seq(Nat) /\ Len(s) \in Nat /\ \A i \in 1..Len(s) : s[i] \in Nat
      /\ t \in Seq(Nat) /\ Len(t) \in Nat /\ \A i \in 1..Len(t) : t[i] \in Nat
  BY ElementOfSeq DEF Enumerates
<1>2. /\ \A i \in 1..Len(s) : \E j \in 1..Len(t) : t[j] = s[i]
      /\ \A i \in 1..Len(t) : \E j \in 1..Len(s) : s[j] = t[i]
  BY DEF Enumerates
<1>3. /\ \A i, j \in 1..Len(s) : i < j => s[i] < s[j]
      /\ \A i, j \in 1..Len(t) : i < j => t[i] < t[j]
  BY DEF Enumerates
<1> DEFINE T == {k \in Nat : k \in 1..Len(s) /\ k \in 1..Len(t) /\ s[k] # t[k]}
<1>4. T = {}
  <2> SUFFICES ASSUME T # {} PROVE FALSE
    OBVIOUS
  <2>1. PICK k \in T : \A j \in T : k <= j
    <3>1. T \in SUBSET Nat
      OBVIOUS
    <3> HIDE DEF T
    <3> QED
      BY <3>1, LeastNumber
  <2>2. k \in 1..Len(s) /\ k \in 1..Len(t) /\ s[k] # t[k] /\ k \in Nat
    OBVIOUS
  <2>3. \A j \in 1..(k - 1) : s[j] = t[j] /\ j \in 1..Len(s) /\ j \in 1..Len(t)
    <3> TAKE j \in 1..(k - 1)
    <3>1. j \in 1..Len(s) /\ j \in 1..Len(t) /\ j \in Nat /\ ~(k <= j)
      BY ONLY <1>1, <2>2, j \in 1..(k - 1)
    <3> QED
      BY <2>1, <3>1
  <2>4. CASE s[k] < t[k]
    <3>1. PICK j \in 1..Len(t) : t[j] = s[k]
      BY <1>2, <2>2
    <3>2. j \in 1..(k - 1)
      <4>0. t[k] \in Nat /\ t[j] \in Nat
        BY <1>1, <2>2
      <4>1. j # k /\ ~(t[k] < t[j])
        BY ONLY <2>4, <3>1, <4>0
      <4>2. ~(k < j)
        BY <1>3, <2>2, <4>1
      <4> QED
        BY ONLY <1>1, <2>2, <4>1, <4>2, j \in 1..Len(t)
    <3>3. s[j] = s[k] /\ s[j] < s[k]
      BY <1>3, <2>2, <2>3, <3>1, <3>2
    <3> QED
      BY <1>1, <2>2, <3>3
  <2>5. CASE t[k] < s[k]
    <3>1. PICK j \in 1..Len(s) : s[j] = t[k]
      BY <1>2, <2>2
    <3>2. j \in 1..(k - 1)
      <4>0. s[k] \in Nat /\ s[j] \in Nat
        BY <1>1, <2>2
      <4>1. j # k /\ ~(s[k] < s[j])
        BY ONLY <2>5, <3>1, <4>0
      <4>2. ~(k < j)
        BY <1>3, <2>2, <4>1
      <4> QED
        BY ONLY <1>1, <2>2, <4>1, <4>2, j \in 1..Len(s)
    <3>3. t[j] = t[k] /\ t[j] < t[k]
      BY <1>3, <2>2, <2>3, <3>1, <3>2
    <3> QED
      BY <1>1, <2>2, <3>3
  <2> QED
    BY <1>1, <2>2, <2>4, <2>5
<1>5. \A k \in Nat : k \in 1..Len(s) /\ k \in 1..Len(t) => s[k] = t[k]
  BY <1>4
<1> HIDE DEF T
<1>6. ~(Len(t) < Len(s))
  <2> SUFFICES ASSUME Len(t) < Len(s) PROVE FALSE
    OBVIOUS
  <2>1. PICK k : k = Len(t) + 1
    OBVIOUS
  <2>2. k \in 1..Len(s)
    BY <1>1, <2>1
  <2>3. PICK j \in 1..Len(t) : t[j] = s[k]
    BY <1>2, <2>2
  <2>4. j \in 1..Len(s) /\ s[j] = t[j] /\ j < k
    BY <1>1, <1>5, <2>1
  <2> QED
    BY <1>1, <1>3, <2>2, <2>3, <2>4
<1>7. ~(Len(s) < Len(t))
  <2> SUFFICES ASSUME Len(s) < Len(t) PROVE FALSE
    OBVIOUS
  <2>1. PICK k : k = Len(s) + 1
    OBVIOUS
  <2>2. k \in 1..Len(t)
    BY <1>1, <2>1
  <2>3. PICK j \in 1..Len(s) : s[j] = t[k]
    BY <1>2, <2>2
  <2>4. j \in 1..Len(t) /\ t[j] = s[j] /\ j < k
    BY <1>1, <1>5, <2>1
  <2> QED
    BY <1>1, <1>3, <2>2, <2>3, <2>4
<1>8. Len(s) = Len(t) /\ \A k \in 1..Len(s) : s[k] = t[k]
  BY <1>1, <1>5, <1>6, <1>7
<1> QED
  BY <1>1, <1>8, SeqEqual

\* Every address in S leads to the next one.
Leads(S, links) == \A a \in S : a \in DOMAIN links /\ IsNext(S, a, links[a])

\* Such links are those of the list of the addresses in their order.
LEMMA ListRead ==
  ASSUME NEW S \in SUBSET Nat, NEW links, NEW x, NEW s,
         Enumerates(s, S), IsFirst(S, x), Leads(S, links)
  PROVE  IsListFrom(links, x, s)
PROOF
<1>1. /\ s \in Seq(Nat) /\ Len(s) \in Nat /\ \A i \in 1..Len(s) : s[i] \in Nat /\ s[i] \in S
      /\ DOMAIN s = 1..Len(s)
  BY ElementOfSeq, LenProperties DEF Enumerates
<1>2. \A y \in S : \E i \in 1..Len(s) : s[i] = y
  BY DEF Enumerates
<1>3. \A i, j \in 1..Len(s) : i < j => s[i] < s[j]
  BY DEF Enumerates
<1>4. s \in Seq(DOMAIN links \ {NULL})
  <2>1. \A i \in 1..Len(s) : s[i] \in DOMAIN links \ {NULL}
    BY <1>1, NullAssumption DEF Leads
  <2> QED
    BY <1>1, <2>1
<1>5. x = IF s = << >> THEN NULL ELSE s[1]
  <2>1. CASE s = << >>
    <3>1. S = {}
      BY <1>2, <2>1
    <3> QED
      BY <2>1, <3>1 DEF IsFirst
  <2>2. CASE s # << >>
    <3>1. Len(s) # 0
      BY <1>1, <2>2, EmptySeq
    <3>2. 1 \in 1..Len(s) /\ s[1] \in S
      BY <1>1, <3>1
    <3>3. x \in S /\ \A b \in S : x <= b
      BY <3>2 DEF IsFirst
    <3>4. PICK i \in 1..Len(s) : s[i] = x
      BY <1>2, <3>3
    <3>5. x <= s[1] /\ s[1] \in Nat /\ x \in Nat
      BY <1>1, <3>2, <3>3, <3>4
    <3>6. ~(1 < i)
      BY <1>3, <3>2, <3>4, <3>5
    <3>7. i = 1
      BY ONLY <1>1, <3>6, i \in 1..Len(s)
    <3> QED
      BY <2>2, <3>4, <3>7
  <2> QED
    BY <2>1, <2>2
<1>6. ASSUME NEW i \in 1..Len(s)
      PROVE  links[s[i]] = IF i < Len(s) THEN s[i + 1] ELSE NULL
  <2>1. PICK a, v : a = s[i] /\ v = links[a]
    OBVIOUS
  <2>2. a \in S /\ a \in Nat /\ IsNext(S, a, v)
    BY <1>1, <2>1 DEF Leads
  <2>3. CASE i < Len(s)
    <3>1. i + 1 \in 1..Len(s) /\ i < i + 1
      BY <1>1, <2>3
    <3>2. s[i + 1] \in S /\ a < s[i + 1]
      BY <1>1, <1>3, <2>1, <3>1
    <3>3. \A b \in S : s[i + 1] <= b \/ b <= a
      <4> TAKE b \in S
      <4>1. PICK j \in 1..Len(s) : s[j] = b
        BY <1>2
      <4>2. j = i + 1 \/ j = i \/ i + 1 < j \/ j < i
        BY ONLY <1>1, i \in 1..Len(s), j \in 1..Len(s)
      <4> QED
        BY <1>1, <1>3, <2>1, <3>1, <4>1, <4>2
    <3>4. s[i + 1] = v
      BY <2>2, <3>2, <3>3, PrevIsNext
    <3> QED
      BY <2>1, <2>3, <3>4
  <2>4. CASE ~(i < Len(s))
    <3>1. \A b \in S : ~(a < b)
      <4> TAKE b \in S
      <4>1. PICK j \in 1..Len(s) : s[j] = b
        BY <1>2
      <4>2. j = i \/ j < i
        BY ONLY <1>1, <2>4, i \in 1..Len(s), j \in 1..Len(s)
      <4> QED
        BY <1>1, <1>3, <2>1, <4>1, <4>2
    <3>2. v = NULL
      BY <2>2, <3>1, NextCases
    <3> QED
      BY <2>1, <2>4, <3>2
  <2> QED
    BY <2>3, <2>4
<1>7. ASSUME NEW i \in 1..Len(s), NEW j \in 1..Len(s), s[i] = s[j] PROVE i = j
  <2>1. ~(i < j) /\ ~(j < i)
    BY <1>1, <1>3, <1>7
  <2> QED
    BY ONLY <1>1, <2>1, i \in 1..Len(s), j \in 1..Len(s)
<1> QED
  BY <1>4, <1>5, <1>6, <1>7 DEF IsListFrom

\* The pointers back lead to the address in front.
LEMMA PrevRead ==
  ASSUME NEW S \in SUBSET Nat, NEW s, Enumerates(s, S), NEW i \in 1..Len(s), NEW v,
         IsPrev(S, s[i], v)
  PROVE  v = IF i = 1 THEN NULL ELSE s[i - 1]
PROOF
<1>1. Len(s) \in Nat /\ \A j \in 1..Len(s) : s[j] \in Nat /\ s[j] \in S
  BY ElementOfSeq, LenProperties DEF Enumerates
<1>2. \A y \in S : \E j \in 1..Len(s) : s[j] = y
  BY DEF Enumerates
<1>3. \A k, j \in 1..Len(s) : k < j => s[k] < s[j]
  BY DEF Enumerates
<1>4. CASE i = 1
  <2>1. \A b \in S : ~(b < s[i])
    <3> TAKE b \in S
    <3>1. PICK j \in 1..Len(s) : s[j] = b
      BY <1>2
    <3>2. j = i \/ i < j
      BY ONLY <1>1, <1>4, i \in 1..Len(s), j \in 1..Len(s)
    <3> QED
      BY <1>1, <1>3, <3>1, <3>2
  <2>2. v # NULL => v \in S /\ v < s[i]
    BY PrevCases
  <2> QED
    BY <1>4, <2>1, <2>2
<1>5. CASE i # 1
  <2>1. i - 1 \in 1..Len(s) /\ i - 1 < i
    BY <1>1, <1>5
  <2>2. s[i - 1] \in S /\ s[i - 1] < s[i] /\ s[i] \in Nat
    BY <1>1, <1>3, <2>1
  <2>3. \A b \in S : b <= s[i - 1] \/ s[i] <= b
    <3> TAKE b \in S
    <3>1. PICK j \in 1..Len(s) : s[j] = b
      BY <1>2
    <3>2. j = i - 1 \/ j = i \/ j < i - 1 \/ i < j
      BY ONLY <1>1, i \in 1..Len(s), j \in 1..Len(s)
    <3> QED
      BY <1>1, <1>3, <2>1, <3>1, <3>2
  <2>4. s[i - 1] = v
    BY <2>2, <2>3, NextIsPrev
  <2> QED
    BY <1>5, <2>4
<1> QED
  BY <1>4, <1>5

\* v is what a walk from x looks for: the first address in T at or behind x.
IsFound(S, x, T, v) ==
  \/ v = NULL /\ \A y \in S \cap T : x = NULL \/ y < x
  \/ x # NULL /\ v \in S \cap T /\ x <= v /\ \A y \in S \cap T : y < x \/ v <= y

\* A search that starts inside the list, as those of the heap do, sees the
\* addresses from there on.
LEMMA SearchFinds ==
  ASSUME NEW m \in Nat, NEW S \in SUBSET (0..m), NEW links, NEW x, NEW T,
         AreLinks(links), Leads(S, links), x \in S \cup {NULL}, NULL \notin T
  PROVE  IsFound(S, x, T, FirstOf(links, x, T))
PROOF
<1>0. S \in SUBSET Nat
  OBVIOUS
<1>1. CASE x = NULL
  <2>1. IsListFrom(links, x, << >>)
    BY <1>1 DEF IsListFrom
  <2>2. Len(<< >>) = 0
    OBVIOUS
  <2>3. FirstOf(links, x, T) = NULL
    BY <2>1, <2>2, FirstOfIsFirst
  <2> QED
    BY <1>1, <2>3 DEF IsFound
<1>2. CASE x # NULL
  <2>1. PICK U : U = {y \in S : x <= y}
    OBVIOUS
  <2>2. U \in SUBSET Nat /\ U \in SUBSET (0..m) /\ x \in U /\ x \in Nat
    <3>1. x \in S /\ x \in Nat
      BY <1>0, <1>2
    <3>2. x <= x
      BY <3>1
    <3> QED
      BY <1>0, <2>1, <3>1, <3>2
  <2>3. IsFirst(U, x)
    BY <2>1, <2>2 DEF IsFirst
  <2>4. Leads(U, links)
    <3> SUFFICES ASSUME NEW a \in U PROVE a \in DOMAIN links /\ IsNext(U, a, links[a])
      BY DEF Leads
    <3>1. a \in S /\ a \in DOMAIN links /\ IsNext(S, a, links[a]) /\ a \in Nat /\ x <= a
      BY <1>0, <2>1 DEF Leads
    <3>2. PICK v : v = links[a]
      OBVIOUS
    <3>3. CASE v = NULL
      <4>1. \A b \in S : b <= a
        BY <1>0, <3>1, <3>2, <3>3, NextCases
      <4> QED
        BY <2>1, <3>1, <3>2, <3>3, <4>1 DEF IsNext
    <3>4. CASE v # NULL
      <4>1. v \in S /\ a < v /\ \A b \in S : b <= a \/ v <= b
        BY <1>0, <3>1, <3>2, <3>4, NextCases
      <4>2. v \in Nat /\ x <= v
        BY <1>0, <2>2, <3>1, <4>1
      <4> QED
        BY <2>1, <3>1, <3>2, <4>1, <4>2 DEF IsNext
    <3> QED
      BY <3>3, <3>4
  <2>5. PICK s : Enumerates(s, U)
    BY <2>2, Enumerable
  <2>6. IsListFrom(links, x, s)
    BY <2>2, <2>3, <2>4, <2>5, ListRead
  <2>7. PICK v : v = FirstOf(links, x, T)
    OBVIOUS
  <2>8. \/ v = NULL /\ \A i \in 1..Len(s) : s[i] \notin T
        \/ \E i \in 1..Len(s) : v = s[i] /\ s[i] \in T /\ \A j \in 1..(i - 1) : s[j] \notin T
    BY <2>6, <2>7, FirstOfIsFirst
  <2>9. /\ Len(s) \in Nat /\ \A i \in 1..Len(s) : s[i] \in Nat /\ s[i] \in U
        /\ \A y \in U : \E i \in 1..Len(s) : s[i] = y
        /\ \A i, j \in 1..Len(s) : i < j => s[i] < s[j]
    BY <2>5, ElementOfSeq, LenProperties DEF Enumerates
  <2>10. \A y \in S : y \in U \/ y < x
    BY <1>0, <2>1, <2>2
  <2>11. CASE v = NULL /\ \A i \in 1..Len(s) : s[i] \notin T
    BY <2>7, <2>9, <2>10, <2>11 DEF IsFound
  <2>12. ASSUME NEW i \in 1..Len(s), v = s[i], s[i] \in T, \A j \in 1..(i - 1) : s[j] \notin T
         PROVE  IsFound(S, x, T, v)
    <3>1. v \in S \cap T /\ x <= v
      BY <2>1, <2>9, <2>12
    <3>2. ASSUME NEW y \in S \cap T PROVE y < x \/ v <= y
      <4>1. CASE y \in U
        <5>1. PICK j \in 1..Len(s) : s[j] = y
          BY <2>9, <4>1
        <5>2. j \notin 1..(i - 1)
          BY <2>12, <5>1
        <5>3. j = i \/ i < j
          BY ONLY <2>9, <5>2, i \in 1..Len(s), j \in 1..Len(s)
        <5> QED
          BY <2>9, <2>12, <5>1, <5>3
      <4> QED
        BY <2>10, <4>1
    <3> QED
      BY <1>2, <3>1, <3>2 DEF IsFound
  <2> QED
    BY <2>7, <2>8, <2>11, <2>12
<1> QED
  BY <1>1, <1>2

-----------------------------------------------------------------------------

(***************************************************************************)
(* The MCBs and their pointers.                                            *)
(***************************************************************************)

Ptr == Nat \cup {NULL}

MCB == [size : Nat, is_free : BOOLEAN, next : Ptr, prev : Ptr, rel_next : Ptr, rel_prev : Ptr]

\* A heap with MCBs at the addresses in D.
Heaps(D) == [mcb : [D -> MCB], free_list : Ptr, allocated_list : Ptr]

\* The fields of an MCB.
LEMMA HeapType ==
  ASSUME NEW D \in SUBSET Nat, NEW h \in Heaps(D)
  PROVE  /\ DOMAIN h.mcb = D /\ h.mcb \in [D -> MCB]
         /\ h.free_list \in Ptr /\ h.allocated_list \in Ptr
         /\ \A x \in D : /\ h.mcb[x] \in MCB
                         /\ h.mcb[x].size \in Nat /\ h.mcb[x].is_free \in BOOLEAN
                         /\ h.mcb[x].next \in Ptr /\ h.mcb[x].prev \in Ptr
                         /\ h.mcb[x].rel_next \in Ptr /\ h.mcb[x].rel_prev \in Ptr
PROOF
  BY DEF Heaps, MCB

\* What Links reads of them.
LEMMA LinksRead ==
  ASSUME NEW D \in SUBSET Nat, NEW h \in Heaps(D), NEW x \in D
  PROVE  /\ Links(h, "next")[x] = h.mcb[x].next
         /\ Links(h, "prev")[x] = h.mcb[x].prev
         /\ Links(h, "rel_next")[x] = h.mcb[x].rel_next
         /\ Links(h, "rel_prev")[x] = h.mcb[x].rel_prev
PROOF
<1>1. DOMAIN h.mcb = D /\ x # NULL
  BY HeapType, NullAssumption
<1> QED
  BY <1>1 DEF Links

\* Links is such a function as LinkedLists walks along.
LEMMA LinksAre ==
  ASSUME NEW D \in SUBSET (0..HeapSize), NEW h \in Heaps(D), NEW field
  PROVE  AreLinks(Links(h, field)) /\ DOMAIN Links(h, field) = D \cup {NULL}
PROOF
<1>1. DOMAIN h.mcb = D
  BY DEF Heaps
<1>2. IsFiniteSet(0..HeapSize)
  BY HeapAssumption, FS_Interval
<1>3. IsFiniteSet(D)
  BY <1>2, FS_Subset
<1>4. IsFiniteSet(D \cup {NULL})
  BY <1>3, FS_AddElement
<1>5. DOMAIN Links(h, field) = D \cup {NULL} /\ Links(h, field)[NULL] = NULL
  BY <1>1 DEF Links
<1> QED
  BY <1>4, <1>5 DEF AreLinks

\* g is h with v in one pointer of a.
IsSetPrev(D, h, g, a, v) ==
  /\ g \in Heaps(D)
  /\ g.free_list = h.free_list /\ g.allocated_list = h.allocated_list
  /\ \A x \in D :
       /\ g.mcb[x].size = h.mcb[x].size /\ g.mcb[x].is_free = h.mcb[x].is_free
       /\ g.mcb[x].next = h.mcb[x].next
       /\ g.mcb[x].prev = IF x = a THEN v ELSE h.mcb[x].prev
       /\ g.mcb[x].rel_next = h.mcb[x].rel_next /\ g.mcb[x].rel_prev = h.mcb[x].rel_prev

IsSetRelNext(D, h, g, a, v) ==
  /\ g \in Heaps(D)
  /\ g.free_list = h.free_list /\ g.allocated_list = h.allocated_list
  /\ \A x \in D :
       /\ g.mcb[x].size = h.mcb[x].size /\ g.mcb[x].is_free = h.mcb[x].is_free
       /\ g.mcb[x].next = h.mcb[x].next /\ g.mcb[x].prev = h.mcb[x].prev
       /\ g.mcb[x].rel_next = IF x = a THEN v ELSE h.mcb[x].rel_next
       /\ g.mcb[x].rel_prev = h.mcb[x].rel_prev

IsSetRelPrev(D, h, g, a, v) ==
  /\ g \in Heaps(D)
  /\ g.free_list = h.free_list /\ g.allocated_list = h.allocated_list
  /\ \A x \in D :
       /\ g.mcb[x].size = h.mcb[x].size /\ g.mcb[x].is_free = h.mcb[x].is_free
       /\ g.mcb[x].next = h.mcb[x].next /\ g.mcb[x].prev = h.mcb[x].prev
       /\ g.mcb[x].rel_next = h.mcb[x].rel_next
       /\ g.mcb[x].rel_prev = IF x = a THEN v ELSE h.mcb[x].rel_prev

\* Set writes one pointer of one MCB, or nothing.
LEMMA SetWrites ==
  ASSUME NEW D \in SUBSET Nat, NEW h \in Heaps(D), NEW a \in D \cup {NULL}, NEW v \in Ptr
  PROVE  /\ IsSetPrev(D, h, Set(h, a, "prev", v), a, v)
         /\ IsSetRelNext(D, h, Set(h, a, "rel_next", v), a, v)
         /\ IsSetRelPrev(D, h, Set(h, a, "rel_prev", v), a, v)
PROOF
<1>0. \A x \in D : x # NULL
  BY NullAssumption
<1>1. CASE a = NULL
  <2>1. \A f : Set(h, a, f, v) = h
    BY <1>1 DEF Set
  <2> QED
    BY <1>0, <1>1, <2>1 DEF IsSetPrev, IsSetRelNext, IsSetRelPrev
<1>2. CASE a # NULL
  <2>0. a \in D
    BY <1>2
  <2>1. IsSetPrev(D, h, Set(h, a, "prev", v), a, v)
    <3>1. PICK g : g = [h EXCEPT !.mcb[a]["prev"] = v]
      OBVIOUS
    <3>2. g \in Heaps(D) /\ g.free_list = h.free_list /\ g.allocated_list = h.allocated_list
      BY <2>0, <3>1 DEF Heaps, MCB
    <3>3. \A x \in D :
       /\ g.mcb[x].size = h.mcb[x].size /\ g.mcb[x].is_free = h.mcb[x].is_free
       /\ g.mcb[x].next = h.mcb[x].next
       /\ g.mcb[x].prev = IF x = a THEN v ELSE h.mcb[x].prev
       /\ g.mcb[x].rel_next = h.mcb[x].rel_next /\ g.mcb[x].rel_prev = h.mcb[x].rel_prev
      BY <2>0, <3>1 DEF Heaps, MCB
    <3>4. Set(h, a, "prev", v) = g
      BY <1>2, <3>1 DEF Set
    <3> QED
      BY <3>2, <3>3, <3>4 DEF IsSetPrev
  <2>2. IsSetRelNext(D, h, Set(h, a, "rel_next", v), a, v)
    <3>1. PICK g : g = [h EXCEPT !.mcb[a]["rel_next"] = v]
      OBVIOUS
    <3>2. g \in Heaps(D) /\ g.free_list = h.free_list /\ g.allocated_list = h.allocated_list
      BY <2>0, <3>1 DEF Heaps, MCB
    <3>3. \A x \in D :
       /\ g.mcb[x].size = h.mcb[x].size /\ g.mcb[x].is_free = h.mcb[x].is_free
       /\ g.mcb[x].next = h.mcb[x].next /\ g.mcb[x].prev = h.mcb[x].prev
       /\ g.mcb[x].rel_next = IF x = a THEN v ELSE h.mcb[x].rel_next
       /\ g.mcb[x].rel_prev = h.mcb[x].rel_prev
      BY <2>0, <3>1 DEF Heaps, MCB
    <3>4. Set(h, a, "rel_next", v) = g
      BY <1>2, <3>1 DEF Set
    <3> QED
      BY <3>2, <3>3, <3>4 DEF IsSetRelNext
  <2>3. IsSetRelPrev(D, h, Set(h, a, "rel_prev", v), a, v)
    <3>1. PICK g : g = [h EXCEPT !.mcb[a]["rel_prev"] = v]
      OBVIOUS
    <3>2. g \in Heaps(D) /\ g.free_list = h.free_list /\ g.allocated_list = h.allocated_list
      BY <2>0, <3>1 DEF Heaps, MCB
    <3>3. \A x \in D :
       /\ g.mcb[x].size = h.mcb[x].size /\ g.mcb[x].is_free = h.mcb[x].is_free
       /\ g.mcb[x].next = h.mcb[x].next /\ g.mcb[x].prev = h.mcb[x].prev
       /\ g.mcb[x].rel_next = h.mcb[x].rel_next
       /\ g.mcb[x].rel_prev = IF x = a THEN v ELSE h.mcb[x].rel_prev
      BY <2>0, <3>1 DEF Heaps, MCB
    <3>4. Set(h, a, "rel_prev", v) = g
      BY <1>2, <3>1 DEF Set
    <3> QED
      BY <3>2, <3>3, <3>4 DEF IsSetRelPrev
  <2> QED
    BY <2>1, <2>2, <2>3
<1> QED
  BY <1>1, <1>2

\* The same for a pointer of an MCB that is there.
LEMMA RelWrites ==
  ASSUME NEW D \in SUBSET Nat, NEW h \in Heaps(D), NEW a \in D, NEW v \in Ptr
  PROVE  /\ IsSetRelNext(D, h, [h EXCEPT !.mcb[a].rel_next = v], a, v)
         /\ IsSetRelPrev(D, h, [h EXCEPT !.mcb[a].rel_prev = v], a, v)
PROOF
<1>1. a # NULL
  BY NullAssumption
<1>2. /\ Set(h, a, "rel_next", v) = [h EXCEPT !.mcb[a].rel_next = v]
      /\ Set(h, a, "rel_prev", v) = [h EXCEPT !.mcb[a].rel_prev = v]
  BY <1>1 DEF Set
<1> QED
  BY <1>2, SetWrites

\* The list of all blocks, and a list of some of them.
AllList(D, h) == IsOrdered(D, 0, Links(h, "next"), Links(h, "prev"))
RelList(S, head, h) == IsOrdered(S, head, Links(h, "rel_next"), Links(h, "rel_prev"))

\* The three lists are sound, with the blocks in F free and those in A allocated.
Lists(h, D, F, A) ==
  /\ D \in SUBSET (0..HeapSize)
  /\ h \in Heaps(D)
  /\ F \subseteq D /\ A \subseteq D /\ F \cap A = {}
  /\ AllList(D, h)
  /\ RelList(F, h.free_list, h)
  /\ RelList(A, h.allocated_list, h)

\* The pointers of a list lead into it.
LEMMA RelPointers ==
  ASSUME NEW D \in SUBSET Nat, NEW h \in Heaps(D), NEW S, S \subseteq D, NEW head,
         RelList(S, head, h), NEW x \in S
  PROVE  /\ IsNext(S, x, h.mcb[x].rel_next) /\ IsPrev(S, x, h.mcb[x].rel_prev)
         /\ h.mcb[x].rel_next \in S \cup {NULL} /\ h.mcb[x].rel_prev \in S \cup {NULL}
PROOF
<1>1. IsNext(S, x, h.mcb[x].rel_next) /\ IsPrev(S, x, h.mcb[x].rel_prev)
  BY LinksRead DEF RelList, IsOrdered
<1> QED
  BY <1>1 DEF IsNext, IsPrev

LEMMA AllPointers ==
  ASSUME NEW D \in SUBSET Nat, NEW h \in Heaps(D), AllList(D, h), NEW x \in D
  PROVE  /\ IsNext(D, x, h.mcb[x].next) /\ IsPrev(D, x, h.mcb[x].prev)
         /\ h.mcb[x].next \in D \cup {NULL} /\ h.mcb[x].prev \in D \cup {NULL}
PROOF
<1>1. IsNext(D, x, h.mcb[x].next) /\ IsPrev(D, x, h.mcb[x].prev)
  BY LinksRead DEF AllList, IsOrdered
<1> QED
  BY <1>1 DEF IsNext, IsPrev

\* The blocks in S have the same neighbours on their list.
SameRel(S, h, g) ==
  \A x \in S : /\ g.mcb[x].rel_next = h.mcb[x].rel_next
               /\ g.mcb[x].rel_prev = h.mcb[x].rel_prev

\* A list is what its own pointers make it.
LEMMA RelKept ==
  ASSUME NEW D \in SUBSET Nat, NEW h \in Heaps(D), NEW E \in SUBSET Nat, NEW g \in Heaps(E),
         NEW S, S \subseteq D, S \subseteq E, NEW head, RelList(S, head, h), SameRel(S, h, g)
  PROVE  RelList(S, head, g)
PROOF
<1>1. ASSUME NEW x \in S
      PROVE  /\ Links(g, "rel_next")[x] = Links(h, "rel_next")[x]
             /\ Links(g, "rel_prev")[x] = Links(h, "rel_prev")[x]
  <2>1. g.mcb[x].rel_next = h.mcb[x].rel_next /\ g.mcb[x].rel_prev = h.mcb[x].rel_prev
    BY DEF SameRel
  <2> QED
    BY <2>1, LinksRead
<1> QED
  BY <1>1 DEF RelList, IsOrdered

LEMMA AllKept ==
  ASSUME NEW D \in SUBSET Nat, NEW h \in Heaps(D), NEW g \in Heaps(D), AllList(D, h),
         \A x \in D : g.mcb[x].next = h.mcb[x].next /\ g.mcb[x].prev = h.mcb[x].prev
  PROVE  AllList(D, g)
PROOF
<1>1. ASSUME NEW x \in D
      PROVE  /\ Links(g, "next")[x] = Links(h, "next")[x]
             /\ Links(g, "prev")[x] = Links(h, "prev")[x]
  BY LinksRead
<1> QED
  BY <1>1 DEF AllList, IsOrdered

\* The pointers of the MCBs without node a, ...
RelWithout(S, a, head, h, first, g) ==
  LET n == h.mcb[a].rel_next
      p == h.mcb[a].rel_prev
  IN  /\ first = IF p = NULL THEN n ELSE head
      /\ \A x \in S \ {a} : /\ g.mcb[x].rel_next = IF x = p THEN n ELSE h.mcb[x].rel_next
                         /\ g.mcb[x].rel_prev = IF x = n THEN p ELSE h.mcb[x].rel_prev

\* ... and with it.
RelWith(S, a, head, h, first, g) ==
  LET n == g.mcb[a].rel_next
      p == g.mcb[a].rel_prev
  IN  /\ IsNext(S, a, n) /\ IsPrev(S, a, p)
      /\ first = IF p = NULL THEN a ELSE head
      /\ \A x \in S : /\ g.mcb[x].rel_next = IF x = p THEN a ELSE h.mcb[x].rel_next
                      /\ g.mcb[x].rel_prev = IF x = n THEN a ELSE h.mcb[x].rel_prev

\* Node a leaves a list, ...
LEMMA RelRemoved ==
  ASSUME NEW D \in SUBSET Nat, NEW h \in Heaps(D), NEW E \in SUBSET Nat, NEW g \in Heaps(E),
         NEW S, NEW a, S \subseteq D, a \in S, S \ {a} \subseteq E, NEW head, NEW first,
         RelList(S, head, h), RelWithout(S, a, head, h, first, g)
  PROVE  RelList(S \ {a}, first, g)
PROOF
<1> PICK N, P, M, Q : /\ N = Links(h, "rel_next") /\ P = Links(h, "rel_prev")
                      /\ M = Links(g, "rel_next") /\ Q = Links(g, "rel_prev")
  OBVIOUS
<1>1. N[a] = h.mcb[a].rel_next /\ P[a] = h.mcb[a].rel_prev /\ S \in SUBSET Nat
  BY LinksRead
<1>2. ASSUME NEW x \in S \ {a}
      PROVE  /\ M[x] = IF x = P[a] THEN N[a] ELSE N[x]
             /\ Q[x] = IF x = N[a] THEN P[a] ELSE P[x]
  <2>1. /\ N[x] = h.mcb[x].rel_next /\ P[x] = h.mcb[x].rel_prev
        /\ M[x] = g.mcb[x].rel_next /\ Q[x] = g.mcb[x].rel_prev
    BY LinksRead
  <2> QED
    BY <1>1, <2>1 DEF RelWithout
<1>3. UnlinkedFrom(S, a, N, P, M, Q)
  BY <1>2 DEF UnlinkedFrom
<1>4. IsOrdered(S, head, N, P) /\ first = IF P[a] = NULL THEN N[a] ELSE head
  BY <1>1 DEF RelList, RelWithout
<1>5. IsOrdered(S \ {a}, first, M, Q)
  BY <1>1, <1>3, <1>4, NodeRemoved
<1> QED
  BY <1>5 DEF RelList

\* ... or joins it.
LEMMA RelAdded ==
  ASSUME NEW D \in SUBSET Nat, NEW h \in Heaps(D), NEW E \in SUBSET Nat, NEW g \in Heaps(E),
         NEW S, NEW a, S \subseteq D, a \in E \ S, S \subseteq E, NEW head, NEW first,
         RelList(S, head, h), RelWith(S, a, head, h, first, g)
  PROVE  RelList(S \cup {a}, first, g)
PROOF
<1> PICK N, P, M, Q : /\ N = Links(h, "rel_next") /\ P = Links(h, "rel_prev")
                      /\ M = Links(g, "rel_next") /\ Q = Links(g, "rel_prev")
  OBVIOUS
<1> PICK n, p : n = g.mcb[a].rel_next /\ p = g.mcb[a].rel_prev
  OBVIOUS
<1>1. M[a] = n /\ Q[a] = p /\ S \in SUBSET Nat /\ a \in Nat \ S
  BY LinksRead
<1>2. ASSUME NEW x \in S
      PROVE  /\ M[x] = IF x = p THEN a ELSE N[x]
             /\ Q[x] = IF x = n THEN a ELSE P[x]
  <2>1. /\ N[x] = h.mcb[x].rel_next /\ P[x] = h.mcb[x].rel_prev
        /\ M[x] = g.mcb[x].rel_next /\ Q[x] = g.mcb[x].rel_prev
    BY LinksRead
  <2> QED
    BY <2>1 DEF RelWith
<1>3. LinkedInto(S, a, p, n, N, P, M, Q)
  BY <1>1, <1>2 DEF LinkedInto
<1>4. /\ IsOrdered(S, head, N, P) /\ IsNext(S, a, n) /\ IsPrev(S, a, p)
      /\ first = IF p = NULL THEN a ELSE head
  BY DEF RelList, RelWith
<1>5. IsOrdered(S \cup {a}, first, M, Q)
  BY <1>1, <1>3, <1>4, NodeAdded
<1> QED
  BY <1>5 DEF RelList

\* g has the blocks of h, with the same sizes, and the same list of all.
SameBlocks(D, h, g) ==
  \A x \in D : /\ g.mcb[x].size = h.mcb[x].size
               /\ g.mcb[x].next = h.mcb[x].next /\ g.mcb[x].prev = h.mcb[x].prev

SameMarks(S, h, g) == \A x \in S : g.mcb[x].is_free = h.mcb[x].is_free

-----------------------------------------------------------------------------

(***************************************************************************)
(* The steps of allocate_memory and free_memory, one list at a time.       *)
(***************************************************************************)

\* Unlink in the pointers of the MCBs.
LEMMA UnlinkWrites ==
  ASSUME NEW D \in SUBSET Nat, NEW h \in Heaps(D), NEW a \in D, NEW n, NEW p,
         n = h.mcb[a].rel_next, p = h.mcb[a].rel_prev,
         n \in D \cup {NULL}, p \in D \cup {NULL},
         NEW list \in {"free_list", "allocated_list"}, NEW g, g = Unlink(h, a, list)
  PROVE  /\ g \in Heaps(D) /\ SameBlocks(D, h, g) /\ SameMarks(D, h, g)
         /\ \A x \in D : /\ g.mcb[x].rel_next = IF x = p THEN n ELSE h.mcb[x].rel_next
                         /\ g.mcb[x].rel_prev = IF x = n THEN p ELSE h.mcb[x].rel_prev
         /\ list = "free_list" =>
              /\ g.free_list = IF p = NULL THEN n ELSE h.free_list
              /\ g.allocated_list = h.allocated_list
         /\ list = "allocated_list" =>
              /\ g.allocated_list = IF p = NULL THEN n ELSE h.allocated_list
              /\ g.free_list = h.free_list
PROOF
<1>1. n \in Ptr /\ p \in Ptr
  BY DEF Ptr
<1>2. PICK f : f = [h EXCEPT ![list] = IF p = NULL THEN n ELSE @]
  OBVIOUS
<1>3. /\ f \in Heaps(D) /\ f.mcb = h.mcb
      /\ list = "free_list" => /\ f.free_list = IF p = NULL THEN n ELSE h.free_list
                               /\ f.allocated_list = h.allocated_list
      /\ list = "allocated_list" =>
           /\ f.allocated_list = IF p = NULL THEN n ELSE h.allocated_list
           /\ f.free_list = h.free_list
  <2>1. CASE list = "free_list"
    BY <1>1, <1>2, <2>1 DEF Heaps
  <2>2. CASE list = "allocated_list"
    BY <1>1, <1>2, <2>2 DEF Heaps
  <2> QED
    BY <2>1, <2>2
<1>4. PICK k : k = Set(f, p, "rel_next", n)
  OBVIOUS
<1>5. g = Set(k, n, "rel_prev", p)
  BY <1>2, <1>4 DEF Unlink
<1>6. IsSetRelNext(D, f, k, p, n)
  BY <1>1, <1>3, <1>4, SetWrites
<1>7. k \in Heaps(D)
  BY <1>6 DEF IsSetRelNext
<1>8. IsSetRelPrev(D, k, g, n, p)
  BY <1>1, <1>5, <1>7, SetWrites
<1> HIDE <1>2, <1>4, <1>5
<1> QED
  BY <1>3, <1>6, <1>8 DEF IsSetRelNext, IsSetRelPrev, SameBlocks, SameMarks

\* A block leaves the free list, ...
LEMMA UnlinkFree ==
  ASSUME NEW h, NEW D, NEW F, NEW A, Lists(h, D, F, A), NEW a \in F,
         NEW g, g = Unlink(h, a, "free_list")
  PROVE  /\ Lists(g, D, F \ {a}, A) /\ SameBlocks(D, h, g) /\ SameMarks(D, h, g)
         /\ g.mcb[a].rel_prev = h.mcb[a].rel_prev
PROOF
<1>0. PICK n, p : n = h.mcb[a].rel_next /\ p = h.mcb[a].rel_prev
  OBVIOUS
<1>1. /\ D \in SUBSET Nat /\ D \in SUBSET (0..HeapSize) /\ h \in Heaps(D) /\ a \in D
      /\ F \subseteq D /\ A \subseteq D /\ F \cap A = {} /\ AllList(D, h)
      /\ RelList(F, h.free_list, h) /\ RelList(A, h.allocated_list, h)
  BY HeapAssumption DEF Lists
<1>2. /\ IsNext(F, a, n) /\ IsPrev(F, a, p) /\ n \in F \cup {NULL} /\ p \in F \cup {NULL}
  BY <1>0, <1>1, RelPointers
<1>3. n \in D \cup {NULL} /\ p \in D \cup {NULL} /\ n # a
  <2>1. n # NULL => a < n
    BY <1>2 DEF IsNext
  <2>2. a \in Nat /\ a # NULL
    BY <1>1, NullAssumption
  <2>3. n # a
    BY <2>1, <2>2
  <2> QED
    BY <1>1, <1>2, <2>3
<1>4. /\ g \in Heaps(D) /\ SameBlocks(D, h, g) /\ SameMarks(D, h, g)
      /\ \A x \in D : /\ g.mcb[x].rel_next = IF x = p THEN n ELSE h.mcb[x].rel_next
                      /\ g.mcb[x].rel_prev = IF x = n THEN p ELSE h.mcb[x].rel_prev
      /\ g.free_list = IF p = NULL THEN n ELSE h.free_list
      /\ g.allocated_list = h.allocated_list
  BY <1>0, <1>1, <1>3, UnlinkWrites
<1>5. RelList(F \ {a}, g.free_list, g)
  <2>1. RelWithout(F, a, h.free_list, h, g.free_list, g)
    BY <1>0, <1>1, <1>4 DEF RelWithout
  <2>2. a \in F /\ F \ {a} \subseteq D /\ g \in Heaps(D)
    BY <1>1, <1>4
  <2> QED
    BY <1>1, <2>1, <2>2, RelRemoved
<1>6. RelList(A, g.allocated_list, g)
  <2>1. \A x \in A : x # n /\ x # p
    BY <1>1, <1>2, NullAssumption
  <2>2. SameRel(A, h, g)
    BY <1>1, <1>4, <2>1 DEF SameRel
  <2> QED
    BY <1>1, <1>4, <2>2, RelKept
<1>7. AllList(D, g)
  BY <1>1, <1>4, AllKept DEF SameBlocks
<1>8. F \ {a} \subseteq D /\ (F \ {a}) \cap A = {}
  BY <1>1
<1> QED
  BY <1>0, <1>1, <1>3, <1>4, <1>5, <1>6, <1>7, <1>8 DEF Lists

\* ... or the allocated list.
LEMMA UnlinkAllocated ==
  ASSUME NEW h, NEW D, NEW F, NEW A, Lists(h, D, F, A), NEW a \in A,
         NEW g, g = Unlink(h, a, "allocated_list")
  PROVE  Lists(g, D, F, A \ {a}) /\ SameBlocks(D, h, g) /\ SameMarks(D, h, g)
PROOF
<1>0. PICK n, p : n = h.mcb[a].rel_next /\ p = h.mcb[a].rel_prev
  OBVIOUS
<1>1. /\ D \in SUBSET Nat /\ D \in SUBSET (0..HeapSize) /\ h \in Heaps(D) /\ a \in D
      /\ F \subseteq D /\ A \subseteq D /\ F \cap A = {} /\ AllList(D, h)
      /\ RelList(F, h.free_list, h) /\ RelList(A, h.allocated_list, h)
  BY HeapAssumption DEF Lists
<1>2. n \in A \cup {NULL} /\ p \in A \cup {NULL}
  BY <1>0, <1>1, RelPointers
<1>3. n \in D \cup {NULL} /\ p \in D \cup {NULL}
  BY <1>1, <1>2
<1>4. /\ g \in Heaps(D) /\ SameBlocks(D, h, g) /\ SameMarks(D, h, g)
      /\ \A x \in D : /\ g.mcb[x].rel_next = IF x = p THEN n ELSE h.mcb[x].rel_next
                      /\ g.mcb[x].rel_prev = IF x = n THEN p ELSE h.mcb[x].rel_prev
      /\ g.allocated_list = IF p = NULL THEN n ELSE h.allocated_list
      /\ g.free_list = h.free_list
  BY <1>0, <1>1, <1>3, UnlinkWrites
<1>5. RelList(A \ {a}, g.allocated_list, g)
  <2>1. RelWithout(A, a, h.allocated_list, h, g.allocated_list, g)
    BY <1>0, <1>1, <1>4 DEF RelWithout
  <2>2. a \in A /\ A \ {a} \subseteq D /\ g \in Heaps(D)
    BY <1>1, <1>4
  <2> QED
    BY <1>1, <2>1, <2>2, RelRemoved
<1>6. RelList(F, g.free_list, g)
  <2>1. \A x \in F : x # n /\ x # p
    BY <1>1, <1>2, NullAssumption
  <2>2. SameRel(F, h, g)
    BY <1>1, <1>4, <2>1 DEF SameRel
  <2> QED
    BY <1>1, <1>4, <2>2, RelKept
<1>7. AllList(D, g)
  BY <1>1, <1>4, AllKept DEF SameBlocks
<1>8. A \ {a} \subseteq D /\ F \cap (A \ {a}) = {}
  BY <1>1
<1> QED
  BY <1>1, <1>4, <1>5, <1>6, <1>7, <1>8 DEF Lists

\* Of the addresses in front of a, one is the last.
LEMMA LastInFront ==
  ASSUME NEW S \in SUBSET Nat, NEW a \in Nat, NEW x \in S, x < a
  PROVE  \E y \in S : y < a /\ x <= y /\ \A b \in S : a <= b \/ b <= y
PROOF
<1>0. \A b \in S : b \in Nat
  OBVIOUS
<1>1. PICK T : T = {k \in Nat : \E b \in S : b < a /\ k = a - b}
  OBVIOUS
<1>2. T \in SUBSET Nat /\ a - x \in T
  BY <1>0, <1>1
<1>3. PICK k \in T : \A j \in T : k <= j
  BY <1>2, LeastNumber
<1>4. PICK y \in S : y < a /\ k = a - y
  BY <1>1, <1>3
<1>5. ASSUME NEW b \in S PROVE a <= b \/ b <= y
  <2>1. CASE b < a
    <3>1. b \in Nat /\ y \in Nat /\ a - b \in Nat
      BY <1>0, <2>1
    <3>2. a - b \in T
      BY <1>1, <2>1, <3>1
    <3>3. a - y <= a - b
      BY <1>3, <1>4, <3>2
    <3> QED
      BY ONLY <3>1, <3>3, a \in Nat
  <2>2. CASE ~(b < a)
    BY <1>0, <2>2
  <2> QED
    BY <2>1, <2>2
<1>6. x <= y
  BY <1>0, <1>5
<1> QED
  BY <1>4, <1>5, <1>6

\* The parts of Lists, with the sets as sets of numbers.
LEMMA ListsParts ==
  ASSUME NEW h, NEW D, NEW F, NEW A, Lists(h, D, F, A)
  PROVE  /\ D \in SUBSET Nat /\ F \in SUBSET Nat /\ A \in SUBSET Nat
         /\ D \in SUBSET (0..HeapSize) /\ h \in Heaps(D) /\ DOMAIN h.mcb = D
         /\ F \subseteq D /\ A \subseteq D /\ F \cap A = {} /\ AllList(D, h)
         /\ RelList(F, h.free_list, h) /\ RelList(A, h.allocated_list, h)
         /\ IsFirst(F, h.free_list) /\ IsFirst(A, h.allocated_list)
         /\ h.free_list \in F \cup {NULL} /\ h.allocated_list \in A \cup {NULL}
         /\ NULL \notin D
PROOF
<1>1. D \in SUBSET Nat /\ D \in SUBSET (0..HeapSize)
  BY HeapAssumption DEF Lists
<1>2. IsFirst(F, h.free_list) /\ IsFirst(A, h.allocated_list)
  BY DEF Lists, RelList, IsOrdered
<1>3. h.free_list \in F \cup {NULL} /\ h.allocated_list \in A \cup {NULL}
  BY <1>2 DEF IsFirst
<1> QED
  BY <1>1, <1>2, <1>3, HeapType, NullAssumption DEF Lists

\* A walk along a list of some of the blocks.
LEMMA RelSearch ==
  ASSUME NEW D, NEW h, NEW S, NEW head, NEW x, NEW T,
         D \in SUBSET (0..HeapSize), h \in Heaps(D), S \subseteq D,
         RelList(S, head, h), x \in S \cup {NULL}, T \subseteq D
  PROVE  IsFound(S, x, T, FirstOf(Links(h, "rel_next"), x, T))
PROOF
<1>1. PICK links : links = Links(h, "rel_next")
  OBVIOUS
<1>2. AreLinks(links) /\ DOMAIN links = D \cup {NULL}
  BY <1>1, LinksAre
<1>3. Leads(S, links)
  BY <1>1, <1>2 DEF Leads, RelList, IsOrdered
<1>4. HeapSize \in Nat /\ S \in SUBSET (0..HeapSize)
  BY HeapAssumption
<1>5. NULL \notin T
  <2>1. \A y \in 0..HeapSize : y \in Nat
    BY <1>4
  <2> QED
    BY <2>1, NullAssumption
<1>6. IsFound(S, x, T, FirstOf(links, x, T))
  BY <1>2, <1>3, <1>4, <1>5, SearchFinds
<1> QED
  BY <1>1, <1>6

\* The same along the list of all blocks.
LEMMA AllSearch ==
  ASSUME NEW D, NEW h, NEW x, NEW T,
         D \in SUBSET (0..HeapSize), h \in Heaps(D),
         AllList(D, h), x \in D \cup {NULL}, T \subseteq D
  PROVE  IsFound(D, x, T, FirstOf(Links(h, "next"), x, T))
PROOF
<1>1. PICK links : links = Links(h, "next")
  OBVIOUS
<1>2. AreLinks(links) /\ DOMAIN links = D \cup {NULL}
  BY <1>1, LinksAre
<1>3. Leads(D, links)
  BY <1>1, <1>2 DEF Leads, AllList, IsOrdered
<1>4. HeapSize \in Nat
  BY HeapAssumption
<1>5. NULL \notin T
  <2>1. \A y \in 0..HeapSize : y \in Nat
    BY <1>4
  <2> QED
    BY <2>1, NullAssumption
<1>6. IsFound(D, x, T, FirstOf(links, x, T))
  BY <1>2, <1>3, <1>4, <1>5, SearchFinds
<1> QED
  BY <1>1, <1>6

\* LastBefore finds the place of a in the allocated list.
LEMMA LastBeforeFinds ==
  ASSUME NEW h, NEW D, NEW F, NEW A, Lists(h, D, F, A), NEW a \in Nat \ A,
         h.allocated_list # NULL, h.allocated_list < a,
         NEW index, index = LastBefore(h, a)
  PROVE  /\ index \in A /\ IsPrev(A, a, index) /\ IsNext(A, a, h.mcb[index].rel_next)
         /\ h.mcb[index].rel_next \in A \cup {NULL} /\ h.mcb[index].rel_next # index
PROOF
<1>1. PICK head, T : /\ head = h.allocated_list
                     /\ T = {x \in D : x < a /\ (h.mcb[x].rel_next = NULL \/ h.mcb[x].rel_next > a)}
  OBVIOUS
<1>2. /\ A \in SUBSET Nat /\ A \subseteq D /\ D \in SUBSET (0..HeapSize) /\ h \in Heaps(D)
      /\ RelList(A, head, h) /\ head \in A \cup {NULL} /\ DOMAIN h.mcb = D /\ D \in SUBSET Nat
  BY <1>1, ListsParts
<1>3. IsFound(A, head, T, index)
  <2>1. index = FirstOf(Links(h, "rel_next"), head, T)
    BY <1>1, <1>2 DEF LastBefore
  <2>2. T \subseteq D
    BY <1>1
  <2> QED
    BY <1>2, <2>1, <2>2, RelSearch
<1>4. head \in A /\ head < a /\ head # NULL
  BY <1>1, <1>2
<1>5. PICK y \in A : y < a /\ head <= y /\ \A b \in A : a <= b \/ b <= y
  BY <1>2, <1>4, LastInFront
<1>6. y \in T
  <2>1. IsNext(A, y, h.mcb[y].rel_next)
    BY <1>2, RelPointers
  <2>2. PICK n : n = h.mcb[y].rel_next
    OBVIOUS
  <2>3. n # NULL => n \in A /\ y < n
    BY <2>1, <2>2 DEF IsNext
  <2>4. n # NULL => n > a
    <3> SUFFICES ASSUME n # NULL PROVE n > a
      OBVIOUS
    <3>1. n \in A /\ y < n /\ n \in Nat /\ y \in Nat /\ n # a
      BY <1>2, <2>3
    <3>2. a <= n
      BY <1>5, <3>1
    <3> QED
      BY ONLY <3>1, <3>2, a \in Nat
  <2> QED
    BY <1>1, <1>2, <1>5, <2>2, <2>4
<1>7. index \in A /\ index \in T
  <2>1. ~(y < head) /\ y \in A \cap T
    BY <1>2, <1>4, <1>5, <1>6
  <2>2. index # NULL
    <3> SUFFICES ASSUME index = NULL PROVE FALSE
      OBVIOUS
    <3>1. NULL \notin A
      BY <1>2, NullAssumption
    <3>2. \A z \in A \cap T : head = NULL \/ z < head
      BY ONLY <1>3, <3>1, index = NULL DEF IsFound
    <3> QED
      BY <1>4, <2>1, <3>2
  <2> QED
    BY <1>3, <2>2 DEF IsFound
<1>8. PICK n : n = h.mcb[index].rel_next
  OBVIOUS
<1>9. /\ index \in Nat /\ index < a /\ (n = NULL \/ n > a)
      /\ IsNext(A, index, n) /\ n \in A \cup {NULL}
  BY <1>1, <1>2, <1>7, <1>8, RelPointers
<1>10. \A b \in A : b \in Nat
  BY <1>2
<1>11. CASE n = NULL
  <2>1. \A b \in A : b <= index
    BY <1>2, <1>9, <1>11, NextCases
  <2>2. \A b \in A : b <= a
    BY ONLY <1>9, <1>10, <2>1, a \in Nat
  <2>3. IsPrev(A, a, index) /\ IsNext(A, a, n)
    BY <1>7, <1>9, <1>11, <2>1, <2>2 DEF IsPrev, IsNext
  <2> QED
    BY <1>7, <1>8, <1>9, <1>11, <2>3, NullAssumption
<1>12. CASE n # NULL
  <2>1. n \in A /\ index < n /\ \A b \in A : b <= index \/ n <= b
    BY <1>2, <1>9, <1>12, NextCases
  <2>2. n \in Nat /\ a < n /\ index # n
    BY ONLY <1>9, <1>10, <1>12, <2>1, a \in Nat
  <2>3. \A b \in A : (a <= b \/ b <= index) /\ (b <= a \/ n <= b)
    BY ONLY <1>9, <1>10, <2>1, <2>2, a \in Nat
  <2>4. IsPrev(A, a, index) /\ IsNext(A, a, n)
    BY <1>7, <1>9, <2>1, <2>2, <2>3 DEF IsPrev, IsNext
  <2> QED
    BY <1>7, <1>8, <1>9, <2>2, <2>4
<1> QED
  BY <1>11, <1>12

\* Of the pointers of the lists, g changes those of a and of its new neighbours.
Joins(D, a, h, g) ==
  LET n == g.mcb[a].rel_next
      p == g.mcb[a].rel_prev
  IN  \A x \in D \ {a} : /\ g.mcb[x].rel_next = IF x = p THEN a ELSE h.mcb[x].rel_next
                         /\ g.mcb[x].rel_prev = IF x = n THEN a ELSE h.mcb[x].rel_prev

\* A block that is on neither list joins the allocated list, ...
LEMMA JoinsAllocated ==
  ASSUME NEW h, NEW D, NEW F, NEW A, Lists(h, D, F, A), NEW a \in D \ (F \cup A),
         NEW g, g \in Heaps(D), SameBlocks(D, h, g), Joins(D, a, h, g),
         IsNext(A, a, g.mcb[a].rel_next), IsPrev(A, a, g.mcb[a].rel_prev),
         g.free_list = h.free_list,
         g.allocated_list = IF g.mcb[a].rel_prev = NULL THEN a ELSE h.allocated_list
  PROVE  Lists(g, D, F, A \cup {a})
PROOF
<1>1. /\ D \in SUBSET Nat /\ D \in SUBSET (0..HeapSize) /\ h \in Heaps(D) /\ a \in D
      /\ F \subseteq D /\ A \subseteq D /\ F \cap A = {} /\ AllList(D, h)
      /\ RelList(F, h.free_list, h) /\ RelList(A, h.allocated_list, h) /\ NULL \notin D
      /\ a \notin A /\ a \notin F
  BY ListsParts
<1>2. g.mcb[a].rel_next \in A \cup {NULL} /\ g.mcb[a].rel_prev \in A \cup {NULL}
  BY DEF IsNext, IsPrev
<1>3. RelWith(A, a, h.allocated_list, h, g.allocated_list, g)
  BY <1>1 DEF RelWith, Joins
<1>4. RelList(A \cup {a}, g.allocated_list, g)
  BY <1>1, <1>3, RelAdded
<1>5. SameRel(F, h, g)
  BY <1>1, <1>2 DEF Joins, SameRel
<1>6. RelList(F, g.free_list, g)
  BY <1>1, <1>5, RelKept
<1>7. AllList(D, g)
  BY <1>1, AllKept DEF SameBlocks
<1>8. A \cup {a} \subseteq D /\ F \cap (A \cup {a}) = {}
  BY <1>1
<1> QED
  BY <1>1, <1>4, <1>6, <1>7, <1>8 DEF Lists

\* ... or the free list.
LEMMA JoinsFree ==
  ASSUME NEW h, NEW D, NEW F, NEW A, Lists(h, D, F, A), NEW a \in D \ (F \cup A),
         NEW g, g \in Heaps(D), SameBlocks(D, h, g), Joins(D, a, h, g),
         IsNext(F, a, g.mcb[a].rel_next), IsPrev(F, a, g.mcb[a].rel_prev),
         g.allocated_list = h.allocated_list,
         g.free_list = IF g.mcb[a].rel_prev = NULL THEN a ELSE h.free_list
  PROVE  Lists(g, D, F \cup {a}, A)
PROOF
<1>1. /\ D \in SUBSET Nat /\ D \in SUBSET (0..HeapSize) /\ h \in Heaps(D) /\ a \in D
      /\ F \subseteq D /\ A \subseteq D /\ F \cap A = {} /\ AllList(D, h)
      /\ RelList(F, h.free_list, h) /\ RelList(A, h.allocated_list, h) /\ NULL \notin D
      /\ a \notin A /\ a \notin F
  BY ListsParts
<1>2. g.mcb[a].rel_next \in F \cup {NULL} /\ g.mcb[a].rel_prev \in F \cup {NULL}
  BY DEF IsNext, IsPrev
<1>3. RelWith(F, a, h.free_list, h, g.free_list, g)
  BY <1>1 DEF RelWith, Joins
<1>4. RelList(F \cup {a}, g.free_list, g)
  BY <1>1, <1>3, RelAdded
<1>5. SameRel(A, h, g)
  BY <1>1, <1>2 DEF Joins, SameRel
<1>6. RelList(A, g.allocated_list, g)
  BY <1>1, <1>5, RelKept
<1>7. AllList(D, g)
  BY <1>1, AllKept DEF SameBlocks
<1>8. F \cup {a} \subseteq D /\ (F \cup {a}) \cap A = {}
  BY <1>1
<1> QED
  BY <1>1, <1>4, <1>6, <1>7, <1>8 DEF Lists

\* a is in front of the list of the addresses in S.
InFrontOf(a, S) == \A x \in S : a < x

\* A block in front of all in A has no rel_prev.
FrontLinked(h, a, A) == InFrontOf(a, A) => h.mcb[a].rel_prev = NULL

\* g is h with block a, which was on neither list, on the allocated one.
IsAllocated(h, g, D, F, A, a) ==
  /\ Lists(g, D, F, A \cup {a})
  /\ SameBlocks(D, h, g)
  /\ SameMarks(D \ {a}, h, g)
  /\ g.mcb[a].is_free = FALSE

\* LinkAllocated puts a block in its place in the allocated list.  In front of
\* the head that takes a rel_prev that is NULL already.
LEMMA LinkAllocatedSound ==
  ASSUME NEW h, NEW D, NEW F, NEW A, Lists(h, D, F, A),
         NEW a, a \in D, a \notin F, a \notin A, FrontLinked(h, a, A),
         NEW g, g = LinkAllocated(h, a)
  PROVE  IsAllocated(h, g, D, F, A, a)
PROOF
<1> SUFFICES /\ Lists(g, D, F, A \cup {a}) /\ SameBlocks(D, h, g) /\ SameMarks(D \ {a}, h, g)
             /\ g.mcb[a].is_free = FALSE
  BY DEF IsAllocated
<1>1. /\ D \in SUBSET Nat /\ A \in SUBSET Nat /\ A \subseteq D /\ h \in Heaps(D)
      /\ NULL \notin D /\ NULL \notin A /\ a \in D /\ a \in Nat /\ a \notin A
      /\ IsFirst(A, h.allocated_list)
  BY ListsParts
<1>2. PICK head, index, next : /\ head = h.allocated_list /\ index = LastBefore(h, a)
                               /\ next = h.mcb[index].rel_next
  OBVIOUS
<1>3. PICK busy : busy = [h EXCEPT !.mcb[a].is_free = FALSE]
  OBVIOUS
<1>4. /\ busy \in Heaps(D) /\ SameBlocks(D, h, busy) /\ SameMarks(D \ {a}, h, busy)
      /\ busy.mcb[a].is_free = FALSE
      /\ busy.free_list = h.free_list /\ busy.allocated_list = h.allocated_list
      /\ \A x \in D : /\ busy.mcb[x].rel_next = h.mcb[x].rel_next
                      /\ busy.mcb[x].rel_prev = h.mcb[x].rel_prev
  <2>1. D \in SUBSET Nat /\ h \in Heaps(D) /\ a \in D
    BY <1>1
  <2> QED
    BY ONLY <1>3, <2>1 DEF Heaps, MCB, SameBlocks, SameMarks
<1>5. a \in Ptr /\ NULL \in Ptr /\ A \subseteq Ptr
  BY <1>1 DEF Ptr
<1>6. CASE head = NULL
  <2>1. g = [busy EXCEPT !.allocated_list = a,
                         !.mcb[a].rel_next = NULL, !.mcb[a].rel_prev = NULL]
    BY <1>2, <1>3, <1>6 DEF LinkAllocated
  <2>2. /\ g \in Heaps(D) /\ SameBlocks(D, h, g) /\ SameMarks(D \ {a}, h, g)
        /\ g.mcb[a].is_free = FALSE
        /\ g.free_list = h.free_list /\ g.allocated_list = a
        /\ g.mcb[a].rel_next = NULL /\ g.mcb[a].rel_prev = NULL
        /\ \A x \in D \ {a} : /\ g.mcb[x].rel_next = h.mcb[x].rel_next
                              /\ g.mcb[x].rel_prev = h.mcb[x].rel_prev
    <3>1. PICK k : k = [busy EXCEPT !.allocated_list = a]
      OBVIOUS
    <3>2. k \in Heaps(D) /\ k.mcb = busy.mcb /\ k.free_list = h.free_list /\ k.allocated_list = a
      BY <1>4, <1>5, <3>1 DEF Heaps
    <3>3. PICK l : l = [k EXCEPT !.mcb[a].rel_next = NULL]
      OBVIOUS
    <3>4. IsSetRelNext(D, k, l, a, NULL)
      BY <1>1, <1>5, <3>2, <3>3, RelWrites
    <3>5. g = [l EXCEPT !.mcb[a].rel_prev = NULL]
      BY <2>1, <3>1, <3>3
    <3>6. l \in Heaps(D)
      BY <3>4 DEF IsSetRelNext
    <3>7. IsSetRelPrev(D, l, g, a, NULL)
      <4>1. IsSetRelPrev(D, l, [l EXCEPT !.mcb[a].rel_prev = NULL], a, NULL)
        BY <1>1, <1>5, <3>6, RelWrites
      <4> QED
        BY <3>5, <4>1
    <3> HIDE <2>1, <3>1, <3>3, <3>5
    <3> QED
      BY <1>1, <1>4, <3>2, <3>4, <3>7 DEF IsSetRelNext, IsSetRelPrev, SameBlocks, SameMarks
  <2> HIDE <2>1
  <2>3. Joins(D, a, h, g)
    BY <1>1, <2>2 DEF Joins
  <2>4. A = {}
    BY <1>1, <1>2, <1>6 DEF IsFirst
  <2>5. IsNext(A, a, NULL) /\ IsPrev(A, a, NULL)
    BY <2>4 DEF IsNext, IsPrev
  <2>6. Lists(g, D, F, A \cup {a})
    BY <2>2, <2>3, <2>5, JoinsAllocated
  <2> QED
    BY <2>2, <2>6
<1>7. CASE head # NULL /\ head > a
  <2>0. head \in A /\ head \in D /\ head \in Nat /\ head # a /\ \A x \in A : head <= x
    BY <1>1, <1>2, <1>7 DEF IsFirst
  <2>1. g = [busy EXCEPT !.mcb[a].rel_next = head, !.mcb[head].rel_prev = a,
                         !.allocated_list = a]
    BY <1>2, <1>3, <1>7 DEF LinkAllocated
  <2>2. /\ g \in Heaps(D) /\ SameBlocks(D, h, g) /\ SameMarks(D \ {a}, h, g)
        /\ g.mcb[a].is_free = FALSE
        /\ g.free_list = h.free_list /\ g.allocated_list = a
        /\ g.mcb[a].rel_next = head /\ g.mcb[a].rel_prev = h.mcb[a].rel_prev
        /\ \A x \in D \ {a} : /\ g.mcb[x].rel_next = h.mcb[x].rel_next
                              /\ g.mcb[x].rel_prev = IF x = head THEN a ELSE h.mcb[x].rel_prev
    <3>1. PICK k : k = [busy EXCEPT !.mcb[a].rel_next = head]
      OBVIOUS
    <3>2. IsSetRelNext(D, busy, k, a, head)
      BY <1>1, <1>4, <1>5, <2>0, <3>1, RelWrites
    <3>3. PICK l : l = [k EXCEPT !.mcb[head].rel_prev = a]
      OBVIOUS
    <3>4. k \in Heaps(D)
      BY <3>2 DEF IsSetRelNext
    <3>5. IsSetRelPrev(D, k, l, head, a)
      BY <1>1, <1>5, <2>0, <3>3, <3>4, RelWrites
    <3>6. l \in Heaps(D)
      BY <3>5 DEF IsSetRelPrev
    <3>7. g = [l EXCEPT !.allocated_list = a]
      BY <2>1, <3>1, <3>3
    <3>8. g \in Heaps(D) /\ g.mcb = l.mcb /\ g.free_list = l.free_list /\ g.allocated_list = a
      BY <1>5, <3>6, <3>7 DEF Heaps
    <3> HIDE <2>1, <3>1, <3>3, <3>7
    <3> QED
      BY <1>1, <1>4, <2>0, <3>2, <3>5, <3>8 DEF IsSetRelNext, IsSetRelPrev, SameBlocks, SameMarks
  <2> HIDE <2>1
  <2>3. \A x \in A : a < x
    BY <1>1, <1>7, <2>0
  <2>4. g.mcb[a].rel_prev = NULL
    BY <2>2, <2>3 DEF InFrontOf, FrontLinked
  <2>5. Joins(D, a, h, g)
    BY <1>1, <2>2, <2>4 DEF Joins
  <2>6. IsNext(A, a, head) /\ IsPrev(A, a, NULL)
    <3>1. \A x \in A : a <= x
      BY ONLY <1>1, <2>3
    <3> QED
      BY <1>7, <2>0, <2>3, <3>1 DEF IsNext, IsPrev
  <2>7. Lists(g, D, F, A \cup {a})
    BY <2>2, <2>4, <2>5, <2>6, JoinsAllocated
  <2> QED
    BY <2>2, <2>7
<1>8. CASE head # NULL /\ ~(head > a)
  <2>0. head \in A /\ head \in Nat /\ head < a
    <3>1. head \in A
      BY <1>1, <1>2, <1>8 DEF IsFirst
    <3>2. head \in Nat /\ head # a
      BY <1>1, <3>1
    <3> QED
      BY ONLY <1>1, <1>8, <3>1, <3>2
  <2>1. /\ index \in A /\ IsPrev(A, a, index) /\ IsNext(A, a, next)
        /\ next \in A \cup {NULL} /\ next # index
    BY <1>1, <1>2, <1>8, <2>0, LastBeforeFinds
  <2>2. index \in D /\ index # a /\ next # a /\ next \in D \cup {NULL} /\ next \in Ptr /\ index \in Ptr
    BY <1>1, <1>5, <2>1
  <2>3. PICK linked : linked = [busy EXCEPT !.mcb[a].rel_next = next,
                                            !.mcb[a].rel_prev = index,
                                            !.mcb[index].rel_next = a]
    OBVIOUS
  <2>4. g = Set(linked, next, "rel_prev", a)
    BY <1>2, <1>3, <1>8, <2>3 DEF LinkAllocated
  <2>5. /\ linked \in Heaps(D) /\ SameBlocks(D, h, linked) /\ SameMarks(D \ {a}, h, linked)
        /\ linked.mcb[a].is_free = FALSE
        /\ linked.free_list = h.free_list /\ linked.allocated_list = h.allocated_list
        /\ linked.mcb[a].rel_next = next /\ linked.mcb[a].rel_prev = index
        /\ \A x \in D \ {a} :
             /\ linked.mcb[x].rel_next = IF x = index THEN a ELSE h.mcb[x].rel_next
             /\ linked.mcb[x].rel_prev = h.mcb[x].rel_prev
    <3>1. PICK k : k = [busy EXCEPT !.mcb[a].rel_next = next]
      OBVIOUS
    <3>2. IsSetRelNext(D, busy, k, a, next)
      BY <1>1, <1>4, <2>2, <3>1, RelWrites
    <3>3. PICK l : l = [k EXCEPT !.mcb[a].rel_prev = index]
      OBVIOUS
    <3>4. k \in Heaps(D)
      BY <3>2 DEF IsSetRelNext
    <3>5. IsSetRelPrev(D, k, l, a, index)
      BY <1>1, <2>2, <3>3, <3>4, RelWrites
    <3>6. l \in Heaps(D)
      BY <3>5 DEF IsSetRelPrev
    <3>7. linked = [l EXCEPT !.mcb[index].rel_next = a]
      BY <2>3, <3>1, <3>3
    <3>8. IsSetRelNext(D, l, linked, index, a)
      BY <1>1, <1>5, <2>2, <3>6, <3>7, RelWrites
    <3> HIDE <2>3, <3>1, <3>3, <3>7
    <3> QED
      BY <1>1, <1>4, <2>2, <3>2, <3>5, <3>8 DEF IsSetRelNext, IsSetRelPrev, SameBlocks, SameMarks
  <2> HIDE <2>3
  <2>6. IsSetRelPrev(D, linked, g, next, a)
    <3>1. linked \in Heaps(D)
      BY <2>5
    <3>2. IsSetRelPrev(D, linked, Set(linked, next, "rel_prev", a), next, a)
      BY <1>1, <1>5, <2>2, <3>1, SetWrites
    <3> QED
      BY <2>4, <3>2
  <2> HIDE <2>4
  <2>7. /\ g \in Heaps(D) /\ SameBlocks(D, h, g) /\ SameMarks(D \ {a}, h, g)
        /\ g.mcb[a].is_free = FALSE
        /\ g.free_list = h.free_list /\ g.allocated_list = h.allocated_list
        /\ g.mcb[a].rel_next = next /\ g.mcb[a].rel_prev = index
        /\ \A x \in D \ {a} :
             /\ g.mcb[x].rel_next = IF x = index THEN a ELSE h.mcb[x].rel_next
             /\ g.mcb[x].rel_prev = IF x = next THEN a ELSE h.mcb[x].rel_prev
    <3>1. a \in D /\ next # a
      BY <1>1, <2>2
    <3>2. /\ g \in Heaps(D) /\ g.free_list = linked.free_list
          /\ g.allocated_list = linked.allocated_list
          /\ \A x \in D : /\ g.mcb[x].rel_next = linked.mcb[x].rel_next
                          /\ g.mcb[x].is_free = linked.mcb[x].is_free
                          /\ g.mcb[x].rel_prev = IF x = next THEN a ELSE linked.mcb[x].rel_prev
      BY ONLY <1>1, <2>6 DEF IsSetRelPrev, SameMarks
    <3>3. SameBlocks(D, linked, g)
      BY ONLY <1>1, <2>6 DEF IsSetRelPrev, SameBlocks
    <3>4. SameBlocks(D, h, g)
      BY ONLY <2>5, <3>3 DEF SameBlocks
    <3>5. SameMarks(D \ {a}, h, g)
      BY ONLY <2>5, <3>2 DEF SameMarks
    <3>6. g.mcb[a].rel_prev = index /\ g.mcb[a].rel_next = next /\ g.mcb[a].is_free = FALSE
      <4>1. /\ g.mcb[a].rel_next = linked.mcb[a].rel_next
            /\ g.mcb[a].is_free = linked.mcb[a].is_free
            /\ g.mcb[a].rel_prev = linked.mcb[a].rel_prev
        BY ONLY <3>1, <3>2
      <4> QED
        BY ONLY <2>5, <4>1
    <3>7. \A x \in D \ {a} :
             /\ g.mcb[x].rel_next = IF x = index THEN a ELSE h.mcb[x].rel_next
             /\ g.mcb[x].rel_prev = IF x = next THEN a ELSE h.mcb[x].rel_prev
      BY ONLY <2>5, <3>2
    <3>8. g \in Heaps(D) /\ g.free_list = h.free_list /\ g.allocated_list = h.allocated_list
      BY ONLY <2>5, <3>2
    <3> QED
      BY ONLY <3>4, <3>5, <3>6, <3>7, <3>8
  <2>8. Joins(D, a, h, g)
    BY <2>7 DEF Joins
  <2>9. index # NULL
    BY <1>1, <2>1
  <2>10. Lists(g, D, F, A \cup {a})
    BY <2>1, <2>7, <2>8, <2>9, JoinsAllocated
  <2> QED
    BY <2>7, <2>10
<1> QED
  BY <1>6, <1>7, <1>8

\* The block where free_memory's walk along the free list stops.
StopsAt(h, D, a) ==
  FirstOf(Links(h, "rel_next"), h.free_list, {x \in D : x > a \/ h.mcb[x].rel_next = NULL})

\* The walk finds the place of a in the free list.
LEMMA FreePlace ==
  ASSUME NEW h, NEW D, NEW F, NEW A, Lists(h, D, F, A), NEW a \in Nat \ F,
         h.free_list # NULL, h.free_list < a, NEW index, NEW prev,
         index = StopsAt(h, D, a), prev = h.mcb[index].rel_prev
  PROVE  /\ index \in F
         /\ index > a => /\ prev \in F /\ prev # index
                         /\ IsPrev(F, a, prev) /\ IsNext(F, a, index)
         /\ ~(index > a) => IsPrev(F, a, index) /\ IsNext(F, a, NULL)
PROOF
<1>1. PICK head, T : /\ head = h.free_list
                     /\ T = {x \in D : x > a \/ h.mcb[x].rel_next = NULL}
  OBVIOUS
<1>2. /\ F \in SUBSET Nat /\ F \subseteq D /\ D \in SUBSET (0..HeapSize) /\ h \in Heaps(D)
      /\ RelList(F, head, h) /\ head \in F \cup {NULL} /\ D \in SUBSET Nat /\ NULL \notin F
      /\ IsFirst(F, head)
  BY <1>1, ListsParts
<1>3. IsFound(F, head, T, index)
  <2>1. index = FirstOf(Links(h, "rel_next"), head, T)
    BY <1>1 DEF StopsAt
  <2>2. T \subseteq D
    BY <1>1
  <2>3. IsFound(F, head, T, FirstOf(Links(h, "rel_next"), head, T))
    BY ONLY <1>2, <2>2, RelSearch
  <2> QED
    BY ONLY <2>1, <2>3
<1>4. head \in F /\ head < a /\ head # NULL /\ \A b \in F : head <= b
  BY <1>1, <1>2 DEF IsFirst
<1>5. \A b \in F : b \in Nat
  BY <1>2
<1>6. index \in F /\ index \in T
  <2>1. HeapSize + 1 \in Nat /\ \A b \in F : b < HeapSize + 1
    <3>1. \A b \in 0..HeapSize : b < HeapSize + 1
      BY HeapAssumption
    <3> QED
      BY <1>2, <3>1, HeapAssumption
  <2>2. PICK y \in F : \A b \in F : HeapSize + 1 <= b \/ b <= y
    BY <1>2, <1>4, <2>1, LastInFront
  <2>3. y \in T
    <3>1. IsNext(F, y, h.mcb[y].rel_next)
      BY <1>2, RelPointers
    <3>2. PICK n : n = h.mcb[y].rel_next
      OBVIOUS
    <3>3. n # NULL => n \in F /\ y < n
      BY <3>1, <3>2 DEF IsNext
    <3>4. n = NULL
      <4> SUFFICES ASSUME n # NULL PROVE FALSE
        OBVIOUS
      <4>1. n \in F /\ y < n /\ n \in Nat /\ y \in Nat
        BY <1>5, <3>3
      <4>2. HeapSize + 1 <= n \/ n <= y
        BY <2>2, <4>1
      <4>3. n < HeapSize + 1
        BY <2>1, <4>1
      <4> QED
        BY ONLY <2>1, <4>1, <4>2, <4>3
    <3> QED
      BY <1>1, <1>2, <3>2, <3>4
  <2>4. ~(y < head)
    BY <1>4, <1>5
  <2>5. index # NULL
    <3> SUFFICES ASSUME index = NULL PROVE FALSE
      OBVIOUS
    <3>1. \A z \in F \cap T : head = NULL \/ z < head
      BY ONLY <1>2, <1>3, index = NULL DEF IsFound
    <3> QED
      BY <1>4, <2>3, <2>4, <3>1
  <2> QED
    BY <1>3, <2>5 DEF IsFound
<1>7. \A y \in F \cap T : index <= y
  <2>1. \A y \in F \cap T : y < head \/ index <= y
    BY ONLY <1>2, <1>3, <1>6 DEF IsFound
  <2> QED
    BY <1>4, <1>5, <2>1
<1>8. index \in Nat /\ index # a /\ IsPrev(F, index, prev) /\ IsNext(F, index, h.mcb[index].rel_next)
  BY <1>2, <1>5, <1>6, RelPointers
<1>9. CASE index > a
  <2>1. prev # NULL
    <3> SUFFICES ASSUME prev = NULL PROVE FALSE
      OBVIOUS
    <3>1. \A b \in F : index <= b
      BY <1>2, <1>8, PrevCases
    <3>2. index <= head /\ head \in Nat
      BY <1>4, <1>5, <3>1
    <3> QED
      BY ONLY <1>4, <1>8, <1>9, <3>2, a \in Nat
  <2>2. prev \in F /\ prev < index /\ \A b \in F : index <= b \/ b <= prev
    BY ONLY <1>8, <2>1 DEF IsPrev
  <2>3. prev \notin T
    BY <1>5, <1>7, <1>8, <2>2
  <2>4. prev < a /\ prev \in Nat
    <3>1. prev \in D /\ prev \in Nat /\ prev # a
      BY <1>2, <2>2
    <3>2. ~(prev > a)
      BY <1>1, <2>3, <3>1
    <3> QED
      BY ONLY <3>1, <3>2, a \in Nat
  <2>5. \A b \in F : a <= b \/ b <= prev
    BY ONLY <1>5, <1>8, <1>9, <2>2, <2>4, a \in Nat
  <2>6. \A b \in F : b <= a \/ index <= b
    BY ONLY <1>5, <1>8, <1>9, <2>2, <2>4, a \in Nat
  <2>7. IsPrev(F, a, prev) /\ IsNext(F, a, index)
    BY ONLY <1>6, <1>9, <1>8, <2>2, <2>4, <2>5, <2>6, a \in Nat DEF IsPrev, IsNext
  <2> QED
    BY <1>6, <1>8, <1>9, <2>2, <2>4, <2>7
<1>10. CASE ~(index > a)
  <2>1. index < a
    BY <1>8, <1>10
  <2>2. h.mcb[index].rel_next = NULL
    BY <1>1, <1>6, <1>10
  <2>3. \A b \in F : b <= index
    BY <1>2, <1>8, <2>2, NextCases
  <2>4. \A b \in F : b <= a
    BY ONLY <1>5, <1>8, <2>1, <2>3, a \in Nat
  <2>5. IsPrev(F, a, index) /\ IsNext(F, a, NULL)
    BY ONLY <1>6, <2>1, <2>3, <2>4 DEF IsPrev, IsNext
  <2> QED
    BY <1>6, <1>10, <2>5
<1> QED
  BY <1>9, <1>10

\* LinkFree puts a block in its place in the free list.
LEMMA LinkFreeSound ==
  ASSUME NEW h, NEW D, NEW F, NEW A, Lists(h, D, F, A), NEW a \in D \ (F \cup A),
         NEW g, g = LinkFree(h, a)
  PROVE  /\ Lists(g, D, F \cup {a}, A) /\ SameBlocks(D, h, g) /\ SameMarks(D \ {a}, h, g)
         /\ g.mcb[a].is_free = TRUE
PROOF
<1>1. /\ D \in SUBSET Nat /\ F \in SUBSET Nat /\ F \subseteq D /\ A \subseteq D /\ h \in Heaps(D)
      /\ NULL \notin D /\ NULL \notin F /\ a \in D /\ a \in Nat /\ a \notin F /\ a \notin A
      /\ IsFirst(F, h.free_list) /\ DOMAIN h.mcb = D /\ h.free_list \in F \cup {NULL}
      /\ F \cap A = {} /\ AllList(D, h)
      /\ RelList(F, h.free_list, h) /\ RelList(A, h.allocated_list, h)
  BY ListsParts
<1>2. a \in Ptr /\ NULL \in Ptr /\ F \subseteq Ptr
  BY <1>1 DEF Ptr
<1>3. PICK idle : idle = [h EXCEPT !.mcb[a].is_free = TRUE,
                                   !.mcb[a].rel_next = NULL, !.mcb[a].rel_prev = NULL]
  OBVIOUS
<1>4. /\ idle \in Heaps(D) /\ SameBlocks(D, h, idle) /\ SameMarks(D \ {a}, h, idle)
      /\ idle.mcb[a].is_free = TRUE /\ idle.mcb[a].rel_next = NULL /\ idle.mcb[a].rel_prev = NULL
      /\ idle.free_list = h.free_list /\ idle.allocated_list = h.allocated_list
      /\ \A x \in D \ {a} : /\ idle.mcb[x].rel_next = h.mcb[x].rel_next
                            /\ idle.mcb[x].rel_prev = h.mcb[x].rel_prev
  <2>1. PICK j : j = [h EXCEPT !.mcb[a].is_free = TRUE]
    OBVIOUS
  <2>2. /\ j \in Heaps(D) /\ SameBlocks(D, h, j) /\ SameMarks(D \ {a}, h, j)
        /\ j.mcb[a].is_free = TRUE
        /\ j.free_list = h.free_list /\ j.allocated_list = h.allocated_list
        /\ \A x \in D : /\ j.mcb[x].rel_next = h.mcb[x].rel_next
                        /\ j.mcb[x].rel_prev = h.mcb[x].rel_prev
    <3>1. D \in SUBSET Nat /\ h \in Heaps(D) /\ a \in D
      BY <1>1
    <3> QED
      BY ONLY <2>1, <3>1 DEF Heaps, MCB, SameBlocks, SameMarks
  <2>3. PICK k : k = [j EXCEPT !.mcb[a].rel_next = NULL]
    OBVIOUS
  <2>4. IsSetRelNext(D, j, k, a, NULL)
    BY <1>1, <1>2, <2>2, <2>3, RelWrites
  <2>5. idle = [k EXCEPT !.mcb[a].rel_prev = NULL]
    BY <1>3, <2>1, <2>3
  <2>6. k \in Heaps(D)
    BY <2>4 DEF IsSetRelNext
  <2>7. IsSetRelPrev(D, k, idle, a, NULL)
    <3>1. IsSetRelPrev(D, k, [k EXCEPT !.mcb[a].rel_prev = NULL], a, NULL)
      BY <1>1, <1>2, <2>6, RelWrites
    <3> QED
      BY <2>5, <3>1
  <2> HIDE <1>3, <2>1, <2>3, <2>5
  <2> QED
    BY <1>1, <2>2, <2>4, <2>7 DEF IsSetRelNext, IsSetRelPrev, SameBlocks, SameMarks
<1>5. PICK head, index, prev :
        /\ head = h.free_list
        /\ index = FirstOf(Links(idle, "rel_next"), head,
                           {x \in D : x > a \/ idle.mcb[x].rel_next = NULL})
        /\ prev = idle.mcb[index].rel_prev
  OBVIOUS
<1>6. /\ (head = NULL \/ head > a) =>
           g = Set([idle EXCEPT !.free_list = a, !.mcb[a].rel_next = head], head, "rel_prev", a)
      /\ ~(head = NULL \/ head > a) /\ index > a =>
           g = [idle EXCEPT !.mcb[prev].rel_next = a, !.mcb[a].rel_prev = prev,
                            !.mcb[a].rel_next = index, !.mcb[index].rel_prev = a]
      /\ ~(head = NULL \/ head > a) /\ ~(index > a) =>
           g = [idle EXCEPT !.mcb[index].rel_next = a, !.mcb[a].rel_prev = index]
  BY <1>1, <1>3, <1>5 DEF LinkFree
<1> HIDE <1>3
<1>7. Lists(idle, D, F, A)
  <2>1. SameRel(F, h, idle) /\ SameRel(A, h, idle)
    BY <1>1, <1>4 DEF SameRel
  <2>2. RelList(F, idle.free_list, idle) /\ RelList(A, idle.allocated_list, idle)
    <3>1. RelList(F, h.free_list, idle)
      BY <1>1, <1>4, <2>1, RelKept
    <3>2. RelList(A, h.allocated_list, idle)
      BY <1>1, <1>4, <2>1, RelKept
    <3> QED
      BY <1>4, <3>1, <3>2
  <2>3. AllList(D, idle)
    BY <1>1, <1>4, AllKept DEF SameBlocks
  <2>4. D \in SUBSET (0..HeapSize)
    BY ListsParts
  <2> QED
    BY <1>1, <1>4, <2>2, <2>3, <2>4 DEF Lists
<1>8. SUFFICES /\ g \in Heaps(D) /\ SameBlocks(D, idle, g) /\ SameMarks(D, idle, g)
               /\ Joins(D, a, idle, g)
               /\ IsNext(F, a, g.mcb[a].rel_next) /\ IsPrev(F, a, g.mcb[a].rel_prev)
               /\ g.allocated_list = idle.allocated_list
               /\ g.free_list = IF g.mcb[a].rel_prev = NULL THEN a ELSE idle.free_list
  <2>1. Lists(g, D, F \cup {a}, A)
    BY <1>1, <1>7, <1>8, JoinsFree
  <2>2. SameBlocks(D, h, g) /\ SameMarks(D \ {a}, h, g) /\ g.mcb[a].is_free = TRUE
    BY <1>1, <1>4, <1>8 DEF SameBlocks, SameMarks
  <2> QED
    BY <2>1, <2>2
<1>9. CASE head = NULL \/ head > a
  <2>0. head \in F \cup {NULL} /\ head # a /\ head \in D \cup {NULL} /\ head \in Ptr
    BY <1>1, <1>2, <1>5
  <2>1. PICK k : k = [idle EXCEPT !.free_list = a]
    OBVIOUS
  <2>2. k \in Heaps(D) /\ k.mcb = idle.mcb /\ k.free_list = a
        /\ k.allocated_list = idle.allocated_list
    BY <1>2, <1>4, <2>1 DEF Heaps
  <2>3. PICK l : l = [k EXCEPT !.mcb[a].rel_next = head]
    OBVIOUS
  <2>4. IsSetRelNext(D, k, l, a, head)
    BY <1>1, <2>0, <2>2, <2>3, RelWrites
  <2>5. g = Set(l, head, "rel_prev", a)
    BY <1>6, <1>9, <2>1, <2>3
  <2>6. l \in Heaps(D)
    BY <2>4 DEF IsSetRelNext
  <2>7. IsSetRelPrev(D, l, g, head, a)
    <3>1. IsSetRelPrev(D, l, Set(l, head, "rel_prev", a), head, a)
      BY <1>1, <1>2, <2>0, <2>6, SetWrites
    <3> QED
      BY <2>5, <3>1
  <2> HIDE <2>1, <2>3, <2>5, <1>6
  <2>8. /\ g \in Heaps(D) /\ SameBlocks(D, idle, g) /\ SameMarks(D, idle, g)
        /\ g.free_list = a /\ g.allocated_list = idle.allocated_list
        /\ g.mcb[a].rel_next = head /\ g.mcb[a].rel_prev = NULL
        /\ \A x \in D \ {a} : /\ g.mcb[x].rel_next = idle.mcb[x].rel_next
                              /\ g.mcb[x].rel_prev = IF x = head THEN a ELSE idle.mcb[x].rel_prev
    BY <1>1, <1>4, <2>0, <2>2, <2>4, <2>7 DEF IsSetRelNext, IsSetRelPrev, SameBlocks, SameMarks
  <2>9. Joins(D, a, idle, g)
    BY <1>1, <2>8 DEF Joins
  <2>10. IsNext(F, a, head) /\ IsPrev(F, a, NULL)
    <3>1. CASE head = NULL
      BY <1>1, <1>5, <3>1 DEF IsFirst, IsNext, IsPrev
    <3>2. CASE head # NULL
      <4>1. head \in F /\ head > a /\ head \in Nat /\ \A b \in F : head <= b /\ b \in Nat
        BY <1>1, <1>5, <1>9, <3>2 DEF IsFirst
      <4>2. \A b \in F : a <= b
        BY ONLY <1>1, <4>1
      <4> QED
        BY ONLY <1>1, <4>1, <4>2 DEF IsNext, IsPrev
    <3> QED
      BY <3>1, <3>2
  <2> QED
    BY <2>8, <2>9, <2>10
<1>10. CASE ~(head = NULL \/ head > a)
  <2>1. head \in F /\ head # NULL /\ head < a
    <3>1. head \in F /\ head \in Nat /\ head # a
      BY <1>1, <1>5, <1>10
    <3> QED
      BY ONLY <1>1, <1>10, <3>1
  <2>2. /\ index \in F
        /\ index > a => /\ prev \in F /\ prev # index
                        /\ IsPrev(F, a, prev) /\ IsNext(F, a, index)
        /\ ~(index > a) => IsPrev(F, a, index) /\ IsNext(F, a, NULL)
    <3>1. a \in Nat \ F /\ idle.free_list # NULL /\ idle.free_list < a
      BY <1>1, <1>4, <1>5, <2>1
    <3>2. index = StopsAt(idle, D, a)
      BY <1>4, <1>5 DEF StopsAt
    <3>3. prev = idle.mcb[index].rel_prev
      BY <1>5
    <3> QED
      BY ONLY <1>7, <3>1, <3>2, <3>3, FreePlace
  <2>3. index \in D /\ index # a /\ index # NULL /\ index \in Ptr
    BY <1>1, <1>2, <2>2
  <2>4. CASE index > a
    <3>0. prev \in D /\ prev # a /\ prev # NULL /\ prev \in Ptr /\ prev # index
      BY <1>1, <1>2, <2>2, <2>4
    <3>1. PICK k : k = [idle EXCEPT !.mcb[prev].rel_next = a]
      OBVIOUS
    <3>2. IsSetRelNext(D, idle, k, prev, a)
      BY <1>1, <1>2, <1>4, <3>0, <3>1, RelWrites
    <3>3. k \in Heaps(D)
      BY <3>2 DEF IsSetRelNext
    <3>4. PICK l : l = [k EXCEPT !.mcb[a].rel_prev = prev]
      OBVIOUS
    <3>5. IsSetRelPrev(D, k, l, a, prev)
      BY <1>1, <3>0, <3>3, <3>4, RelWrites
    <3>6. l \in Heaps(D)
      BY <3>5 DEF IsSetRelPrev
    <3>7. PICK m : m = [l EXCEPT !.mcb[a].rel_next = index]
      OBVIOUS
    <3>8. IsSetRelNext(D, l, m, a, index)
      BY <1>1, <2>3, <3>6, <3>7, RelWrites
    <3>9. m \in Heaps(D)
      BY <3>8 DEF IsSetRelNext
    <3>10. g = [m EXCEPT !.mcb[index].rel_prev = a]
      BY <1>6, <1>10, <2>4, <3>1, <3>4, <3>7
    <3>11. IsSetRelPrev(D, m, g, index, a)
      <4>1. IsSetRelPrev(D, m, [m EXCEPT !.mcb[index].rel_prev = a], index, a)
        BY <1>1, <1>2, <2>3, <3>9, RelWrites
      <4> QED
        BY <3>10, <4>1
    <3> HIDE <1>6, <3>1, <3>4, <3>7, <3>10
    <3>12. /\ g \in Heaps(D) /\ SameBlocks(D, idle, g) /\ SameMarks(D, idle, g)
           /\ g.free_list = idle.free_list /\ g.allocated_list = idle.allocated_list
           /\ g.mcb[a].rel_next = index /\ g.mcb[a].rel_prev = prev
           /\ \A x \in D \ {a} :
                /\ g.mcb[x].rel_next = IF x = prev THEN a ELSE idle.mcb[x].rel_next
                /\ g.mcb[x].rel_prev = IF x = index THEN a ELSE idle.mcb[x].rel_prev
      BY <1>1, <2>3, <3>0, <3>2, <3>5, <3>8, <3>11
         DEF IsSetRelNext, IsSetRelPrev, SameBlocks, SameMarks
    <3>13. Joins(D, a, idle, g)
      BY <3>12 DEF Joins
    <3> QED
      BY <2>2, <2>4, <3>0, <3>12, <3>13
  <2>5. CASE ~(index > a)
    <3>1. PICK k : k = [idle EXCEPT !.mcb[index].rel_next = a]
      OBVIOUS
    <3>2. IsSetRelNext(D, idle, k, index, a)
      BY <1>1, <1>2, <1>4, <2>3, <3>1, RelWrites
    <3>3. k \in Heaps(D)
      BY <3>2 DEF IsSetRelNext
    <3>4. g = [k EXCEPT !.mcb[a].rel_prev = index]
      BY <1>6, <1>10, <2>5, <3>1
    <3>5. IsSetRelPrev(D, k, g, a, index)
      <4>1. IsSetRelPrev(D, k, [k EXCEPT !.mcb[a].rel_prev = index], a, index)
        BY <1>1, <2>3, <3>3, RelWrites
      <4> QED
        BY <3>4, <4>1
    <3> HIDE <1>6, <3>1, <3>4
    <3>6. /\ g \in Heaps(D) /\ SameBlocks(D, idle, g) /\ SameMarks(D, idle, g)
          /\ g.free_list = idle.free_list /\ g.allocated_list = idle.allocated_list
          /\ g.mcb[a].rel_next = NULL /\ g.mcb[a].rel_prev = index
          /\ \A x \in D \ {a} :
               /\ g.mcb[x].rel_next = IF x = index THEN a ELSE idle.mcb[x].rel_next
               /\ g.mcb[x].rel_prev = idle.mcb[x].rel_prev
      BY <1>1, <1>4, <2>3, <3>2, <3>5
         DEF IsSetRelNext, IsSetRelPrev, SameBlocks, SameMarks
    <3>7. Joins(D, a, idle, g)
      BY <1>1, <3>6 DEF Joins
    <3> QED
      BY <2>2, <2>3, <2>5, <3>6, <3>7
  <2> QED
    BY <2>4, <2>5
<1> QED
  BY <1>9, <1>10

-----------------------------------------------------------------------------

(***************************************************************************)
(* Splitting and merging.                                                  *)
(***************************************************************************)

\* There is no address of S behind a up to c.
Gap(S, a, c) == \A b \in S : b <= a \/ c < b

\* Behind such a gap c has the neighbours of a.
LEMMA GapPlace ==
  ASSUME NEW S \in SUBSET Nat, NEW a \in S, NEW c \in Nat \ S, a < c, Gap(S, a, c),
         NEW n, NEW p, IsNext(S, a, n), IsPrev(S, a, p)
  PROVE  /\ IsNext(S, c, n) /\ IsPrev(S, c, a)
         /\ IsNext(S \ {a}, c, n) /\ IsPrev(S \ {a}, c, p)
PROOF
<1>0. a \in Nat /\ c \in Nat /\ \A b \in S : b \in Nat
  OBVIOUS
<1>1. \A b \in S : b <= a \/ c < b
  BY DEF Gap
<1>2. \A b \in S \ {a} : b < a \/ c < b
  BY ONLY <1>0, <1>1
<1>3. IsNext(S, c, n)
  <2>1. CASE n = NULL
    <3>1. \A b \in S : b <= a
      BY <2>1, NextCases
    <3>2. \A b \in S : b <= c
      BY ONLY <1>0, <3>1, a < c
    <3> QED
      BY <2>1, <3>2 DEF IsNext
  <2>2. CASE n # NULL
    <3>1. n \in S /\ a < n /\ \A b \in S : b <= a \/ n <= b
      BY <2>2, NextCases
    <3>2. c < n
      BY <1>0, <1>1, <3>1
    <3>3. \A b \in S : b <= c \/ n <= b
      BY ONLY <1>0, <3>1, a < c
    <3> QED
      BY <3>1, <3>2, <3>3 DEF IsNext
  <2> QED
    BY <2>1, <2>2
<1>4. IsPrev(S, c, a)
  <2>1. \A b \in S : c <= b \/ b <= a
    BY ONLY <1>0, <1>1
  <2> QED
    BY <2>1 DEF IsPrev
<1>5. IsNext(S \ {a}, c, n)
  <2>1. CASE n = NULL
    BY <1>3, <2>1, NullAssumption DEF IsNext
  <2>2. CASE n # NULL
    <3>1. n \in S /\ a < n
      BY <2>2, NextCases
    <3>2. n # a
      BY <1>0, <3>1
    <3> QED
      BY <1>3, <2>2, <3>1, <3>2 DEF IsNext
  <2> QED
    BY <2>1, <2>2
<1>6. IsPrev(S \ {a}, c, p)
  <2>1. CASE p = NULL
    <3>1. \A b \in S : a <= b
      BY <2>1, PrevCases
    <3>2. \A b \in S \ {a} : c <= b
      BY ONLY <1>0, <1>2, <3>1
    <3> QED
      BY <2>1, <3>2 DEF IsPrev
  <2>2. CASE p # NULL
    <3>1. p \in S /\ p < a /\ \A b \in S : a <= b \/ b <= p
      BY <2>2, PrevCases
    <3>2. p # a /\ p < c
      BY ONLY <1>0, <3>1, a < c
    <3>3. \A b \in S \ {a} : c <= b \/ b <= p
      BY ONLY <1>0, <1>2, <3>1
    <3> QED
      BY <3>1, <3>2, <3>3 DEF IsPrev
  <2> QED
    BY <2>1, <2>2
<1> QED
  BY <1>3, <1>4, <1>5, <1>6

\* c stands where a stood.
InPlaceOf(S, a, c, N, P, M, Q) ==
  /\ M[c] = N[a] /\ Q[c] = P[a]
  /\ \A x \in S \ {a} : /\ M[x] = IF x = P[a] THEN c ELSE N[x]
                        /\ Q[x] = IF x = N[a] THEN c ELSE P[x]

\* Behind a gap one address may take another's place.
LEMMA NodeReplaced ==
  ASSUME NEW S \in SUBSET Nat, NEW a \in S, NEW c \in Nat \ S, a < c, Gap(S, a, c),
         NEW head, NEW N, NEW P, NEW first, NEW M, NEW Q,
         IsOrdered(S, head, N, P), InPlaceOf(S, a, c, N, P, M, Q),
         first = IF P[a] = NULL THEN c ELSE head
  PROVE  IsOrdered((S \ {a}) \cup {c}, first, M, Q)
PROOF
<1>1. PICK n, p : n = N[a] /\ p = P[a]
  OBVIOUS
<1>2. IsNext(S, a, n) /\ IsPrev(S, a, p)
  BY <1>1 DEF IsOrdered
<1>3. PICK T, K, R, mid : /\ T = S \ {a}
                          /\ K = [x \in T |-> IF x = p THEN n ELSE N[x]]
                          /\ R = [x \in T |-> IF x = n THEN p ELSE P[x]]
                          /\ mid = IF p = NULL THEN n ELSE head
  OBVIOUS
<1>4. UnlinkedFrom(S, a, N, P, K, R)
  BY <1>1, <1>3 DEF UnlinkedFrom
<1>5. mid = IF P[a] = NULL THEN N[a] ELSE head
  BY <1>1, <1>3
<1>6. IsOrdered(S \ {a}, mid, K, R)
  BY ONLY <1>4, <1>5, S \in SUBSET Nat, a \in S, IsOrdered(S, head, N, P), NodeRemoved
<1>7. IsNext(T, c, n) /\ IsPrev(T, c, p) /\ T \in SUBSET Nat /\ c \in Nat \ T
  BY <1>2, <1>3, GapPlace
<1>8. LinkedInto(T, c, p, n, K, R, M, Q)
  BY <1>1, <1>3 DEF LinkedInto, InPlaceOf
<1>9. first = IF p = NULL THEN c ELSE mid
  BY <1>1, <1>3
<1>10. IsOrdered(T, mid, K, R)
  BY <1>3, <1>6
<1>11. IsOrdered(T \cup {c}, first, M, Q)
  BY ONLY <1>7, <1>8, <1>9, <1>10, NodeAdded
<1> QED
  BY <1>3, <1>11

\* The same of the pointers of the MCBs, ...
RelReplaced(S, a, c, head, h, first, g) ==
  LET n == h.mcb[a].rel_next
      p == h.mcb[a].rel_prev
  IN  /\ first = IF p = NULL THEN c ELSE head
      /\ g.mcb[c].rel_next = n /\ g.mcb[c].rel_prev = p
      /\ \A x \in S \ {a} : /\ g.mcb[x].rel_next = IF x = p THEN c ELSE h.mcb[x].rel_next
                            /\ g.mcb[x].rel_prev = IF x = n THEN c ELSE h.mcb[x].rel_prev

LEMMA RelReplace ==
  ASSUME NEW D \in SUBSET Nat, NEW h \in Heaps(D), NEW E \in SUBSET Nat, NEW g \in Heaps(E),
         NEW S, NEW a, NEW c, S \subseteq D, a \in S, c \in E \ S, S \subseteq E,
         a < c, Gap(S, a, c), NEW head, NEW first,
         RelList(S, head, h), RelReplaced(S, a, c, head, h, first, g)
  PROVE  RelList((S \ {a}) \cup {c}, first, g)
PROOF
<1> PICK N, P, M, Q : /\ N = Links(h, "rel_next") /\ P = Links(h, "rel_prev")
                      /\ M = Links(g, "rel_next") /\ Q = Links(g, "rel_prev")
  OBVIOUS
<1>1. /\ N[a] = h.mcb[a].rel_next /\ P[a] = h.mcb[a].rel_prev
      /\ S \in SUBSET Nat /\ c \in Nat \ S
  BY LinksRead
<1>2. M[c] = g.mcb[c].rel_next /\ Q[c] = g.mcb[c].rel_prev
  BY LinksRead
<1>3. ASSUME NEW x \in S \ {a}
      PROVE  /\ M[x] = IF x = P[a] THEN c ELSE N[x]
             /\ Q[x] = IF x = N[a] THEN c ELSE P[x]
  <2>1. /\ N[x] = h.mcb[x].rel_next /\ P[x] = h.mcb[x].rel_prev
        /\ M[x] = g.mcb[x].rel_next /\ Q[x] = g.mcb[x].rel_prev
    BY LinksRead
  <2> QED
    BY <1>1, <2>1 DEF RelReplaced
<1>4. InPlaceOf(S, a, c, N, P, M, Q)
  BY <1>1, <1>2, <1>3 DEF InPlaceOf, RelReplaced
<1>5. IsOrdered(S, head, N, P) /\ first = IF P[a] = NULL THEN c ELSE head
  BY <1>1 DEF RelList, RelReplaced
<1>6. IsOrdered((S \ {a}) \cup {c}, first, M, Q)
  BY <1>1, <1>4, <1>5, NodeReplaced
<1> QED
  BY <1>6 DEF RelList

\* ... and of the list of all blocks, without a block and with one more.
AllWithout(D, a, h, g) ==
  LET n == h.mcb[a].next
      p == h.mcb[a].prev
  IN  /\ p # NULL
      /\ \A x \in D \ {a} : /\ g.mcb[x].next = IF x = p THEN n ELSE h.mcb[x].next
                            /\ g.mcb[x].prev = IF x = n THEN p ELSE h.mcb[x].prev

AllWith(D, a, h, g) ==
  LET n == g.mcb[a].next
      p == g.mcb[a].prev
  IN  /\ IsNext(D, a, n) /\ IsPrev(D, a, p) /\ p # NULL
      /\ \A x \in D : /\ g.mcb[x].next = IF x = p THEN a ELSE h.mcb[x].next
                      /\ g.mcb[x].prev = IF x = n THEN a ELSE h.mcb[x].prev

LEMMA AllRemoved ==
  ASSUME NEW D \in SUBSET Nat, NEW h \in Heaps(D), NEW a \in D, NEW E, E = D \ {a},
         NEW g \in Heaps(E), AllList(D, h), AllWithout(D, a, h, g)
  PROVE  AllList(E, g)
PROOF
<1> PICK N, P, M, Q : /\ N = Links(h, "next") /\ P = Links(h, "prev")
                      /\ M = Links(g, "next") /\ Q = Links(g, "prev")
  OBVIOUS
<1>1. N[a] = h.mcb[a].next /\ P[a] = h.mcb[a].prev
  BY LinksRead
<1>2. ASSUME NEW x \in D \ {a}
      PROVE  /\ M[x] = IF x = P[a] THEN N[a] ELSE N[x]
             /\ Q[x] = IF x = N[a] THEN P[a] ELSE P[x]
  <2>1. /\ N[x] = h.mcb[x].next /\ P[x] = h.mcb[x].prev
        /\ M[x] = g.mcb[x].next /\ Q[x] = g.mcb[x].prev
    BY LinksRead
  <2> QED
    BY <1>1, <2>1 DEF AllWithout
<1>3. UnlinkedFrom(D, a, N, P, M, Q)
  BY <1>2 DEF UnlinkedFrom
<1>4. IsOrdered(D, 0, N, P) /\ 0 = IF P[a] = NULL THEN N[a] ELSE 0
  BY <1>1 DEF AllList, AllWithout
<1>5. IsOrdered(D \ {a}, 0, M, Q)
  BY <1>3, <1>4, NodeRemoved
<1> QED
  BY <1>5 DEF AllList

LEMMA AllAdded ==
  ASSUME NEW D \in SUBSET Nat, NEW h \in Heaps(D), NEW a \in Nat \ D, NEW E, E = D \cup {a},
         NEW g \in Heaps(E), AllList(D, h), AllWith(D, a, h, g)
  PROVE  AllList(E, g)
PROOF
<1> PICK N, P, M, Q : /\ N = Links(h, "next") /\ P = Links(h, "prev")
                      /\ M = Links(g, "next") /\ Q = Links(g, "prev")
  OBVIOUS
<1> PICK n, p : n = g.mcb[a].next /\ p = g.mcb[a].prev
  OBVIOUS
<1>1. M[a] = n /\ Q[a] = p
  BY LinksRead
<1>2. ASSUME NEW x \in D
      PROVE  /\ M[x] = IF x = p THEN a ELSE N[x]
             /\ Q[x] = IF x = n THEN a ELSE P[x]
  <2>1. /\ N[x] = h.mcb[x].next /\ P[x] = h.mcb[x].prev
        /\ M[x] = g.mcb[x].next /\ Q[x] = g.mcb[x].prev
    BY LinksRead
  <2> QED
    BY <2>1 DEF AllWith
<1>3. LinkedInto(D, a, p, n, N, P, M, Q)
  BY <1>1, <1>2 DEF LinkedInto
<1>4. /\ IsOrdered(D, 0, N, P) /\ IsNext(D, a, n) /\ IsPrev(D, a, p)
      /\ 0 = IF p = NULL THEN a ELSE 0
  BY DEF AllList, AllWith
<1>5. IsOrdered(D \cup {a}, 0, M, Q)
  BY <1>3, <1>4, NodeAdded
<1> QED
  BY <1>5 DEF AllList

\* What SplitBlock does to the MCBs: block c is the end of block a.
SplitOff(D, h, g, a, c, n) ==
  /\ \A x \in D \ {a} : g.mcb[x].size = h.mcb[x].size
  /\ g.mcb[a].size = n /\ g.mcb[c].size = h.mcb[a].size - n - MCBSize
  /\ SameMarks(D, h, g) /\ g.mcb[c].is_free = TRUE
  /\ g.mcb[a].rel_prev = h.mcb[a].rel_prev

\* The pointers SplitBlock writes, one at a time.
LEMMA SplitWrites ==
  ASSUME NEW h, NEW D, NEW F, NEW A, Lists(h, D, F, A), NEW a \in F,
         NEW n \in Nat, h.mcb[a].size > n + MCBSize,
         NEW c \in Nat \ D, c = start_address(a) + n, NEW E, E = D \cup {c},
         NEW next, NEW right, NEW left,
         next = h.mcb[a].next, right = h.mcb[a].rel_next, left = h.mcb[a].rel_prev,
         NEW g, g = SplitBlock(h, a, n)
  PROVE  /\ g \in Heaps(E) /\ SplitOff(D, h, g, a, c, n)
         /\ g.free_list = (IF left = NULL THEN c ELSE h.free_list)
         /\ g.allocated_list = h.allocated_list
         /\ g.mcb[a].next = c /\ g.mcb[c].next = next /\ g.mcb[c].prev = a
         /\ g.mcb[c].rel_next = right /\ g.mcb[c].rel_prev = left
         /\ \A x \in D \ {a} : g.mcb[x].next = h.mcb[x].next
         /\ \A x \in D : /\ g.mcb[x].prev = IF x = next THEN c ELSE h.mcb[x].prev
                         /\ g.mcb[x].rel_next = IF x = left THEN c ELSE h.mcb[x].rel_next
                         /\ g.mcb[x].rel_prev = IF x = right THEN c ELSE h.mcb[x].rel_prev
PROOF
<1>1. /\ D \in SUBSET Nat /\ h \in Heaps(D) /\ NULL \notin D /\ DOMAIN h.mcb = D
      /\ a \in D /\ a \in Nat /\ a # c /\ F \subseteq D
      /\ AllList(D, h) /\ RelList(F, h.free_list, h)
  BY ListsParts
<1>2. /\ IsNext(D, a, next) /\ IsPrev(D, a, h.mcb[a].prev) /\ next \in D \cup {NULL}
  BY <1>1, AllPointers
<1>3. IsNext(F, a, right) /\ right \in F \cup {NULL} /\ left \in F \cup {NULL}
  BY <1>1, RelPointers
<1>4. /\ E \in SUBSET Nat /\ a \in E /\ c \in E /\ c \in Ptr /\ a \in Ptr /\ NULL \in Ptr
      /\ next \in E \cup {NULL} /\ right \in E \cup {NULL} /\ left \in E \cup {NULL}
      /\ next \in Ptr /\ right \in Ptr /\ left \in Ptr
      /\ next # c /\ right # c /\ left # c
  <2>1. c # NULL
    BY NullAssumption
  <2> QED
    BY <1>1, <1>2, <1>3, <2>1 DEF Ptr
<1>5. right # a
  BY <1>1, <1>3 DEF IsNext
<1>6. PICK rest : rest = h.mcb[a].size - n - MCBSize
  OBVIOUS
<1>7. rest \in Nat
  <2>1. h.mcb[a].size \in Nat
    BY <1>1, HeapType
  <2> QED
    BY <1>6, <2>1, HeapAssumption
<1>8. PICK m : m = [size |-> rest, is_free |-> TRUE, next |-> next, prev |-> a,
                    rel_next |-> right, rel_prev |-> left]
  OBVIOUS
<1>9. /\ m \in MCB /\ m.size = rest /\ m.is_free = TRUE /\ m.next = next /\ m.prev = a
      /\ m.rel_next = right /\ m.rel_prev = left
  BY <1>4, <1>7, <1>8 DEF MCB
<1>10. PICK j : j = [h EXCEPT !.mcb = Put(@, c, m)]
  OBVIOUS
<1>11. /\ j \in Heaps(E) /\ j.free_list = h.free_list /\ j.allocated_list = h.allocated_list
       /\ j.mcb[c] = m /\ \A x \in D : j.mcb[x] = h.mcb[x]
  <2>1. PICK f : f = Put(h.mcb, c, m)
    OBVIOUS
  <2>2. h.mcb \in [D -> MCB]
    BY <1>1, HeapType
  <2>3. f \in [E -> MCB] /\ f[c] = m /\ \A x \in D : f[x] = h.mcb[x]
    BY <1>1, <1>9, <2>1, <2>2 DEF Put
  <2>4. j = [h EXCEPT !.mcb = f]
    BY <1>10, <2>1
  <2> QED
    BY <1>1, <2>3, <2>4 DEF Heaps
<1>12. PICK k : k = [j EXCEPT !.mcb[a].next = c, !.mcb[a].size = n]
  OBVIOUS
<1>13. /\ k \in Heaps(E) /\ k.free_list = h.free_list /\ k.allocated_list = h.allocated_list
       /\ \A x \in E \ {a} : k.mcb[x] = j.mcb[x]
       /\ k.mcb[a].next = c /\ k.mcb[a].size = n
       /\ k.mcb[a].is_free = j.mcb[a].is_free /\ k.mcb[a].prev = j.mcb[a].prev
       /\ k.mcb[a].rel_next = j.mcb[a].rel_next /\ k.mcb[a].rel_prev = j.mcb[a].rel_prev
  <2>1. PICK f : f = [j EXCEPT !.mcb[a].next = c]
    OBVIOUS
  <2>2. /\ f \in Heaps(E) /\ f.free_list = h.free_list /\ f.allocated_list = h.allocated_list
        /\ \A x \in E \ {a} : f.mcb[x] = j.mcb[x]
        /\ f.mcb[a].next = c
        /\ f.mcb[a].is_free = j.mcb[a].is_free /\ f.mcb[a].prev = j.mcb[a].prev
        /\ f.mcb[a].rel_next = j.mcb[a].rel_next /\ f.mcb[a].rel_prev = j.mcb[a].rel_prev
    BY ONLY <1>4, <1>11, <2>1 DEF Heaps, MCB
  <2>3. k = [f EXCEPT !.mcb[a].size = n]
    BY <1>12, <2>1
  <2> HIDE <1>10, <1>12, <2>1
  <2> QED
    BY ONLY <1>4, <2>2, <2>3, n \in Nat DEF Heaps, MCB
<1>14. PICK l : l = [k EXCEPT !.free_list = IF left = NULL THEN c ELSE @]
  OBVIOUS
<1>15. /\ l \in Heaps(E) /\ l.mcb = k.mcb /\ l.allocated_list = h.allocated_list
       /\ l.free_list = IF left = NULL THEN c ELSE h.free_list
  BY ONLY <1>4, <1>13, <1>14 DEF Heaps
<1>16. PICK u, v : u = Set(l, next, "prev", c) /\ v = Set(u, right, "rel_prev", c)
  OBVIOUS
<1>17. g = Set(v, left, "rel_next", c)
  <2>1. PICK added : added = [h EXCEPT !.mcb = Put(@, c, m), !.mcb[a].next = c, !.mcb[a].size = n,
                                       !.free_list = IF left = NULL THEN c ELSE @]
    OBVIOUS
  <2>2. added = l
    BY <1>10, <1>12, <1>14, <2>1
  <2>3. g = Set(Set(Set(added, next, "prev", c), right, "rel_prev", c), left, "rel_next", c)
    BY <1>6, <1>8, <2>1 DEF SplitBlock
  <2> QED
    BY <1>16, <2>2, <2>3
<1>18. IsSetPrev(D \cup {c}, l, u, next, c) /\ u \in Heaps(E)
  <2>1. IsSetPrev(E, l, Set(l, next, "prev", c), next, c)
    BY ONLY <1>4, <1>15, SetWrites
  <2> QED
    BY ONLY <1>16, <2>1, E = D \cup {c} DEF IsSetPrev
<1>19. IsSetRelPrev(D \cup {c}, u, v, right, c) /\ v \in Heaps(E)
  <2>1. IsSetRelPrev(E, u, Set(u, right, "rel_prev", c), right, c)
    BY ONLY <1>4, <1>18, SetWrites
  <2> QED
    BY ONLY <1>16, <2>1, E = D \cup {c} DEF IsSetRelPrev
<1>20. IsSetRelNext(D \cup {c}, v, g, left, c) /\ g \in Heaps(E)
  <2>1. IsSetRelNext(E, v, Set(v, left, "rel_next", c), left, c)
    BY ONLY <1>4, <1>19, SetWrites
  <2> QED
    BY ONLY <1>17, <2>1, E = D \cup {c} DEF IsSetRelNext
<1>21. \A x \in E : /\ g.mcb[x].size = l.mcb[x].size /\ g.mcb[x].is_free = l.mcb[x].is_free
                    /\ g.mcb[x].next = l.mcb[x].next
                    /\ g.mcb[x].prev = IF x = next THEN c ELSE l.mcb[x].prev
                    /\ g.mcb[x].rel_next = IF x = left THEN c ELSE l.mcb[x].rel_next
                    /\ g.mcb[x].rel_prev = IF x = right THEN c ELSE l.mcb[x].rel_prev
  BY ONLY <1>18, <1>19, <1>20, E = D \cup {c} DEF IsSetPrev, IsSetRelPrev, IsSetRelNext
<1>22. /\ g.free_list = (IF left = NULL THEN c ELSE h.free_list)
       /\ g.allocated_list = h.allocated_list
  BY ONLY <1>15, <1>18, <1>19, <1>20 DEF IsSetPrev, IsSetRelPrev, IsSetRelNext
<1>23. /\ g.mcb[a].size = n /\ g.mcb[a].next = c /\ g.mcb[a].rel_prev = h.mcb[a].rel_prev
       /\ g.mcb[a].is_free = h.mcb[a].is_free
  BY ONLY <1>1, <1>4, <1>5, <1>11, <1>13, <1>15, <1>21
<1>24. /\ g.mcb[c].size = rest /\ g.mcb[c].is_free = TRUE /\ g.mcb[c].next = next
       /\ g.mcb[c].prev = a /\ g.mcb[c].rel_next = right /\ g.mcb[c].rel_prev = left
  BY ONLY <1>1, <1>4, <1>9, <1>11, <1>13, <1>15, <1>21
<1>25. ASSUME NEW x \in D \ {a}
       PROVE  /\ g.mcb[x].size = h.mcb[x].size /\ g.mcb[x].is_free = h.mcb[x].is_free
              /\ g.mcb[x].next = h.mcb[x].next
  BY <1>1, <1>11, <1>13, <1>15, <1>21
<1>26. ASSUME NEW x \in D
       PROVE  /\ g.mcb[x].prev = IF x = next THEN c ELSE h.mcb[x].prev
              /\ g.mcb[x].rel_next = IF x = left THEN c ELSE h.mcb[x].rel_next
              /\ g.mcb[x].rel_prev = IF x = right THEN c ELSE h.mcb[x].rel_prev
  BY <1>1, <1>11, <1>13, <1>15, <1>21
<1>27. SplitOff(D, h, g, a, c, n)
  BY <1>6, <1>23, <1>24, <1>25 DEF SplitOff, SameMarks
<1> QED
  BY <1>20, <1>22, <1>23, <1>24, <1>25, <1>26, <1>27

\* After a split the end of the block has its place on the lists; the block is
\* on neither the free list nor the allocated one.
LEMMA SplitSound ==
  ASSUME NEW h, NEW D, NEW F, NEW A, Lists(h, D, F, A), NEW a \in F,
         NEW n \in Nat, h.mcb[a].size > n + MCBSize,
         NEW c, c \in (0..HeapSize) \ D, c = start_address(a) + n, Gap(D, a, c),
         NEW g, g = SplitBlock(h, a, n)
  PROVE  Lists(g, D \cup {c}, (F \ {a}) \cup {c}, A) /\ SplitOff(D, h, g, a, c, n)
PROOF
<1>1. /\ D \in SUBSET Nat /\ D \in SUBSET (0..HeapSize) /\ h \in Heaps(D) /\ NULL \notin D
      /\ F \in SUBSET Nat /\ A \in SUBSET Nat /\ a \in D /\ a \in Nat
      /\ F \subseteq D /\ A \subseteq D /\ F \cap A = {}
      /\ AllList(D, h) /\ RelList(F, h.free_list, h) /\ RelList(A, h.allocated_list, h)
  BY ListsParts
<1>2. c \in Nat \ D /\ c \notin F /\ c \notin A /\ a < c
  <2>1. c \in Nat
    BY HeapAssumption
  <2>2. a < c
    BY <1>1, <2>1, HeapAssumption DEF start_address
  <2> QED
    BY <1>1, <2>1, <2>2
<1>3. PICK E, next, right, left : /\ E = D \cup {c} /\ next = h.mcb[a].next
                                  /\ right = h.mcb[a].rel_next /\ left = h.mcb[a].rel_prev
  OBVIOUS
<1>4. /\ g \in Heaps(E) /\ SplitOff(D, h, g, a, c, n)
      /\ g.free_list = (IF left = NULL THEN c ELSE h.free_list)
      /\ g.allocated_list = h.allocated_list
      /\ g.mcb[a].next = c /\ g.mcb[c].next = next /\ g.mcb[c].prev = a
      /\ g.mcb[c].rel_next = right /\ g.mcb[c].rel_prev = left
      /\ \A x \in D \ {a} : g.mcb[x].next = h.mcb[x].next
      /\ \A x \in D : /\ g.mcb[x].prev = IF x = next THEN c ELSE h.mcb[x].prev
                      /\ g.mcb[x].rel_next = IF x = left THEN c ELSE h.mcb[x].rel_next
                      /\ g.mcb[x].rel_prev = IF x = right THEN c ELSE h.mcb[x].rel_prev
  BY <1>2, <1>3, SplitWrites
<1>5. E \in SUBSET Nat /\ E \in SUBSET (0..HeapSize) /\ c \in E \ F /\ F \subseteq E /\ A \subseteq E
  BY <1>1, <1>2, <1>3
<1>6. AllList(E, g)
  <2>0. PICK prev : prev = h.mcb[a].prev
    OBVIOUS
  <2>1. IsNext(D, a, next) /\ IsPrev(D, a, prev)
    BY <1>1, <1>3, <2>0, AllPointers
  <2>2. IsNext(D, c, next) /\ IsPrev(D, c, a)
    BY ONLY <1>1, <1>2, <2>1, Gap(D, a, c), GapPlace
  <2>3. AllWith(D, c, h, g)
    BY <1>1, <1>4, <2>2 DEF AllWith
  <2> QED
    BY <1>1, <1>2, <1>3, <1>4, <2>3, AllAdded
<1>7. RelList((F \ {a}) \cup {c}, g.free_list, g)
  <2>1. Gap(F, a, c)
    BY <1>1 DEF Gap
  <2>2. RelReplaced(F, a, c, h.free_list, h, g.free_list, g)
    BY <1>1, <1>3, <1>4 DEF RelReplaced
  <2> QED
    BY <1>1, <1>2, <1>4, <1>5, <2>1, <2>2, RelReplace
<1>8. RelList(A, g.allocated_list, g)
  <2>1. left \in F \cup {NULL} /\ right \in F \cup {NULL}
    BY <1>1, <1>3, RelPointers
  <2>2. \A x \in A : x # left /\ x # right
    BY <1>1, <2>1
  <2>3. SameRel(A, h, g)
    BY <1>1, <1>4, <2>2 DEF SameRel
  <2>4. RelList(A, h.allocated_list, g)
    BY ONLY <1>1, <1>4, <1>5, <2>3, RelKept
  <2> QED
    BY <1>4, <2>4
<1>9. (F \ {a}) \cup {c} \subseteq E /\ ((F \ {a}) \cup {c}) \cap A = {}
  BY <1>1, <1>2, <1>5
<1>10. Lists(g, E, (F \ {a}) \cup {c}, A)
  BY <1>4, <1>5, <1>6, <1>7, <1>8, <1>9 DEF Lists
<1> QED
  BY <1>3, <1>4, <1>10

\* What Merge does to the MCBs: block b becomes a part of block a.
MergedInto(D, h, g, a, b) ==
  /\ \A x \in D \ {a, b} : g.mcb[x].size = h.mcb[x].size
  /\ g.mcb[a].size = h.mcb[a].size + h.mcb[b].size
  /\ SameMarks(D \ {b}, h, g)

\* The pointers Merge writes.
LEMMA MergeWrites ==
  ASSUME NEW h, NEW D, NEW F, NEW A, Lists(h, D, F, A), NEW a \in F, NEW b \in F,
         b = h.mcb[a].next, NEW E, E = D \ {b}, NEW next, NEW right,
         next = h.mcb[b].next, right = h.mcb[b].rel_next,
         NEW g, g = Merge(h, a)
  PROVE  /\ g \in Heaps(E) /\ MergedInto(D, h, g, a, b)
         /\ g.free_list = h.free_list /\ g.allocated_list = h.allocated_list
         /\ \A x \in E : /\ g.mcb[x].next = IF x = a THEN next ELSE h.mcb[x].next
                         /\ g.mcb[x].prev = IF x = next THEN a ELSE h.mcb[x].prev
                         /\ g.mcb[x].rel_next = IF x = a THEN right ELSE h.mcb[x].rel_next
                         /\ g.mcb[x].rel_prev = IF x = right THEN a ELSE h.mcb[x].rel_prev
PROOF
<1>1. /\ D \in SUBSET Nat /\ h \in Heaps(D) /\ NULL \notin D /\ DOMAIN h.mcb = D
      /\ a \in D /\ a \in Nat /\ b \in D /\ b \in Nat /\ F \subseteq D
      /\ AllList(D, h) /\ RelList(F, h.free_list, h)
  BY ListsParts
<1>2. IsNext(D, a, b) /\ next \in D \cup {NULL} /\ right \in D \cup {NULL}
  <2>1. IsNext(D, a, b)
    BY <1>1, AllPointers
  <2>2. next \in D \cup {NULL}
    BY <1>1, AllPointers
  <2>3. right \in F \cup {NULL}
    BY <1>1, RelPointers
  <2> QED
    BY <1>1, <2>1, <2>2, <2>3
<1>3. a # b
  BY <1>1, <1>2 DEF IsNext
<1>4. a \in Ptr /\ next \in Ptr /\ right \in Ptr
  BY <1>1, <1>2 DEF Ptr
<1>5. PICK sum : sum = h.mcb[a].size + h.mcb[b].size
  OBVIOUS
<1>6. sum \in Nat
  <2>1. h.mcb[a].size \in Nat /\ h.mcb[b].size \in Nat
    BY <1>1, HeapType
  <2> QED
    BY <1>5, <2>1
<1>7. PICK j, k, l : /\ j = [h EXCEPT !.mcb[a].size = sum]
                     /\ k = [j EXCEPT !.mcb[a].rel_next = right]
                     /\ l = [k EXCEPT !.mcb[a].next = next]
  OBVIOUS
<1>8. /\ j \in Heaps(D) /\ j.free_list = h.free_list /\ j.allocated_list = h.allocated_list
      /\ j.mcb[a].size = sum /\ \A x \in D \ {a} : j.mcb[x].size = h.mcb[x].size
      /\ \A x \in D : /\ j.mcb[x].is_free = h.mcb[x].is_free
                      /\ j.mcb[x].next = h.mcb[x].next /\ j.mcb[x].prev = h.mcb[x].prev
                      /\ j.mcb[x].rel_next = h.mcb[x].rel_next
                      /\ j.mcb[x].rel_prev = h.mcb[x].rel_prev
  BY ONLY <1>1, <1>6, <1>7 DEF Heaps, MCB
<1>9. IsSetRelNext(D, j, k, a, right)
  <2>1. IsSetRelNext(D, j, [j EXCEPT !.mcb[a].rel_next = right], a, right)
    BY ONLY <1>1, <1>4, <1>8, RelWrites
  <2> QED
    BY ONLY <1>7, <2>1
<1>10. k \in Heaps(D)
  BY <1>9 DEF IsSetRelNext
<1>11. /\ l \in Heaps(D) /\ l.free_list = k.free_list /\ l.allocated_list = k.allocated_list
       /\ \A x \in D : /\ l.mcb[x].size = k.mcb[x].size
                       /\ l.mcb[x].is_free = k.mcb[x].is_free
                       /\ l.mcb[x].next = IF x = a THEN next ELSE k.mcb[x].next
                       /\ l.mcb[x].prev = k.mcb[x].prev
                       /\ l.mcb[x].rel_next = k.mcb[x].rel_next
                       /\ l.mcb[x].rel_prev = k.mcb[x].rel_prev
  <2>1. l = [k EXCEPT !.mcb[a].next = next]
    BY <1>7
  <2>2. a \in D
    BY <1>1
  <2>3. l \in Heaps(D) /\ l.free_list = k.free_list /\ l.allocated_list = k.allocated_list
    BY ONLY <1>4, <1>10, <2>1, <2>2 DEF Heaps, MCB
  <2> QED
    BY ONLY <1>4, <1>10, <2>1, <2>2, <2>3 DEF Heaps, MCB
<1>12. PICK u, v : u = Set(l, right, "rel_prev", a) /\ v = Set(u, next, "prev", a)
  OBVIOUS
<1>13. IsSetRelPrev(D, l, u, right, a)
  <2>1. IsSetRelPrev(D, l, Set(l, right, "rel_prev", a), right, a)
    BY ONLY <1>1, <1>2, <1>4, <1>11, SetWrites
  <2> QED
    BY ONLY <1>12, <2>1
<1>14. u \in Heaps(D)
  BY <1>13 DEF IsSetRelPrev
<1>15. IsSetPrev(D, u, v, next, a)
  <2>1. IsSetPrev(D, u, Set(u, next, "prev", a), next, a)
    BY ONLY <1>1, <1>2, <1>4, <1>14, SetWrites
  <2> QED
    BY ONLY <1>12, <2>1
<1>16. v \in Heaps(D) /\ v.mcb \in [D -> MCB]
  BY <1>1, <1>15, HeapType DEF IsSetPrev
<1>17. g = [v EXCEPT !.mcb = Restrict(v.mcb, D \ {b})]
  <2>1. PICK grown : grown = [h EXCEPT !.mcb[a].size = @ + h.mcb[b].size,
                                       !.mcb[a].rel_next = right, !.mcb[a].next = next]
    OBVIOUS
  <2>2. grown = l
    <3>1. [h EXCEPT !.mcb[a].size = @ + h.mcb[b].size] = [h EXCEPT !.mcb[a].size = sum]
      BY <1>5
    <3> QED
      BY <1>7, <2>1, <3>1
  <2>3. DOMAIN v.mcb = D
    BY <1>16
  <2>4. g = [v EXCEPT !.mcb = Restrict(@, DOMAIN @ \ {b})]
    BY <1>12, <2>1, <2>2 DEF Merge
  <2> QED
    BY <2>3, <2>4
<1>18. /\ g \in Heaps(E) /\ g.free_list = v.free_list /\ g.allocated_list = v.allocated_list
       /\ \A x \in E : g.mcb[x] = v.mcb[x]
  <2>1. PICK f : f = Restrict(v.mcb, D \ {b})
    OBVIOUS
  <2>2. f \in [E -> MCB] /\ \A x \in E : f[x] = v.mcb[x]
    BY ONLY <1>1, <1>16, <2>1, E = D \ {b} DEF Restrict
  <2>3. g = [v EXCEPT !.mcb = f]
    BY <1>17, <2>1
  <2> QED
    BY ONLY <1>16, <2>2, <2>3 DEF Heaps
<1>19. E \subseteq D /\ a \in E /\ b \notin E
  BY <1>1, <1>3
<1>20. g.free_list = h.free_list /\ g.allocated_list = h.allocated_list
  BY ONLY <1>8, <1>9, <1>11, <1>13, <1>15, <1>18 DEF IsSetRelNext, IsSetRelPrev, IsSetPrev
<1>21. \A x \in D : /\ v.mcb[x].size = j.mcb[x].size /\ v.mcb[x].is_free = h.mcb[x].is_free
                    /\ v.mcb[x].next = IF x = a THEN next ELSE h.mcb[x].next
                    /\ v.mcb[x].prev = IF x = next THEN a ELSE h.mcb[x].prev
                    /\ v.mcb[x].rel_next = IF x = a THEN right ELSE h.mcb[x].rel_next
                    /\ v.mcb[x].rel_prev = IF x = right THEN a ELSE h.mcb[x].rel_prev
  BY ONLY <1>8, <1>9, <1>11, <1>13, <1>15 DEF IsSetRelNext, IsSetRelPrev, IsSetPrev
<1>22. \A x \in E : /\ g.mcb[x].size = j.mcb[x].size /\ g.mcb[x].is_free = h.mcb[x].is_free
                    /\ g.mcb[x].next = IF x = a THEN next ELSE h.mcb[x].next
                    /\ g.mcb[x].prev = IF x = next THEN a ELSE h.mcb[x].prev
                    /\ g.mcb[x].rel_next = IF x = a THEN right ELSE h.mcb[x].rel_next
                    /\ g.mcb[x].rel_prev = IF x = right THEN a ELSE h.mcb[x].rel_prev
  BY ONLY <1>18, <1>19, <1>21
<1>23. MergedInto(D, h, g, a, b)
  BY ONLY <1>5, <1>8, <1>19, <1>22, E = D \ {b} DEF MergedInto, SameMarks
<1> QED
  BY <1>18, <1>20, <1>22, <1>23

\* After a merge the lists are those of the blocks that are left.
LEMMA MergeSound ==
  ASSUME NEW h, NEW D, NEW F, NEW A, Lists(h, D, F, A), NEW a \in F, NEW b \in F,
         b = h.mcb[a].next, NEW g, g = Merge(h, a)
  PROVE  Lists(g, D \ {b}, F \ {b}, A) /\ MergedInto(D, h, g, a, b)
PROOF
<1>1. /\ D \in SUBSET Nat /\ D \in SUBSET (0..HeapSize) /\ h \in Heaps(D) /\ NULL \notin D
      /\ F \in SUBSET Nat /\ A \in SUBSET Nat /\ a \in D /\ b \in D /\ b \in Nat /\ a \in Nat
      /\ F \subseteq D /\ A \subseteq D /\ F \cap A = {}
      /\ AllList(D, h) /\ RelList(F, h.free_list, h) /\ RelList(A, h.allocated_list, h)
  BY ListsParts
<1>2. PICK E, next, right : E = D \ {b} /\ next = h.mcb[b].next /\ right = h.mcb[b].rel_next
  OBVIOUS
<1>3. /\ g \in Heaps(E) /\ MergedInto(D, h, g, a, b)
      /\ g.free_list = h.free_list /\ g.allocated_list = h.allocated_list
      /\ \A x \in E : /\ g.mcb[x].next = IF x = a THEN next ELSE h.mcb[x].next
                      /\ g.mcb[x].prev = IF x = next THEN a ELSE h.mcb[x].prev
                      /\ g.mcb[x].rel_next = IF x = a THEN right ELSE h.mcb[x].rel_next
                      /\ g.mcb[x].rel_prev = IF x = right THEN a ELSE h.mcb[x].rel_prev
  BY ONLY <1>2, Lists(h, D, F, A), a \in F, b \in F, b = h.mcb[a].next, g = Merge(h, a), MergeWrites
<1>4. E \in SUBSET Nat /\ E \in SUBSET (0..HeapSize) /\ F \ {b} \subseteq E /\ A \subseteq E
  BY <1>1, <1>2
<1>5. IsNext(D, a, b) /\ a < b
  <2>1. IsNext(D, a, b)
    BY <1>1, AllPointers
  <2>2. b # NULL
    BY <1>1
  <2> QED
    BY ONLY <2>1, <2>2 DEF IsNext
<1>6. h.mcb[b].prev = a
  <2>1. PICK p : p = h.mcb[b].prev
    OBVIOUS
  <2>2. IsPrev(D, b, p)
    BY <1>1, <2>1, AllPointers
  <2>3. IsPrev(D, b, a)
    BY ONLY <1>1, <1>5 DEF IsNext, IsPrev
  <2>4. p = a
    <3>1. b # NULL /\ a # NULL
      BY <1>1
    <3>2. p # NULL
      BY ONLY <1>1, <1>5, <2>2 DEF IsPrev
    <3>3. p \in D /\ p < b /\ (b <= a \/ a <= p)
      BY ONLY <1>1, <2>2, <3>2 DEF IsPrev
    <3>4. b <= p \/ p <= a
      BY ONLY <1>1, <2>3, <3>1, <3>3 DEF IsPrev
    <3>5. p \in Nat
      BY <1>1, <3>3
    <3> QED
      BY ONLY <1>1, <1>5, <3>3, <3>4, <3>5
  <2> QED
    BY <2>1, <2>4
<1>7. AllList(E, g)
  <2>1. AllWithout(D, b, h, g)
    BY ONLY <1>1, <1>2, <1>3, <1>6 DEF AllWithout
  <2> QED
    BY <1>1, <1>2, <1>3, <2>1, AllRemoved
<1>8. h.mcb[b].rel_prev = a
  <2>1. PICK p : p = h.mcb[b].rel_prev
    OBVIOUS
  <2>2. IsPrev(F, b, p)
    BY <1>1, <2>1, RelPointers
  <2>4. p = a
    <3>1. b # NULL /\ a # NULL
      BY <1>1
    <3>2. p # NULL
      <4>1. a \in F /\ ~(b <= a)
        BY <1>1, <1>5
      <4> QED
        BY ONLY <1>1, <2>2, <4>1 DEF IsPrev
    <3>3. p \in F /\ p < b /\ (b <= a \/ a <= p)
      BY <2>2, <3>2 DEF IsPrev
    <3>4. p <= a \/ b <= p
      BY <1>1, <1>5, <3>1, <3>3 DEF IsNext
    <3>5. p \in Nat
      BY <1>1, <3>3
    <3> QED
      BY ONLY <1>1, <1>5, <3>3, <3>4, <3>5
  <2> QED
    BY <2>1, <2>4
<1>9. RelList(F \ {b}, g.free_list, g)
  <2>1. RelWithout(F, b, h.free_list, h, g.free_list, g)
    BY <1>1, <1>2, <1>3, <1>4, <1>8 DEF RelWithout
  <2> QED
    BY <1>1, <1>3, <1>4, <2>1, RelRemoved
<1>10. RelList(A, g.allocated_list, g)
  <2>1. right \in F \cup {NULL}
    BY <1>1, <1>2, RelPointers
  <2>2. \A x \in A : x # right /\ x # a
    BY <1>1, <2>1
  <2>3. SameRel(A, h, g)
    BY <1>3, <1>4, <2>2 DEF SameRel
  <2>4. RelList(A, h.allocated_list, g)
    BY ONLY <1>1, <1>3, <1>4, <2>3, RelKept
  <2> QED
    BY <1>3, <2>4
<1>11. (F \ {b}) \cap A = {}
  BY <1>1
<1>12. Lists(g, E, F \ {b}, A)
  BY <1>3, <1>4, <1>7, <1>9, <1>10, <1>11 DEF Lists
<1> QED
  BY <1>2, <1>3, <1>12

-----------------------------------------------------------------------------

(***************************************************************************)
(* The row of blocks the lists stand for.                                  *)
(***************************************************************************)

\* Row s has the blocks of h at the addresses in D.
Describes(s, h, D) ==
  /\ s \in Seq(Block)
  /\ \A i \in 1..Len(s) : /\ s[i].addr \in D
                          /\ s[i].size = h.mcb[s[i].addr].size
                          /\ s[i].free = h.mcb[s[i].addr].is_free
  /\ \A x \in D : \E i \in 1..Len(s) : s[i].addr = x
  /\ \A i, j \in 1..Len(s) : i < j => s[i].addr < s[j].addr

\* The addresses of such a row.
LEMMA RowAddresses ==
  ASSUME NEW D \in SUBSET Nat, NEW h, NEW s, Describes(s, h, D),
         NEW t, t = [i \in 1..Len(s) |-> s[i].addr]
  PROVE  Enumerates(t, D) /\ Len(t) = Len(s)
PROOF
<1>1. s \in Seq(Block) /\ Len(s) \in Nat /\ \A i \in 1..Len(s) : s[i].addr \in Nat
  BY RowType DEF Describes
<1>2. t \in Seq(Nat) /\ Len(t) = Len(s) /\ \A i \in 1..Len(s) : t[i] = s[i].addr
  BY <1>1
<1> QED
  BY <1>2 DEF Enumerates, Describes

\* There is only one such row.
LEMMA OneRow ==
  ASSUME NEW D \in SUBSET Nat, NEW h, NEW s, NEW t, Describes(s, h, D), Describes(t, h, D)
  PROVE  s = t
PROOF
<1>1. PICK u, v : /\ u = [i \in 1..Len(s) |-> s[i].addr]
                  /\ v = [i \in 1..Len(t) |-> t[i].addr]
  OBVIOUS
<1>2. Enumerates(u, D) /\ Enumerates(v, D) /\ Len(u) = Len(s) /\ Len(v) = Len(t)
  BY <1>1, RowAddresses
<1>3. u = v
  BY <1>2, OneOrder
<1>4. s \in Seq(Block) /\ t \in Seq(Block)
  BY DEF Describes
<1>5. Len(s) = Len(t)
  BY <1>2, <1>3
<1>6. ASSUME NEW i \in 1..Len(s) PROVE s[i] = t[i]
  <2>1. s[i] \in Block /\ t[i] \in Block
    BY <1>4, <1>5, RowType
  <2>2. s[i].addr = t[i].addr
    BY <1>1, <1>3, <1>5
  <2>3. s[i].size = t[i].size /\ s[i].free = t[i].free
    BY <1>5, <2>2 DEF Describes
  <2> QED
    BY ONLY <2>1, <2>2, <2>3 DEF Block
<1> QED
  BY <1>4, <1>5, <1>6, SeqEqual

\* Row, for any heap.
RowOf(h) ==
  LET all == Chain(Links(h, "next"), 0)
  IN  [i \in DOMAIN all |-> [addr |-> all[i], size |-> h.mcb[all[i]].size,
                             free |-> h.mcb[all[i]].is_free]]

\* A walk along one of the lists meets its blocks in order.
LEMMA AllChain ==
  ASSUME NEW h, NEW D, NEW F, NEW A, Lists(h, D, F, A), NEW s, s = Chain(Links(h, "next"), 0)
  PROVE  Enumerates(s, D)
PROOF
<1>1. /\ D \in SUBSET Nat /\ D \in SUBSET (0..HeapSize) /\ h \in Heaps(D) /\ AllList(D, h)
  BY ListsParts
<1>2. PICK links : links = Links(h, "next")
  OBVIOUS
<1>3. AreLinks(links) /\ DOMAIN links = D \cup {NULL}
  BY <1>1, <1>2, LinksAre
<1>4. Leads(D, links) /\ IsFirst(D, 0)
  BY <1>1, <1>2, <1>3 DEF Leads, AllList, IsOrdered
<1>5. PICK t : Enumerates(t, D)
  BY <1>1, HeapAssumption, Enumerable
<1>6. IsListFrom(links, 0, t)
  BY <1>1, <1>4, <1>5, ListRead
<1>7. Chain(links, 0) = t
  BY <1>3, <1>6, ChainIsList
<1> QED
  BY <1>2, <1>5, <1>7

LEMMA RelChain ==
  ASSUME NEW D, D \in SUBSET (0..HeapSize), NEW h \in Heaps(D), NEW S, S \subseteq D,
         NEW head, RelList(S, head, h), NEW s, s = Chain(Links(h, "rel_next"), head)
  PROVE  Enumerates(s, S)
PROOF
<1>1. S \in SUBSET Nat /\ S \in SUBSET (0..HeapSize)
  BY HeapAssumption
<1>2. PICK links : links = Links(h, "rel_next")
  OBVIOUS
<1>3. AreLinks(links) /\ DOMAIN links = D \cup {NULL}
  BY <1>2, LinksAre
<1>4. Leads(S, links) /\ IsFirst(S, head)
  BY <1>2, <1>3 DEF Leads, RelList, IsOrdered
<1>5. PICK t : Enumerates(t, S)
  BY <1>1, HeapAssumption, Enumerable
<1>6. IsListFrom(links, head, t)
  BY <1>1, <1>4, <1>5, ListRead
<1>7. Chain(links, head) = t
  BY <1>3, <1>6, ChainIsList
<1> QED
  BY <1>2, <1>5, <1>7

\* What is read along the list of all blocks is the row of all blocks.
LEMMA RowDescribes ==
  ASSUME NEW h, NEW D, NEW F, NEW A, Lists(h, D, F, A), NEW r, r = RowOf(h)
  PROVE  Describes(r, h, D)
PROOF
<1>1. D \in SUBSET Nat /\ h \in Heaps(D)
  BY ListsParts
<1>2. PICK all : all = Chain(Links(h, "next"), 0)
  OBVIOUS
<1>3. Enumerates(all, D)
  BY <1>2, AllChain
<1>4. /\ Len(all) \in Nat /\ DOMAIN all = 1..Len(all)
      /\ \A i \in 1..Len(all) : all[i] \in Nat /\ all[i] \in D
  BY <1>3, ElementOfSeq, LenProperties DEF Enumerates
<1>5. r = [i \in 1..Len(all) |-> [addr |-> all[i], size |-> h.mcb[all[i]].size,
                                  free |-> h.mcb[all[i]].is_free]]
  BY <1>2, <1>4 DEF RowOf
<1>6. \A i \in 1..Len(all) : /\ r[i] \in Block /\ r[i].addr = all[i]
                             /\ r[i].size = h.mcb[all[i]].size
                             /\ r[i].free = h.mcb[all[i]].is_free
  <2> TAKE i \in 1..Len(all)
  <2>1. h.mcb[all[i]].size \in Nat /\ h.mcb[all[i]].is_free \in BOOLEAN
    BY <1>1, <1>4, HeapType
  <2>2. r[i] = [addr |-> all[i], size |-> h.mcb[all[i]].size, free |-> h.mcb[all[i]].is_free]
    BY <1>5
  <2> QED
    BY <1>4, <2>1, <2>2 DEF Block
<1>7. r \in Seq(Block) /\ Len(r) = Len(all)
  <2>1. r \in [1..Len(all) -> Block]
    BY <1>5, <1>6
  <2> QED
    BY <1>4, <2>1
<1> QED
  BY <1>3, <1>4, <1>6, <1>7 DEF Describes, Enumerates

\* Every block of the heap is on the list its mark says.
Whole(h, D, F, A) ==
  /\ Lists(h, D, F, A) /\ D = F \cup A
  /\ \A x \in F : h.mcb[x].is_free = TRUE
  /\ \A x \in A : h.mcb[x].is_free = FALSE

\* What the row says of the addresses: no block reaches into another ...
LaidOut(h, D) ==
  \A x \in D : /\ x + MCBSize + h.mcb[x].size <= HeapSize
               /\ \A y \in D : x < y => x + MCBSize + h.mcb[x].size <= y

\* ... and no free block follows a free block.
Merged(F, D) == \A x, y \in F : ~IsNext(D, x, y)

\* What each of its blocks is, and the order of their places.
RowFacts(s, h, D) ==
  /\ s \in Seq(Block) /\ Len(s) \in Nat /\ DOMAIN s = 1..Len(s)
  /\ \A i \in 1..Len(s) : /\ s[i] \in Block /\ s[i].addr \in D /\ s[i].addr \in Nat
                          /\ s[i].size = h.mcb[s[i].addr].size /\ s[i].size \in Nat
                          /\ s[i].free = h.mcb[s[i].addr].is_free
  /\ \A x \in D : \E i \in 1..Len(s) : s[i].addr = x
  /\ \A i, j \in 1..Len(s) : s[i].addr < s[j].addr <=> i < j

\* The place of a block in the row.
LEMMA InRow ==
  ASSUME NEW D \in SUBSET Nat, NEW h, NEW s, Describes(s, h, D)
  PROVE  RowFacts(s, h, D)
PROOF
<1>1. s \in Seq(Block) /\ \A i, j \in 1..Len(s) : i < j => s[i].addr < s[j].addr
  BY DEF Describes
<1>2. /\ Len(s) \in Nat /\ DOMAIN s = 1..Len(s)
      /\ \A i \in 1..Len(s) : s[i] \in Block /\ s[i].addr \in Nat /\ s[i].size \in Nat
  BY <1>1, RowType
<1>3. ASSUME NEW i \in 1..Len(s), NEW j \in 1..Len(s)
      PROVE  s[i].addr < s[j].addr <=> i < j
  <2>1. i < j => s[i].addr < s[j].addr
    BY <1>1
  <2>2. j < i => s[j].addr < s[i].addr
    BY <1>1
  <2>3. i = j => s[i].addr = s[j].addr
    OBVIOUS
  <2>4. s[i].addr \in Nat /\ s[j].addr \in Nat /\ i \in Nat /\ j \in Nat
    BY <1>2
  <2> QED
    BY ONLY <2>1, <2>2, <2>3, <2>4
<1> QED
  BY <1>1, <1>2, <1>3 DEF Describes, RowFacts

\* The successor in the row is the successor in the list, ...
LEMMA RowNeighbours ==
  ASSUME NEW D \in SUBSET Nat, NEW h, NEW s, Describes(s, h, D), NEW i \in 1..Len(s),
         NEW n, NEW p, IsNext(D, s[i].addr, n), IsPrev(D, s[i].addr, p)
  PROVE  /\ n = IF i + 1 \in 1..Len(s) THEN s[i + 1].addr ELSE NULL
         /\ p = IF i - 1 \in 1..Len(s) THEN s[i - 1].addr ELSE NULL
PROOF
<1>1. /\ Len(s) \in Nat
      /\ \A j \in 1..Len(s) : s[j].addr \in D /\ s[j].addr \in Nat
      /\ \A x \in D : \E j \in 1..Len(s) : s[j].addr = x
      /\ \A j, k \in 1..Len(s) : s[j].addr < s[k].addr <=> j < k
  <2>1. RowFacts(s, h, D)
    BY InRow
  <2> QED
    BY <2>1 DEF RowFacts
<1>2. PICK a : a = s[i].addr
  OBVIOUS
<1>3. a \in D /\ a \in Nat /\ a # NULL
  BY <1>1, <1>2, NullAssumption
<1>4. n = IF i + 1 \in 1..Len(s) THEN s[i + 1].addr ELSE NULL
  <2>1. CASE n = NULL
    <3>1. \A b \in D : b <= a
      BY <1>2, <2>1, NextCases
    <3>2. ASSUME i + 1 \in 1..Len(s) PROVE FALSE
      <4>1. s[i + 1].addr \in D /\ s[i + 1].addr \in Nat /\ a < s[i + 1].addr
        BY <1>1, <1>2, <3>2
      <4> QED
        BY <1>3, <3>1, <4>1
    <3> QED
      BY <2>1, <3>2
  <2>2. CASE n # NULL
    <3>1. n \in D /\ a < n /\ \A b \in D : b <= a \/ n <= b
      BY <1>2, <2>2, NextCases
    <3>2. PICK k \in 1..Len(s) : s[k].addr = n
      BY <1>1, <3>1
    <3>3. i < k
      BY <1>1, <1>2, <3>1, <3>2
    <3>4. i + 1 \in 1..Len(s)
      BY <1>1, <3>3
    <3>5. PICK b : b = s[i + 1].addr
      OBVIOUS
    <3>6. b \in D /\ b \in Nat /\ n \in Nat /\ a < b
      BY <1>1, <1>2, <3>1, <3>4, <3>5
    <3>7. n <= b
      BY <1>3, <3>1, <3>6
    <3>8. ~(n < b)
      <4>1. n < b <=> k < i + 1
        BY <1>1, <3>2, <3>4, <3>5
      <4> QED
        BY <3>3, <4>1
    <3> QED
      BY <3>4, <3>5, <3>6, <3>7, <3>8
  <2> QED
    BY <2>1, <2>2
<1>5. p = IF i - 1 \in 1..Len(s) THEN s[i - 1].addr ELSE NULL
  <2>1. CASE p = NULL
    <3>1. \A b \in D : a <= b
      BY <1>2, <2>1, PrevCases
    <3>2. ASSUME i - 1 \in 1..Len(s) PROVE FALSE
      <4>1. s[i - 1].addr \in D /\ s[i - 1].addr \in Nat /\ s[i - 1].addr < a
        BY <1>1, <1>2, <3>2
      <4> QED
        BY <1>3, <3>1, <4>1
    <3> QED
      BY <2>1, <3>2
  <2>2. CASE p # NULL
    <3>1. p \in D /\ p < a /\ \A b \in D : a <= b \/ b <= p
      BY <1>2, <2>2, PrevCases
    <3>2. PICK k \in 1..Len(s) : s[k].addr = p
      BY <1>1, <3>1
    <3>3. k < i
      BY <1>1, <1>2, <3>1, <3>2
    <3>4. i - 1 \in 1..Len(s)
      BY <1>1, <3>3
    <3>5. PICK b : b = s[i - 1].addr
      OBVIOUS
    <3>6. b \in D /\ b \in Nat /\ p \in Nat /\ b < a
      BY <1>1, <1>2, <3>1, <3>4, <3>5
    <3>7. b <= p
      BY <1>3, <3>1, <3>6
    <3>8. ~(b < p)
      <4>1. b < p <=> i - 1 < k
        BY <1>1, <3>2, <3>4, <3>5
      <4> QED
        BY <3>3, <4>1
    <3> QED
      BY <3>4, <3>5, <3>6, <3>7, <3>8
  <2> QED
    BY <2>1, <2>2
<1> QED
  BY <1>4, <1>5

\* ... so the lists have the layout of the row, ...
LEMMA RowLayout ==
  ASSUME NEW D \in SUBSET Nat, NEW h, NEW s, Describes(s, h, D), Apart(s)
  PROVE  LaidOut(h, D)
PROOF
<1>1. /\ Len(s) \in Nat /\ DOMAIN s = 1..Len(s)
      /\ \A j \in 1..Len(s) : s[j].size = h.mcb[s[j].addr].size
      /\ \A x \in D : \E j \in 1..Len(s) : s[j].addr = x
      /\ \A j, k \in 1..Len(s) : s[j].addr < s[k].addr <=> j < k
  <2>1. RowFacts(s, h, D)
    BY InRow
  <2> QED
    BY <2>1 DEF RowFacts
<1>2. ASSUME NEW x \in D
      PROVE  /\ x + MCBSize + h.mcb[x].size <= HeapSize
             /\ \A y \in D : x < y => x + MCBSize + h.mcb[x].size <= y
  <2>1. PICK i \in 1..Len(s) : s[i].addr = x
    BY <1>1
  <2>2. End(s, i) = x + MCBSize + h.mcb[x].size
    BY <1>1, <2>1 DEF End
  <2>3. End(s, i) <= HeapSize
    BY <1>1 DEF Apart
  <2>4. ASSUME NEW y \in D, x < y PROVE End(s, i) <= y
    <3>1. PICK j \in 1..Len(s) : s[j].addr = y
      BY <1>1
    <3>2. i < j
      BY <1>1, <2>1, <2>4, <3>1
    <3> QED
      BY <1>1, <3>1, <3>2 DEF Apart
  <2> QED
    BY <2>2, <2>3, <2>4
<1> QED
  BY <1>2 DEF LaidOut

\* ... and no free blocks side by side.
LEMMA RowMerged ==
  ASSUME NEW D, NEW F, NEW A, NEW h, Whole(h, D, F, A), Describes(blocks, h, D), Coalesced
  PROVE  Merged(F, D)
PROOF
<1>1. D \in SUBSET Nat /\ F \subseteq D /\ NULL \notin D /\ h \in Heaps(D) /\ AllList(D, h)
  BY ListsParts DEF Whole
<1> SUFFICES ASSUME NEW x \in F, NEW y \in F, IsNext(D, x, y) PROVE FALSE
  BY DEF Merged
<1>2. /\ Len(blocks) \in Nat /\ DOMAIN blocks = 1..Len(blocks)
      /\ \A j \in 1..Len(blocks) : blocks[j].free = h.mcb[blocks[j].addr].is_free
      /\ \A z \in D : \E j \in 1..Len(blocks) : blocks[j].addr = z
  <2>1. RowFacts(blocks, h, D)
    BY <1>1, InRow
  <2> QED
    BY <2>1 DEF RowFacts
<1>3. PICK i \in 1..Len(blocks) : blocks[i].addr = x
  BY <1>1, <1>2
<1>4. PICK p : IsPrev(D, blocks[i].addr, p)
  BY <1>1, <1>3, AllPointers
<1>5. IsNext(D, blocks[i].addr, y)
  BY <1>3
<1>6. y = IF i + 1 \in 1..Len(blocks) THEN blocks[i + 1].addr ELSE NULL
  BY <1>1, <1>4, <1>5, RowNeighbours
<1>7. i + 1 \in 1..Len(blocks) /\ blocks[i + 1].addr = y
  BY <1>1, <1>6
<1>8. blocks[i].free /\ blocks[i + 1].free
  BY <1>2, <1>3, <1>7 DEF Whole
<1> QED
  BY <1>2, <1>7, <1>8 DEF Coalesced, IsFree

\* A block gets another mark, ...
LEMMA RowMarked ==
  ASSUME NEW D \in SUBSET Nat, NEW h, NEW s, Describes(s, h, D), NEW i \in 1..Len(s),
         NEW f \in BOOLEAN, NEW a, a = s[i].addr, NEW g, SameBlocks(D, h, g),
         SameMarks(D \ {a}, h, g), g.mcb[a].is_free = f,
         NEW r, r = [s EXCEPT ![i].free = f]
  PROVE  Describes(r, g, D)
PROOF
<1>1. RowFacts(s, h, D)
  BY InRow
<1>2. /\ s \in Seq(Block) /\ Len(s) \in Nat
      /\ \A j \in 1..Len(s) : /\ s[j] \in Block /\ s[j].addr \in D /\ s[j].addr \in Nat
                              /\ s[j].size = h.mcb[s[j].addr].size
                              /\ s[j].free = h.mcb[s[j].addr].is_free
      /\ \A j, k \in 1..Len(s) : s[j].addr < s[k].addr <=> j < k
  BY <1>1 DEF RowFacts
<1>3. PICK b : b = [addr |-> s[i].addr, size |-> s[i].size, free |-> f]
  OBVIOUS
<1>4. b \in Block /\ b.addr = s[i].addr /\ b.size = s[i].size /\ b.free = f
  BY <1>2, <1>3 DEF Block
<1>5. r = [s EXCEPT ![i] = b]
  <2>1. [s[i] EXCEPT !.free = f] = b
    BY <1>2, <1>3, FieldsKept
  <2> QED
    BY <2>1
<1>6. /\ r \in Seq(Block) /\ Len(r) = Len(s)
      /\ \A j \in 1..Len(s) : r[j] = IF j = i THEN b ELSE s[j]
  <2>1. /\ [s EXCEPT ![i] = b] \in Seq(Block)
        /\ Len([s EXCEPT ![i] = b]) = Len(s)
        /\ \A j \in 1..Len(s) : [s EXCEPT ![i] = b][j] = IF j = i THEN b ELSE s[j]
    BY ONLY <1>2, <1>4, i \in 1..Len(s), UpdatedRow
  <2> QED
    BY ONLY <1>5, <2>1
<1> HIDE <1>3, <1>5
<1>7. \A j \in 1..Len(s) : r[j].addr = s[j].addr
  BY <1>4, <1>6
<1>8. ASSUME NEW j \in 1..Len(s)
      PROVE  /\ r[j].addr \in D /\ r[j].size = g.mcb[r[j].addr].size
             /\ r[j].free = g.mcb[r[j].addr].is_free
  <2>1. CASE j = i
    <3>1. r[j] = b /\ r[j].addr = a /\ a \in D
      BY <1>2, <1>4, <1>6, <2>1
    <3> QED
      BY <1>2, <1>4, <2>1, <3>1 DEF SameBlocks
  <2>2. CASE j # i
    <3>1. r[j] = s[j]
      BY <1>6, <2>2
    <3>2. s[j].addr # a
      <4>1. j < i \/ i < j
        BY <2>2
      <4> QED
        BY <1>2, <4>1
    <3> QED
      BY <1>2, <3>1, <3>2 DEF SameBlocks, SameMarks
  <2> QED
    BY <2>1, <2>2
<1>9. \A x \in D : \E j \in 1..Len(r) : r[j].addr = x
  BY <1>6, <1>7 DEF Describes
<1>10. \A j, k \in 1..Len(r) : j < k => r[j].addr < r[k].addr
  BY <1>2, <1>6, <1>7
<1> QED
  BY <1>6, <1>8, <1>9, <1>10 DEF Describes

\* ... is split, ...
IsSplit(s, r, i, b, e) ==
  /\ r \in Seq(Block) /\ Len(r) = Len(s) + 1
  /\ \A j \in 1..(i - 1) : r[j] = s[j]
  /\ r[i] = b /\ r[i + 1] = e
  /\ \A j \in (i + 1)..Len(s) : r[j + 1] = s[j]

LEMMA InsertSplits ==
  ASSUME NEW s \in Seq(Block), NEW i \in 1..Len(s), NEW b \in Block, NEW e \in Block,
         NEW r, r = InsertAt([s EXCEPT ![i] = b], i + 1, e)
  PROVE  IsSplit(s, r, i, b, e)
PROOF
<1>1. PICK u, k, L : u = [s EXCEPT ![i] = b] /\ k = i + 1 /\ L = Len(s)
  OBVIOUS
<1>2. L \in Nat /\ i \in 1..L
  BY <1>1, LenProperties
<1>3. /\ u \in Seq(Block) /\ Len(u) = L
      /\ \A j \in 1..L : u[j] = IF j = i THEN b ELSE s[j]
  <2>1. /\ [s EXCEPT ![i] = b] \in Seq(Block)
        /\ Len([s EXCEPT ![i] = b]) = Len(s)
        /\ \A j \in 1..Len(s) : [s EXCEPT ![i] = b][j] = IF j = i THEN b ELSE s[j]
    BY ONLY s \in Seq(Block), i \in 1..Len(s), b \in Block, UpdatedRow
  <2> QED
    BY ONLY <1>1, <2>1
<1>4. k \in 1..(Len(u) + 1)
  BY ONLY <1>1, <1>2, <1>3
<1>5. PICK t : t = InsertAt(u, k, e)
  OBVIOUS
<1>6. /\ t \in Seq(Block) /\ Len(t) = Len(u) + 1
      /\ \A j \in 1..(k - 1) : t[j] = u[j]
      /\ t[k] = e
      /\ \A j \in k..Len(u) : t[j + 1] = u[j]
  <2>1. /\ InsertAt(u, k, e) \in Seq(Block)
        /\ Len(InsertAt(u, k, e)) = Len(u) + 1
        /\ \A j \in 1..(k - 1) : InsertAt(u, k, e)[j] = u[j]
        /\ InsertAt(u, k, e)[k] = e
        /\ \A j \in k..Len(u) : InsertAt(u, k, e)[j + 1] = u[j]
    BY ONLY <1>3, <1>4, e \in Block, InsertedRow
  <2> QED
    BY ONLY <1>5, <2>1
<1>7. t = r
  BY <1>1, <1>5
<1>8. k = i + 1 /\ L = Len(s)
  BY <1>1
<1>9. \A j \in 1..(i - 1) : t[j] = s[j]
  <2> TAKE j \in 1..(i - 1)
  <2>1. j \in 1..(k - 1) /\ j \in 1..L /\ j # i
    BY ONLY <1>2, <1>8, j \in 1..(i - 1)
  <2> QED
    BY ONLY <1>3, <1>6, <2>1
<1>10. t[i] = b
  <2>1. i \in 1..(k - 1)
    BY ONLY <1>2, <1>8
  <2> QED
    BY ONLY <1>2, <1>3, <1>6, <2>1
<1>11. \A j \in (i + 1)..L : t[j + 1] = s[j]
  BY ONLY <1>2, <1>3, <1>6, <1>8
<1> QED
  BY ONLY <1>3, <1>6, <1>7, <1>8, <1>9, <1>10, <1>11 DEF IsSplit

LEMMA RowSplit ==
  ASSUME NEW D \in SUBSET Nat, NEW h, NEW s, Describes(s, h, D), NEW i \in 1..Len(s),
         NEW n \in Nat, NEW a, a = s[i].addr, NEW c \in Nat \ D, a < c, Gap(D, a, c),
         s[i].size > n + MCBSize,
         NEW g, NEW k, SplitOff(D, h, k, a, c, n), SameBlocks(D \cup {c}, k, g),
         SameMarks((D \cup {c}) \ {a}, k, g), g.mcb[a].is_free = FALSE,
         NEW b, NEW e, NEW r, IsSplit(s, r, i, b, e),
         b = [addr |-> a, size |-> n, free |-> FALSE],
         e = [addr |-> c, size |-> s[i].size - n - MCBSize, free |-> TRUE]
  PROVE  Describes(r, g, D \cup {c})
PROOF
<1>1. RowFacts(s, h, D)
  BY InRow
<1>2. /\ s \in Seq(Block) /\ Len(s) \in Nat
      /\ \A j \in 1..Len(s) : /\ s[j] \in Block /\ s[j].addr \in D /\ s[j].addr \in Nat
                              /\ s[j].size = h.mcb[s[j].addr].size /\ s[j].size \in Nat
                              /\ s[j].free = h.mcb[s[j].addr].is_free
      /\ \A j, l \in 1..Len(s) : s[j].addr < s[l].addr <=> j < l
      /\ \A x \in D : \E j \in 1..Len(s) : s[j].addr = x
  BY <1>1 DEF RowFacts
<1>3. PICK L : L = Len(s)
  OBVIOUS
<1>4. a \in D /\ a \in Nat /\ c \in Nat /\ L \in Nat /\ i \in 1..L /\ n \in Nat
  BY <1>2, <1>3
<1>5. b.addr = a /\ b.size = n /\ b.free = FALSE
  OBVIOUS
<1>6. e.addr = c /\ e.size = s[i].size - n - MCBSize /\ e.free = TRUE
  OBVIOUS
<1>7. L = Len(s)
  BY <1>3
<1>8. r \in Seq(Block) /\ Len(r) = L + 1
  BY <1>7 DEF IsSplit
<1>9. (\A j \in 1..(i - 1) : r[j] = s[j]) /\ r[i] = b /\ r[i + 1] = e
  BY DEF IsSplit
<1>10. \A j \in (i + 1)..L : r[j + 1] = s[j]
  BY <1>7 DEF IsSplit
<1>11. \A j \in (i + 2)..(L + 1) : r[j] = s[j - 1]
  <2> TAKE j \in (i + 2)..(L + 1)
  <2>1. j - 1 \in (i + 1)..L /\ (j - 1) + 1 = j
    BY ONLY <1>4, j \in (i + 2)..(L + 1)
  <2> QED
    BY <1>10, <2>1
<1>12. \A j \in 1..L : r[IF j <= i THEN j ELSE j + 1].addr = s[j].addr
  <2> TAKE j \in 1..L
  <2>1. CASE j < i
    <3>1. j \in 1..(i - 1) /\ j <= i
      BY ONLY <1>4, <2>1, j \in 1..L
    <3> QED
      BY <1>9, <3>1
  <2>2. CASE j = i
    <3>1. j <= i /\ r[j].addr = s[j].addr
      BY <1>4, <1>5, <1>9, <2>2
    <3> QED
      BY <3>1
  <2>3. CASE j > i
    <3>1. j + 1 \in (i + 2)..(L + 1) /\ (j + 1) - 1 = j
      BY <1>4, <2>3
    <3>2. r[j + 1] = s[j]
      BY <1>11, <3>1
    <3> QED
      BY <1>4, <2>3, <3>2
  <2> QED
    BY <1>4, <2>1, <2>2, <2>3
<1>13. ASSUME NEW x \in D \cup {c} PROVE \E j \in 1..Len(r) : r[j].addr = x
  <2>1. CASE x = c
    <3>1. i + 1 \in 1..Len(r)
      BY <1>4, <1>8
    <3> QED
      BY <1>4, <1>6, <1>9, <2>1, <3>1
  <2>2. CASE x \in D
    <3>1. PICK j \in 1..L : s[j].addr = x
      BY <1>2, <1>7, <2>2
    <3>2. (IF j <= i THEN j ELSE j + 1) \in 1..Len(r)
      BY <1>4, <1>8
    <3> QED
      BY <1>12, <3>1, <3>2
  <2> QED
    BY <2>1, <2>2
<1>14. ASSUME NEW j \in 1..L, j # i
       PROVE  /\ s[j].addr \in D \ {a} /\ s[j].addr \in Nat
              /\ s[j].size = g.mcb[s[j].addr].size
              /\ s[j].free = g.mcb[s[j].addr].is_free
  <2>1. j < i \/ i < j
    BY <1>4, <1>14
  <2>2. s[j].addr \in D \ {a} /\ s[j].addr \in Nat
    BY <1>2, <1>4, <1>7, <2>1
  <2>3. /\ s[j].size = h.mcb[s[j].addr].size
        /\ s[j].free = h.mcb[s[j].addr].is_free
    BY <1>2, <1>7
  <2>4. PICK x \in D \ {a} : x = s[j].addr
    BY <2>2
  <2>5. h.mcb[x].size = k.mcb[x].size /\ h.mcb[x].is_free = k.mcb[x].is_free
    BY DEF SplitOff, SameMarks
  <2>6. k.mcb[x].size = g.mcb[x].size /\ k.mcb[x].is_free = g.mcb[x].is_free
    BY DEF SameBlocks, SameMarks
  <2> QED
    BY ONLY <2>2, <2>3, <2>4, <2>5, <2>6
<1>15. ASSUME NEW j \in 1..Len(r)
       PROVE  /\ r[j].addr \in D \cup {c} /\ r[j].size = g.mcb[r[j].addr].size
              /\ r[j].free = g.mcb[r[j].addr].is_free
  <2>1. CASE j < i
    <3>1. j \in 1..(i - 1) /\ j \in 1..L /\ j # i
      BY ONLY <1>4, <1>8, <2>1, j \in 1..Len(r)
    <3>2. r[j] = s[j]
      BY <1>9, <3>1
    <3> QED
      BY <1>14, <3>1, <3>2
  <2>2. CASE j = i
    <3>1. g.mcb[a].size = n
      BY <1>4 DEF SameBlocks, SplitOff
    <3> QED
      BY <1>4, <1>5, <1>9, <2>2, <3>1
  <2>3. CASE j = i + 1
    <3>1. g.mcb[c].size = h.mcb[a].size - n - MCBSize /\ g.mcb[c].is_free = TRUE
      BY <1>4 DEF SameBlocks, SameMarks, SplitOff
    <3>2. s[i].size = h.mcb[a].size
      BY <1>2
    <3> QED
      BY <1>4, <1>6, <1>9, <2>3, <3>1, <3>2
  <2>4. CASE j > i + 1
    <3>1. j \in (i + 2)..(L + 1) /\ j - 1 \in 1..L /\ j - 1 # i
      BY <1>4, <1>8, <2>4
    <3>2. r[j] = s[j - 1]
      BY <1>11, <3>1
    <3> QED
      BY <1>14, <3>1, <3>2
  <2>5. j < i \/ j = i \/ j = i + 1 \/ j > i + 1
    BY ONLY <1>4, <1>8, j \in 1..Len(r)
  <2> QED
    BY <2>1, <2>2, <2>3, <2>4, <2>5
<1>16. ASSUME NEW j \in 1..L, NEW l \in 1..L, j < l PROVE s[j].addr < s[l].addr
  BY <1>2, <1>7, <1>16
<1>17. ASSUME NEW j \in 1..L, j > i PROVE c < s[j].addr
  <2>1. a < s[j].addr /\ s[j].addr \in D /\ s[j].addr \in Nat
    BY <1>2, <1>4, <1>7, <1>17
  <2>2. s[j].addr <= a \/ c < s[j].addr
    BY <2>1 DEF Gap
  <2> QED
    BY ONLY <1>4, <2>1, <2>2
<1>18. ASSUME NEW j \in 1..L, j <= i PROVE s[j].addr < c
  <2>1. s[j].addr = a \/ s[j].addr < a
    BY <1>2, <1>4, <1>7, <1>18
  <2>2. s[j].addr \in Nat
    BY <1>2, <1>7
  <2> QED
    BY ONLY <1>4, <2>1, <2>2, a < c
<1>19. ASSUME NEW j \in 1..Len(r), NEW l \in 1..Len(r), j < l PROVE r[j].addr < r[l].addr
  <2>1. CASE l <= i
    <3>1. j \in 1..L /\ l \in 1..L /\ j <= i
      BY <1>4, <1>8, <1>19, <2>1
    <3>2. r[j].addr = s[j].addr /\ r[l].addr = s[l].addr
      BY <1>12, <2>1, <3>1
    <3> QED
      BY <1>16, <1>19, <3>1, <3>2
  <2>2. CASE l = i + 1
    <3>1. j \in 1..L /\ j <= i
      BY <1>4, <1>8, <1>19, <2>2
    <3>2. r[j].addr = s[j].addr
      BY <1>12, <3>1
    <3> QED
      BY <1>4, <1>6, <1>9, <1>18, <2>2, <3>1, <3>2
  <2>3. CASE l > i + 1
    <3>1. l - 1 \in 1..L /\ ~(l - 1 <= i) /\ (l - 1) + 1 = l /\ l - 1 > i
      BY <1>4, <1>8, <2>3
    <3>2. r[l].addr = s[l - 1].addr
      BY <1>12, <3>1
    <3>3. CASE j <= i
      <4>1. j \in 1..L /\ j < l - 1
        BY <1>4, <1>8, <1>19, <2>3, <3>3
      <4>2. r[j].addr = s[j].addr
        BY <1>12, <3>3, <4>1
      <4> QED
        BY <1>16, <3>1, <3>2, <4>1, <4>2
    <3>4. CASE j = i + 1
      BY <1>4, <1>6, <1>9, <1>17, <3>1, <3>2, <3>4
    <3>5. CASE j > i + 1
      <4>1. j - 1 \in 1..L /\ ~(j - 1 <= i) /\ (j - 1) + 1 = j /\ j - 1 < l - 1
        BY <1>4, <1>8, <1>19, <3>5
      <4>2. r[j].addr = s[j - 1].addr
        BY <1>12, <4>1
      <4> QED
        BY <1>16, <3>1, <3>2, <4>1, <4>2
    <3> QED
      BY <1>4, <3>3, <3>4, <3>5
  <2> QED
    BY <1>4, <1>8, <2>1, <2>2, <2>3
<1> QED
  BY <1>8, <1>13, <1>15, <1>19 DEF Describes

\* ... or takes in its successor.
IsAbsorbed(s, r, i) ==
  /\ r \in Seq(Block) /\ Len(r) = Len(s) - 1
  /\ \A j \in 1..(i - 1) : r[j] = s[j]
  /\ r[i].addr = s[i].addr /\ r[i].free = s[i].free /\ r[i].size = s[i].size + s[i + 1].size
  /\ \A j \in (i + 1)..(Len(s) - 1) : r[j] = s[j + 1]

LEMMA AbsorbShape ==
  ASSUME NEW s \in Seq(Block), NEW i \in 1..(Len(s) - 1), NEW r, r = Absorb(s, i)
  PROVE  IsAbsorbed(s, r, i)
PROOF
<1>1. PICK b, k, L : /\ b = [addr |-> s[i].addr, size |-> s[i].size + s[i + 1].size,
                             free |-> s[i].free]
                     /\ k = i + 1 /\ L = Len(s)
  OBVIOUS
<1>2. /\ L \in Nat /\ i \in 1..L /\ k \in 1..L /\ k = i + 1 /\ L = Len(s)
  BY <1>1, LenProperties
<1>3. s[i] \in Block /\ s[i + 1] \in Block
  BY <1>2, ElementOfSeq
<1>4. /\ b \in Block /\ b.addr = s[i].addr /\ b.free = s[i].free
      /\ b.size = s[i].size + s[i + 1].size
  BY <1>1, <1>3 DEF Block
<1>5. PICK u : u = [s EXCEPT ![i] = b]
  OBVIOUS
<1>6. r = RemoveAt(u, k)
  <2>1. [s[i] EXCEPT !.size = @ + s[i + 1].size] = b
    BY <1>1, <1>3, FieldsKept
  <2>2. [s EXCEPT ![i].size = @ + s[i + 1].size] = u
    BY <1>5, <2>1
  <2> QED
    BY <1>1, <2>2 DEF Absorb
<1>7. /\ u \in Seq(Block) /\ Len(u) = L
      /\ \A j \in 1..L : u[j] = IF j = i THEN b ELSE s[j]
  <2>1. /\ [s EXCEPT ![i] = b] \in Seq(Block)
        /\ Len([s EXCEPT ![i] = b]) = Len(s)
        /\ \A j \in 1..Len(s) : [s EXCEPT ![i] = b][j] = IF j = i THEN b ELSE s[j]
    BY ONLY <1>2, <1>4, s \in Seq(Block), UpdatedRow
  <2> QED
    BY ONLY <1>2, <1>5, <2>1
<1>8. /\ r \in Seq(Block) /\ Len(r) = L - 1
      /\ \A j \in 1..(L - 1) : r[j] = IF j < k THEN u[j] ELSE u[j + 1]
  <2>1. /\ RemoveAt(u, k) \in Seq(Block) /\ Len(RemoveAt(u, k)) = Len(u) - 1
        /\ \A j \in 1..(Len(u) - 1) : RemoveAt(u, k)[j] = IF j < k THEN u[j] ELSE u[j + 1]
    BY ONLY <1>2, <1>7, RemoveAtIndex
  <2> QED
    BY ONLY <1>6, <1>7, <2>1
<1>9. ASSUME NEW j \in 1..(i - 1) PROVE r[j] = s[j]
  <2>1. j \in 1..(L - 1) /\ j < k /\ j \in 1..L /\ j # i
    BY ONLY <1>2, j \in 1..(i - 1)
  <2> QED
    BY ONLY <1>7, <1>8, <2>1
<1>10. r[i] = b
  <2>1. i \in 1..(L - 1) /\ i < k
    BY ONLY <1>2
  <2> QED
    BY ONLY <1>2, <1>7, <1>8, <2>1
<1>11. ASSUME NEW j \in (i + 1)..(L - 1) PROVE r[j] = s[j + 1]
  <2>1. j \in 1..(L - 1) /\ ~(j < k) /\ j + 1 \in 1..L /\ j + 1 # i
    BY ONLY <1>2, j \in (i + 1)..(L - 1)
  <2> QED
    BY ONLY <1>7, <1>8, <2>1
<1> QED
  BY ONLY <1>2, <1>4, <1>8, <1>9, <1>10, <1>11 DEF IsAbsorbed

LEMMA RowAbsorbs ==
  ASSUME NEW D \in SUBSET Nat, NEW h, NEW s, Describes(s, h, D), NEW i \in 1..(Len(s) - 1),
         NEW a, a = s[i].addr, NEW b, b = s[i + 1].addr, NEW g, MergedInto(D, h, g, a, b),
         NEW r, IsAbsorbed(s, r, i)
  PROVE  Describes(r, g, D \ {b})
PROOF
<1>1. RowFacts(s, h, D)
  BY InRow
<1>2. /\ s \in Seq(Block) /\ Len(s) \in Nat
      /\ \A j \in 1..Len(s) : /\ s[j] \in Block /\ s[j].addr \in D /\ s[j].addr \in Nat
                              /\ s[j].size = h.mcb[s[j].addr].size /\ s[j].size \in Nat
                              /\ s[j].free = h.mcb[s[j].addr].is_free
      /\ \A j, l \in 1..Len(s) : s[j].addr < s[l].addr <=> j < l
      /\ \A x \in D : \E j \in 1..Len(s) : s[j].addr = x
  BY <1>1 DEF RowFacts
<1>3. PICK L : L = Len(s)
  OBVIOUS
<1>4. L \in Nat /\ i \in 1..L /\ i + 1 \in 1..L /\ L = Len(s) /\ i \in 1..(L - 1)
  BY <1>2, <1>3
<1>5. r \in Seq(Block) /\ Len(r) = L - 1
  BY <1>4 DEF IsAbsorbed
<1>6. /\ \A j \in 1..(i - 1) : r[j] = s[j]
      /\ r[i].addr = a /\ r[i].free = s[i].free /\ r[i].size = s[i].size + s[i + 1].size
  BY DEF IsAbsorbed
<1>7. \A j \in (i + 1)..(L - 1) : r[j] = s[j + 1]
  BY <1>4 DEF IsAbsorbed
<1>8. ASSUME NEW j \in 1..L, NEW l \in 1..L, j # l PROVE s[j].addr # s[l].addr
  <2>1. j < l \/ l < j
    BY ONLY <1>4, <1>8, j \in 1..L, l \in 1..L
  <2>2. s[j].addr \in Nat /\ s[l].addr \in Nat
    BY <1>2, <1>4
  <2>3. s[j].addr < s[l].addr \/ s[l].addr < s[j].addr
    BY <1>2, <1>4, <2>1
  <2> QED
    BY ONLY <2>2, <2>3
<1>9. a \in D /\ b \in D /\ a # b
  BY <1>2, <1>4, <1>8
<1>10. ASSUME NEW j \in 1..L, j # i, j # i + 1
       PROVE  /\ s[j].addr \in D \ {b} /\ s[j].size = g.mcb[s[j].addr].size
              /\ s[j].free = g.mcb[s[j].addr].is_free
  <2>1. PICK x : x = s[j].addr
    OBVIOUS
  <2>2. x \in D /\ x # a /\ x # b
    BY <1>2, <1>4, <1>8, <1>10, <2>1
  <2>3. g.mcb[x].size = h.mcb[x].size /\ g.mcb[x].is_free = h.mcb[x].is_free
    BY <2>2 DEF MergedInto, SameMarks
  <2>4. s[j].size = h.mcb[x].size /\ s[j].free = h.mcb[x].is_free
    BY <1>2, <1>4, <2>1
  <2> QED
    BY ONLY <2>1, <2>2, <2>3, <2>4
<1>11. \A j \in 1..(L - 1) : r[j].addr = s[IF j <= i THEN j ELSE j + 1].addr
  <2> TAKE j \in 1..(L - 1)
  <2>1. CASE j < i
    <3>1. j \in 1..(i - 1) /\ j <= i
      BY ONLY <1>4, <2>1, j \in 1..(L - 1)
    <3> QED
      BY <1>6, <3>1
  <2>2. CASE j = i
    <3>1. j <= i
      BY <1>4, <2>2
    <3> QED
      BY <1>6, <2>2, <3>1
  <2>3. CASE j > i
    <3>1. j \in (i + 1)..(L - 1) /\ ~(j <= i)
      BY ONLY <1>4, <2>3, j \in 1..(L - 1)
    <3> QED
      BY <1>7, <3>1
  <2>4. j < i \/ j = i \/ j > i
    BY ONLY <1>4, j \in 1..(L - 1)
  <2> QED
    BY <2>1, <2>2, <2>3, <2>4
<1>12. ASSUME NEW x \in D \ {b} PROVE \E j \in 1..Len(r) : r[j].addr = x
  <2>1. PICK l \in 1..L : s[l].addr = x
    BY <1>2, <1>4
  <2>2. l # i + 1
    BY <2>1
  <2>3. CASE l <= i
    <3>1. l \in 1..(L - 1)
      BY ONLY <1>4, <2>3, l \in 1..L
    <3> QED
      BY <1>5, <1>11, <2>1, <2>3, <3>1 DEF FrontLinked
  <2>4. CASE ~(l <= i)
    <3>1. l - 1 \in 1..(L - 1) /\ ~(l - 1 <= i) /\ (l - 1) + 1 = l
      BY ONLY <1>4, <2>2, <2>4, l \in 1..L
    <3> QED
      BY <1>5, <1>11, <2>1, <3>1
  <2> QED
    BY <2>3, <2>4
<1>13. ASSUME NEW j \in 1..Len(r)
       PROVE  /\ r[j].addr \in D \ {b} /\ r[j].size = g.mcb[r[j].addr].size
              /\ r[j].free = g.mcb[r[j].addr].is_free
  <2>1. CASE j < i
    <3>1. j \in 1..(i - 1) /\ j \in 1..L /\ j # i /\ j # i + 1
      BY ONLY <1>4, <1>5, <2>1, j \in 1..Len(r)
    <3>2. r[j] = s[j]
      BY <1>6, <3>1
    <3> QED
      BY <1>10, <3>1, <3>2
  <2>2. CASE j = i
    <3>1. g.mcb[a].size = h.mcb[a].size + h.mcb[b].size /\ g.mcb[a].is_free = h.mcb[a].is_free
      BY <1>9 DEF MergedInto, SameMarks
    <3>2. s[i].size = h.mcb[a].size /\ s[i + 1].size = h.mcb[b].size /\ s[i].free = h.mcb[a].is_free
      BY <1>2, <1>4
    <3> QED
      BY ONLY <1>6, <1>9, <2>2, <3>1, <3>2
  <2>3. CASE j > i
    <3>1. j \in (i + 1)..(L - 1) /\ j + 1 \in 1..L /\ j + 1 # i /\ j + 1 # i + 1
      BY ONLY <1>4, <1>5, <2>3, j \in 1..Len(r)
    <3>2. r[j] = s[j + 1]
      BY <1>7, <3>1
    <3> QED
      BY <1>10, <3>1, <3>2
  <2>4. j < i \/ j = i \/ j > i
    BY ONLY <1>4, <1>5, j \in 1..Len(r)
  <2> QED
    BY <2>1, <2>2, <2>3, <2>4
<1>14. ASSUME NEW j \in 1..Len(r), NEW l \in 1..Len(r), j < l PROVE r[j].addr < r[l].addr
  <2>1. PICK v, w : v = (IF j <= i THEN j ELSE j + 1) /\ w = (IF l <= i THEN l ELSE l + 1)
    OBVIOUS
  <2>2. j \in 1..(L - 1) /\ l \in 1..(L - 1)
    BY <1>5
  <2>3. v \in 1..L /\ w \in 1..L /\ v < w
    BY ONLY <1>4, <1>14, <2>1, <2>2
  <2>4. s[v].addr < s[w].addr
    BY <1>2, <1>4, <2>3
  <2> QED
    BY <1>11, <2>1, <2>2, <2>4
<1> QED
  BY <1>5, <1>12, <1>13, <1>14 DEF Describes

-----------------------------------------------------------------------------

(***************************************************************************)
(* allocate_memory and free_memory as a whole.                             *)
(***************************************************************************)

\* Next of HeapBlocks, with s the row it leads to.
TakeRow(n, i, s) ==
  /\ FirstFit(n, i) /\ blocks[i].size <= n + MCBSize
  /\ s = [blocks EXCEPT ![i].free = FALSE]

SplitRow(n, i, s) ==
  /\ FirstFit(n, i) /\ blocks[i].size > n + MCBSize
  /\ s = InsertAt([blocks EXCEPT ![i] = [addr |-> @.addr, size |-> n, free |-> FALSE]],
                  i + 1,
                  [addr |-> blocks[i].addr + MCBSize + n,
                   size |-> blocks[i].size - n - MCBSize,
                   free |-> TRUE])

FreeRow(i, s) ==
  LET freed == [blocks EXCEPT ![i].free = TRUE]
      fwd == IF IsFree(i + 1) THEN Absorb(freed, i) ELSE freed
  IN  /\ ~blocks[i].free
      /\ s = IF IsFree(i - 1) THEN Absorb(fwd, i - 1) ELSE fwd

Becomes(s) ==
  \E i \in DOMAIN blocks :
    \/ \E n \in Sizes : TakeRow(n, i, s) \/ SplitRow(n, i, s)
    \/ FreeRow(i, s)

\* A row that becomes the next one is a step of HeapBlocks.
LEMMA BecomesNext ==
  ASSUME NEW s, Becomes(s), blocks' = s
  PROVE  Next
PROOF
<1>1. PICK i \in DOMAIN blocks : \/ \E n \in Sizes : TakeRow(n, i, s) \/ SplitRow(n, i, s)
                                 \/ FreeRow(i, s)
  BY DEF Becomes
<1>2. ASSUME NEW n \in Sizes, TakeRow(n, i, s) PROVE Next
  <2>1. Take(n, i)
    BY <1>2 DEF TakeRow, Take
  <2> QED
    BY <2>1 DEF Next
<1>3. ASSUME NEW n \in Sizes, SplitRow(n, i, s) PROVE Next
  <2>1. Split(n, i)
    BY <1>3 DEF SplitRow, Split
  <2> QED
    BY <2>1 DEF Next
<1>4. ASSUME FreeRow(i, s) PROVE Next
  <2>1. Free(i)
    BY <1>4 DEF FreeRow, Free
  <2> QED
    BY <2>1 DEF Next
<1> QED
  BY <1>1, <1>2, <1>3, <1>4

\* The walk for a block finds the first free one that is large enough.
LEMMA FitFound ==
  ASSUME NEW h, NEW D, NEW F, NEW A, Whole(h, D, F, A), Describes(blocks, h, D),
         NEW n \in Nat, NEW a, a = FindFit(h, n), a # NULL
  PROVE  /\ a \in F /\ h.mcb[a].size >= n
         /\ \A i \in 1..Len(blocks) : blocks[i].addr = a => FirstFit(n, i)
PROOF
<1>1. /\ Lists(h, D, F, A) /\ D = F \cup A
      /\ \A x \in F : h.mcb[x].is_free = TRUE
      /\ \A x \in A : h.mcb[x].is_free = FALSE
  BY DEF Whole
<1>2. /\ D \in SUBSET Nat /\ D \in SUBSET (0..HeapSize) /\ h \in Heaps(D) /\ DOMAIN h.mcb = D
      /\ AllList(D, h) /\ F \subseteq D /\ NULL \notin D
      /\ IsFirst(F, h.free_list) /\ h.free_list \in F \cup {NULL}
  BY <1>1, ListsParts
<1>3. PICK T, x : /\ T = {y \in D : h.mcb[y].is_free /\ h.mcb[y].size >= n}
                  /\ x = h.free_list
  OBVIOUS
<1>4. IsFound(D, x, T, a)
  <2>1. a = FirstOf(Links(h, "next"), x, T)
    BY <1>2, <1>3 DEF FindFit
  <2>2. T \subseteq D /\ x \in D \cup {NULL}
    BY <1>2, <1>3
  <2>3. IsFound(D, x, T, FirstOf(Links(h, "next"), x, T))
    BY ONLY <1>2, <2>2, AllSearch
  <2> QED
    BY ONLY <2>1, <2>3
<1>5. a \in D /\ a \in T /\ x # NULL /\ \A y \in D \cap T : y < x \/ a <= y
  BY <1>4 DEF IsFound
<1>6. T \subseteq F
  BY <1>1, <1>3
<1>7. a \in F /\ h.mcb[a].size >= n
  BY <1>3, <1>5, <1>6
<1>8. \A y \in T : a <= y
  <2>1. \A y \in F : x <= y
    BY <1>2, <1>3, <1>5 DEF IsFirst
  <2>2. \A y \in F : y \in Nat
    BY <1>2
  <2>3. x \in Nat
    BY <1>2, <1>3, <1>5
  <2>4. \A y \in T : y \in F /\ y \in D \cap T
    BY <1>2, <1>6
  <2>5. ASSUME NEW y \in T PROVE a <= y
    <3>1. x <= y /\ y \in Nat /\ (y < x \/ a <= y)
      BY <1>5, <2>1, <2>2, <2>4
    <3> QED
      BY ONLY <2>3, <3>1
  <2> QED
    BY <2>5
<1>9. RowFacts(blocks, h, D)
  BY <1>2, InRow
<1>10. /\ Len(blocks) \in Nat /\ \A j, k \in 1..Len(blocks) : blocks[j].addr < blocks[k].addr <=> j < k
       /\ \A j \in 1..Len(blocks) : /\ blocks[j].addr \in D /\ blocks[j].addr \in Nat
                                    /\ blocks[j].size = h.mcb[blocks[j].addr].size
                                    /\ blocks[j].size \in Nat
                                    /\ blocks[j].free = h.mcb[blocks[j].addr].is_free
  BY <1>9 DEF RowFacts
<1>11. ASSUME NEW i \in 1..Len(blocks), blocks[i].addr = a PROVE FirstFit(n, i)
  <2>1. blocks[i].free /\ blocks[i].size >= n
    BY <1>1, <1>7, <1>10, <1>11
  <2>2. ASSUME NEW j \in 1..(i - 1), blocks[j].free PROVE blocks[j].size < n
    <3> SUFFICES ASSUME ~(blocks[j].size < n) PROVE FALSE
      OBVIOUS
    <3>1. j \in 1..Len(blocks) /\ j < i
      BY <1>10
    <3>2. PICK y : y = blocks[j].addr
      OBVIOUS
    <3>3. y \in D /\ y \in Nat /\ y < a
      BY <1>10, <1>11, <3>1, <3>2
    <3>4. h.mcb[y].is_free /\ h.mcb[y].size >= n
      BY <1>10, <2>2, <3>1, <3>2
    <3>5. y \in T
      BY <1>3, <3>3, <3>4
    <3>6. a <= y /\ a \in Nat
      BY <1>2, <1>5, <1>8, <3>5
    <3> QED
      BY ONLY <3>3, <3>6
  <2> QED
    BY <2>1, <2>2 DEF FirstFit
<1> QED
  BY <1>7, <1>11

\* A block that is split has room for both parts, and for the new MCB.
LEMMA RoomToSplit ==
  ASSUME NEW h, NEW D, NEW F, NEW A, Lists(h, D, F, A), LaidOut(h, D), NEW a \in D,
         NEW n \in Nat, h.mcb[a].size > n + MCBSize, NEW c, c = start_address(a) + n
  PROVE  c \in (0..HeapSize) \ D /\ c \in Nat \ D /\ a < c /\ Gap(D, a, c)
PROOF
<1>1. D \in SUBSET Nat /\ h \in Heaps(D)
  BY ListsParts
<1>2. PICK m : m = h.mcb[a].size
  OBVIOUS
<1>3. /\ a \in Nat /\ m \in Nat /\ MCBSize \in Nat /\ MCBSize > 0 /\ HeapSize \in Nat /\ n \in Nat
      /\ m > n + MCBSize /\ c = a + MCBSize + n
  BY <1>1, <1>2, HeapType, HeapAssumption DEF start_address
<1>4. /\ a + MCBSize + m <= HeapSize
      /\ \A y \in D : a < y => a + MCBSize + m <= y
  BY <1>2 DEF LaidOut
<1>5. c \in 0..HeapSize /\ c \in Nat /\ a < c
  BY ONLY <1>3, <1>4
<1>6. ASSUME NEW b \in D PROVE b <= a \/ c < b
  <2>1. b \in Nat /\ (a < b => a + MCBSize + m <= b)
    BY <1>1, <1>4
  <2> QED
    BY ONLY <1>3, <2>1
<1>7. c \notin D
  <2> SUFFICES ASSUME c \in D PROVE FALSE
    OBVIOUS
  <2>1. c <= a \/ c < c
    BY <1>6
  <2> QED
    BY ONLY <1>3, <1>5, <2>1
<1> QED
  BY <1>5, <1>6, <1>7 DEF Gap

\* A free block in front of all allocated ones is the first of the heap, so
\* its rel_prev is NULL: what LinkAllocated relies on.
LEMMA FirstBusy ==
  ASSUME NEW h, NEW D, NEW F, NEW A, Whole(h, D, F, A), Merged(F, D), NEW a \in F, InFrontOf(a, A)
  PROVE  h.mcb[a].rel_prev = NULL
PROOF
<1>1. /\ D \in SUBSET Nat /\ F \in SUBSET Nat /\ h \in Heaps(D) /\ F \subseteq D /\ A \subseteq D
      /\ D = F \cup A /\ AllList(D, h) /\ RelList(F, h.free_list, h) /\ NULL \notin D
      /\ a \in D /\ a \in Nat
  BY ListsParts DEF Whole
<1>2. PICK p, q : p = h.mcb[a].rel_prev /\ q = h.mcb[a].prev
  OBVIOUS
<1>3. IsPrev(F, a, p)
  BY <1>1, <1>2, RelPointers
<1>4. IsPrev(D, a, q)
  BY <1>1, <1>2, AllPointers
<1> SUFFICES ASSUME p # NULL PROVE FALSE
  BY <1>2
<1>5. p \in F /\ p < a /\ p \in D /\ p \in Nat
  BY <1>1, <1>3, PrevCases
<1>6. q # NULL
  <2> SUFFICES ASSUME q = NULL PROVE FALSE
    OBVIOUS
  <2>1. \A b \in D : a <= b
    BY <1>1, <1>4, PrevCases
  <2> QED
    BY <1>1, <1>5, <2>1
<1>7. q \in D /\ q < a /\ q \in Nat /\ \A b \in D : a <= b \/ b <= q
  BY <1>1, <1>4, <1>6, PrevCases
<1>8. q \notin A
  BY <1>1, <1>7 DEF InFrontOf
<1>9. q \in F
  BY <1>1, <1>7, <1>8
<1>10. IsNext(D, q, a)
  <2>1. \A b \in D : b <= q \/ a <= b
    BY <1>7
  <2> QED
    BY <1>1, <1>7, <2>1 DEF IsNext
<1> QED
  BY <1>9, <1>10 DEF Merged

\* allocate_memory found block a, and took it.
Taken(h, a, n) ==
  LinkAllocated(IF Splits(h, a, n) THEN SplitBlock(h, a, n) ELSE Unlink(h, a, "free_list"), a)

\* The blocks of g at the addresses in A are still those of h.
SameSizes(A, h, g) == \A x \in A : g.mcb[x].size = h.mcb[x].size

\* Block a, with n bytes or more, joins the allocated ones in A, and the row
\* becomes the next one.
Obtained(h, g, A, a, n) ==
  \E E, G, s : /\ Whole(g, E, G, A \cup {a}) /\ Describes(s, g, E) /\ Becomes(s)
               /\ SameSizes(A, h, g) /\ g.mcb[a].size >= n

\* allocate_memory, when it finds a block.
LEMMA Allocates ==
  ASSUME NEW h, NEW D, NEW F, NEW A, Whole(h, D, F, A), Describes(blocks, h, D), Inv,
         NEW n \in Sizes, NEW a, a = FindFit(h, n), a # NULL, NEW g, g = Taken(h, a, n)
  PROVE  a \in F /\ Obtained(h, g, A, a, n)
PROOF
<1>1. /\ Lists(h, D, F, A) /\ D = F \cup A
      /\ \A x \in F : h.mcb[x].is_free = TRUE
      /\ \A x \in A : h.mcb[x].is_free = FALSE
  BY DEF Whole
<1>2. /\ D \in SUBSET Nat /\ D \in SUBSET (0..HeapSize) /\ h \in Heaps(D) /\ F \cap A = {}
      /\ F \subseteq D /\ A \subseteq D
  BY <1>1, ListsParts
<1>3. n \in Nat
  BY HeapAssumption
<1>4. /\ a \in F /\ h.mcb[a].size >= n
      /\ \A i \in 1..Len(blocks) : blocks[i].addr = a => FirstFit(n, i)
  BY <1>3, FitFound
<1>5. a \in D /\ a \notin A /\ a \in Nat /\ h.mcb[a].size \in Nat
  BY <1>2, <1>4, HeapType
<1>6. RowFacts(blocks, h, D)
  BY <1>2, InRow
<1>7. /\ Len(blocks) \in Nat /\ DOMAIN blocks = 1..Len(blocks) /\ blocks \in Seq(Block)
      /\ \A j \in 1..Len(blocks) : blocks[j].size = h.mcb[blocks[j].addr].size
      /\ \A x \in D : \E j \in 1..Len(blocks) : blocks[j].addr = x
  BY <1>6 DEF RowFacts
<1>8. PICK i \in 1..Len(blocks) : blocks[i].addr = a
  BY <1>5, <1>7
<1>9. FirstFit(n, i) /\ i \in DOMAIN blocks /\ blocks[i].size = h.mcb[a].size
  BY <1>4, <1>7, <1>8
<1>10. LaidOut(h, D) /\ Merged(F, D)
  BY <1>2, RowLayout, RowMerged DEF Inv, Layout
<1>11. FrontLinked(h, a, A)
  BY <1>4, <1>10, FirstBusy DEF FrontLinked
<1>12. CASE ~Splits(h, a, n)
  <2>1. PICK k : k = Unlink(h, a, "free_list")
    OBVIOUS
  <2>2. g = LinkAllocated(k, a)
    BY <1>12, <2>1 DEF Taken
  <2>3. /\ Lists(k, D, F \ {a}, A) /\ SameBlocks(D, h, k) /\ SameMarks(D, h, k)
        /\ k.mcb[a].rel_prev = h.mcb[a].rel_prev
    BY ONLY <1>1, <1>4, <2>1, UnlinkFree
  <2>4. FrontLinked(k, a, A)
    BY <1>11, <2>3 DEF FrontLinked
  <2>5. /\ Lists(g, D, F \ {a}, A \cup {a}) /\ SameBlocks(D, k, g) /\ SameMarks(D \ {a}, k, g)
        /\ g.mcb[a].is_free = FALSE
    <3>1. PICK G : G = F \ {a}
      OBVIOUS
    <3>2. Lists(k, D, G, A) /\ a \notin G
      BY <2>3, <3>1
    <3> HIDE <3>1
    <3>3. IsAllocated(k, g, D, G, A, a)
      BY ONLY <1>5, <2>2, <2>4, <3>2, LinkAllocatedSound
    <3> QED
      BY ONLY <3>1, <3>3 DEF IsAllocated
  <2>6. SameBlocks(D, h, g) /\ SameMarks(D \ {a}, h, g)
    BY ONLY <2>3, <2>5 DEF SameBlocks, SameMarks
  <2>7. Whole(g, D, F \ {a}, A \cup {a})
    <3>1. D = (F \ {a}) \cup (A \cup {a})
      BY <1>1, <1>4
    <3>2. \A x \in F \ {a} : g.mcb[x].is_free = TRUE
      BY <1>1, <1>2, <2>6 DEF SameMarks
    <3>3. \A x \in A \cup {a} : g.mcb[x].is_free = FALSE
      BY <1>1, <1>2, <1>5, <2>5, <2>6 DEF SameMarks
    <3> QED
      BY <2>5, <3>1, <3>2, <3>3 DEF Whole
  <2>8. PICK s : s = [blocks EXCEPT ![i].free = FALSE]
    OBVIOUS
  <2>9. Describes(s, g, D)
    BY ONLY <1>2, <1>8, <2>5, <2>6, <2>8, Describes(blocks, h, D), RowMarked
  <2>10. TakeRow(n, i, s)
    <3>1. blocks[i].size <= n + MCBSize
      BY <1>3, <1>5, <1>9, <1>12, HeapAssumption DEF Splits
    <3> QED
      BY <1>9, <2>8, <3>1 DEF TakeRow
  <2>11. Becomes(s)
    BY <1>9, <2>10 DEF Becomes
  <2>12. SameSizes(A, h, g) /\ g.mcb[a].size >= n
    BY <1>2, <1>4, <1>5, <2>6 DEF SameSizes, SameBlocks
  <2> QED
    BY <1>4, <2>7, <2>9, <2>11, <2>12 DEF Obtained
<1>13. CASE Splits(h, a, n)
  <2>0. h.mcb[a].size > n + MCBSize
    BY <1>13 DEF Splits
  <2>1. PICK k, c, E, G : /\ k = SplitBlock(h, a, n) /\ c = start_address(a) + n
                          /\ E = D \cup {c} /\ G = (F \ {a}) \cup {c}
    OBVIOUS
  <2>2. g = LinkAllocated(k, a)
    BY <1>13, <2>1 DEF Taken
  <2>3. c \in (0..HeapSize) \ D /\ c \in Nat \ D /\ a < c /\ Gap(D, a, c)
    BY ONLY <1>1, <1>3, <1>5, <1>10, <2>0, <2>1, RoomToSplit
  <2>4. Lists(k, D \cup {c}, (F \ {a}) \cup {c}, A) /\ SplitOff(D, h, k, a, c, n)
    <3>1. k = SplitBlock(h, a, n) /\ c = start_address(a) + n
      BY <2>1
    <3> QED
      BY ONLY <1>1, <1>3, <1>4, <2>0, <2>3, <3>1, SplitSound
  <2>5. Lists(k, E, G, A)
    BY <2>1, <2>4
  <2>6. a \in E /\ a \notin G /\ FrontLinked(k, a, A)
    <3>1. k.mcb[a].rel_prev = h.mcb[a].rel_prev
      BY <2>4 DEF SplitOff
    <3> QED
      BY <1>5, <1>11, <2>1, <2>3, <3>1 DEF FrontLinked
  <2>7. /\ Lists(g, E, G, A \cup {a}) /\ SameBlocks(E, k, g) /\ SameMarks(E \ {a}, k, g)
        /\ g.mcb[a].is_free = FALSE
    <3>1. IsAllocated(k, g, E, G, A, a)
      BY ONLY <1>5, <2>2, <2>5, <2>6, LinkAllocatedSound
    <3> QED
      BY ONLY <3>1 DEF IsAllocated
  <2>8. /\ g.mcb[a].size = n /\ g.mcb[c].is_free = TRUE
        /\ \A x \in D \ {a} : /\ g.mcb[x].size = h.mcb[x].size
                              /\ g.mcb[x].is_free = h.mcb[x].is_free
    <3>1. /\ k.mcb[a].size = n /\ k.mcb[c].is_free = TRUE
          /\ \A x \in D \ {a} : /\ k.mcb[x].size = h.mcb[x].size
                                /\ k.mcb[x].is_free = h.mcb[x].is_free
      BY <2>4 DEF SplitOff, SameMarks
    <3>2. a \in E /\ c \in E \ {a} /\ \A x \in D \ {a} : x \in E \ {a}
      BY <1>5, <2>1, <2>3
    <3> QED
      BY ONLY <2>7, <3>1, <3>2 DEF SameBlocks, SameMarks
  <2>9. Whole(g, E, G, A \cup {a})
    <3>1. E = G \cup (A \cup {a})
      BY <1>1, <1>4, <2>1
    <3>2. \A x \in G : g.mcb[x].is_free = TRUE
      BY <1>1, <1>2, <2>1, <2>8
    <3>3. \A x \in A \cup {a} : g.mcb[x].is_free = FALSE
      BY <1>1, <1>2, <1>5, <2>7, <2>8
    <3> QED
      BY <2>7, <3>1, <3>2, <3>3 DEF Whole
  <2>10. PICK b, e : /\ b = [addr |-> a, size |-> n, free |-> FALSE]
                     /\ e = [addr |-> c, size |-> blocks[i].size - n - MCBSize, free |-> TRUE]
    OBVIOUS
  <2>11. b \in Block /\ e \in Block
    BY <1>3, <1>5, <1>9, <2>0, <2>3, <2>10, HeapAssumption DEF Block
  <2>12. PICK s : s = InsertAt([blocks EXCEPT ![i] = b], i + 1, e)
    OBVIOUS
  <2>13. IsSplit(blocks, s, i, b, e)
    BY ONLY <1>7, <1>8, <2>11, <2>12, InsertSplits
  <2>14. Describes(s, g, D \cup {c})
    <3>1. /\ SameBlocks(D \cup {c}, k, g) /\ SameMarks((D \cup {c}) \ {a}, k, g)
          /\ g.mcb[a].is_free = FALSE
      BY <2>1, <2>7
    <3>2. blocks[i].size > n + MCBSize /\ a = blocks[i].addr
      BY <1>8, <1>9, <2>0
    <3> QED
      BY ONLY <1>2, <1>3, <1>8, <2>3, <2>4, <2>10, <2>13, <3>1, <3>2,
              Describes(blocks, h, D), RowSplit
  <2>15. SplitRow(n, i, s)
    <3>1. blocks[i].size > n + MCBSize
      BY <1>9, <2>0
    <3>2. c = blocks[i].addr + MCBSize + n
      BY <1>8, <2>1 DEF start_address
    <3>3. s = InsertAt([blocks EXCEPT ![i] = [addr |-> @.addr, size |-> n, free |-> FALSE]],
                       i + 1,
                       [addr |-> blocks[i].addr + MCBSize + n,
                        size |-> blocks[i].size - n - MCBSize,
                        free |-> TRUE])
      BY ONLY <1>8, <2>10, <2>12, <3>2
    <3> QED
      BY ONLY <1>9, <3>1, <3>3 DEF SplitRow
  <2>16. Becomes(s)
    BY <1>9, <2>15 DEF Becomes
  <2>17. SameSizes(A, h, g) /\ g.mcb[a].size >= n
    BY <1>2, <1>3, <1>5, <2>8 DEF SameSizes
  <2>18. Describes(s, g, E)
    BY <2>1, <2>14
  <2> QED
    BY ONLY <1>4, <2>9, <2>16, <2>17, <2>18 DEF Obtained
<1> QED
  BY <1>12, <1>13

\* Block a, which starts at ptr, is what free_memory's walk comes to.
LEMMA HeldFound ==
  ASSUME NEW h, NEW D, NEW F, NEW A, Whole(h, D, F, A), NEW a \in A,
         NEW b, b = FirstOf(Links(h, "next"), h.allocated_list,
                            {x \in DOMAIN h.mcb : start_address(x) = start_address(a)})
  PROVE  b = a
PROOF
<1>1. /\ D \in SUBSET Nat /\ D \in SUBSET (0..HeapSize) /\ h \in Heaps(D) /\ DOMAIN h.mcb = D
      /\ AllList(D, h) /\ A \subseteq D /\ NULL \notin D /\ a \in D /\ a \in Nat
      /\ IsFirst(A, h.allocated_list) /\ h.allocated_list \in A \cup {NULL}
  BY ListsParts DEF Whole
<1>2. PICK T, x : T = {y \in D : start_address(y) = start_address(a)} /\ x = h.allocated_list
  OBVIOUS
<1>3. T \subseteq D /\ x \in D \cup {NULL} /\ a \in T
  BY <1>1, <1>2
<1>4. \A y \in T : y = a
  <2> TAKE y \in T
  <2>1. y \in Nat /\ MCBSize \in Nat /\ y + MCBSize = a + MCBSize
    BY <1>1, <1>2, HeapAssumption DEF start_address
  <2> QED
    BY ONLY <1>1, <2>1
<1>5. IsFound(D, x, T, b)
  <2>1. b = FirstOf(Links(h, "next"), x, T)
    BY <1>1, <1>2
  <2>2. IsFound(D, x, T, FirstOf(Links(h, "next"), x, T))
    BY ONLY <1>1, <1>3, AllSearch
  <2> QED
    BY ONLY <2>1, <2>2
<1>6. x # NULL /\ x \in Nat /\ ~(a < x)
  <2>1. x # NULL /\ x <= a
    BY <1>1, <1>2 DEF IsFirst
  <2>2. x \in Nat
    BY <1>1, <1>3, <2>1
  <2> QED
    BY ONLY <1>1, <2>1, <2>2
<1>7. a \in D \cap T
  BY <1>1, <1>3
<1> QED
  BY ONLY <1>4, <1>5, <1>6, <1>7 DEF IsFound

\* g is a heap with row r, and the allocated blocks in A as h has them.
Follows(h, g, A, r) ==
  \E E, G : Whole(g, E, G, A) /\ Describes(r, g, E) /\ SameSizes(A, h, g)

\* Two free neighbours are merged.
LEMMA Merges ==
  ASSUME NEW h, NEW D, NEW F, NEW A, Whole(h, D, F, A), NEW s, Describes(s, h, D),
         NEW i \in 1..(Len(s) - 1), NEW a \in F, a = s[i].addr, NEW b \in F, b = s[i + 1].addr,
         b = h.mcb[a].next, NEW g, g = Merge(h, a)
  PROVE  Follows(h, g, A, Absorb(s, i))
PROOF
<1>1. /\ Lists(h, D, F, A) /\ D = F \cup A
      /\ \A x \in F : h.mcb[x].is_free = TRUE
      /\ \A x \in A : h.mcb[x].is_free = FALSE
  BY DEF Whole
<1>2. D \in SUBSET Nat /\ F \cap A = {} /\ F \subseteq D /\ A \subseteq D
  BY <1>1, ListsParts
<1>3. Lists(g, D \ {b}, F \ {b}, A) /\ MergedInto(D, h, g, a, b)
  BY ONLY <1>1, a \in F, b \in F, b = h.mcb[a].next, g = Merge(h, a), MergeSound
<1>4. \A x \in D \ {b} : g.mcb[x].is_free = h.mcb[x].is_free
  BY <1>3 DEF MergedInto, SameMarks
<1>5. Whole(g, D \ {b}, F \ {b}, A)
  <2>1. D \ {b} = (F \ {b}) \cup A
    BY <1>1, <1>2
  <2>2. \A x \in F \ {b} : g.mcb[x].is_free = TRUE
    BY <1>1, <1>2, <1>4
  <2>3. \A x \in A : g.mcb[x].is_free = FALSE
    BY <1>1, <1>2, <1>4
  <2> QED
    BY ONLY <1>3, <2>1, <2>2, <2>3 DEF Whole
<1>6. s \in Seq(Block)
  <2>1. RowFacts(s, h, D)
    BY <1>2, InRow
  <2> QED
    BY <2>1 DEF RowFacts
<1>7. PICK r : r = Absorb(s, i)
  OBVIOUS
<1>8. IsAbsorbed(s, r, i)
  BY ONLY <1>6, <1>7, i \in 1..(Len(s) - 1), AbsorbShape
<1>9. Describes(r, g, D \ {b})
  BY ONLY <1>2, <1>3, <1>8, Describes(s, h, D), i \in 1..(Len(s) - 1), a = s[i].addr,
          b = s[i + 1].addr, RowAbsorbs
<1>10. SameSizes(A, h, g)
  BY <1>2, <1>3 DEF SameSizes, MergedInto
<1> QED
  BY ONLY <1>5, <1>7, <1>9, <1>10 DEF Follows

\* s with the block at i merged with its successor if that is free.
Forward(s, i) == IF i + 1 \in DOMAIN s /\ s[i + 1].free THEN Absorb(s, i) ELSE s

LEMMA MergesNext ==
  ASSUME NEW h, NEW D, NEW F, NEW A, Whole(h, D, F, A), NEW s, Describes(s, h, D),
         NEW i \in DOMAIN s, NEW a \in F, a = s[i].addr, NEW g, g = MergeNext(h, a)
  PROVE  Follows(h, g, A, Forward(s, i))
PROOF
<1>1. D \in SUBSET Nat /\ D = F \cup A /\ h \in Heaps(D) /\ AllList(D, h) /\ NULL \notin D /\ a \in D
      /\ \A x \in A : h.mcb[x].is_free = FALSE
  BY ListsParts DEF Whole
<1>2. RowFacts(s, h, D)
  BY <1>1, InRow
<1>3. /\ Len(s) \in Nat /\ DOMAIN s = 1..Len(s)
      /\ \A j \in 1..Len(s) : s[j].addr \in D /\ s[j].free = h.mcb[s[j].addr].is_free
  BY <1>2 DEF RowFacts
<1>4. PICK n, p : n = h.mcb[a].next /\ p = h.mcb[a].prev
  OBVIOUS
<1>5. IsNext(D, s[i].addr, n) /\ IsPrev(D, s[i].addr, p)
  BY <1>1, <1>4, AllPointers
<1>6. n = IF i + 1 \in 1..Len(s) THEN s[i + 1].addr ELSE NULL
  BY ONLY <1>1, <1>3, <1>5, i \in DOMAIN s, Describes(s, h, D), RowNeighbours
<1>7. CASE i + 1 \in DOMAIN s /\ s[i + 1].free
  <2>1. n = s[i + 1].addr /\ n \in D /\ h.mcb[n].is_free /\ n # NULL
    BY <1>1, <1>3, <1>6, <1>7
  <2>2. n \in F
    BY <1>1, <2>1
  <2>3. g = Merge(h, a)
    BY <1>4, <2>1 DEF MergeNext
  <2>4. i \in 1..(Len(s) - 1)
    BY ONLY <1>3, <1>7, i \in DOMAIN s
  <2>5. Follows(h, g, A, Absorb(s, i))
    BY ONLY <1>4, <2>1, <2>2, <2>3, <2>4, Whole(h, D, F, A), Describes(s, h, D), a \in F,
            a = s[i].addr, Merges
  <2> QED
    BY ONLY <1>7, <2>5 DEF Forward
<1>8. CASE ~(i + 1 \in DOMAIN s /\ s[i + 1].free)
  <2>1. n = NULL \/ ~h.mcb[n].is_free
    BY <1>3, <1>6, <1>8
  <2>2. g = h
    BY <1>4, <2>1 DEF MergeNext
  <2>3. SameSizes(A, h, g)
    BY <2>2 DEF SameSizes
  <2>4. Follows(h, g, A, s)
    BY ONLY <2>2, <2>3, Whole(h, D, F, A), Describes(s, h, D) DEF Follows
  <2> QED
    BY ONLY <1>8, <2>4 DEF Forward
<1> QED
  BY <1>7, <1>8

\* s with the block at i merged into its predecessor if that is free.
Backward(s, i) == IF i - 1 \in DOMAIN s /\ s[i - 1].free THEN Absorb(s, i - 1) ELSE s

LEMMA MergesPrev ==
  ASSUME NEW h, NEW D, NEW F, NEW A, Whole(h, D, F, A), NEW s, Describes(s, h, D),
         NEW i \in DOMAIN s, NEW a \in F, a = s[i].addr, NEW g, g = MergePrev(h, a)
  PROVE  Follows(h, g, A, Backward(s, i))
PROOF
<1>1. D \in SUBSET Nat /\ D = F \cup A /\ h \in Heaps(D) /\ AllList(D, h) /\ NULL \notin D /\ a \in D
      /\ \A x \in A : h.mcb[x].is_free = FALSE
  BY ListsParts DEF Whole
<1>2. RowFacts(s, h, D)
  BY <1>1, InRow
<1>3. /\ Len(s) \in Nat /\ DOMAIN s = 1..Len(s)
      /\ \A j \in 1..Len(s) : s[j].addr \in D /\ s[j].free = h.mcb[s[j].addr].is_free
  BY <1>2 DEF RowFacts
<1>4. PICK n, p : n = h.mcb[a].next /\ p = h.mcb[a].prev
  OBVIOUS
<1>5. IsNext(D, s[i].addr, n) /\ IsPrev(D, s[i].addr, p)
  BY <1>1, <1>4, AllPointers
<1>6. p = IF i - 1 \in 1..Len(s) THEN s[i - 1].addr ELSE NULL
  BY ONLY <1>1, <1>3, <1>5, i \in DOMAIN s, Describes(s, h, D), RowNeighbours
<1>7. CASE i - 1 \in DOMAIN s /\ s[i - 1].free
  <2>1. p = s[i - 1].addr /\ p \in D /\ h.mcb[p].is_free /\ p # NULL
    BY <1>1, <1>3, <1>6, <1>7
  <2>2. p \in F
    BY <1>1, <2>1
  <2>3. g = Merge(h, p)
    BY <1>4, <2>1 DEF MergePrev
  <2>4. PICK k : k = i - 1
    OBVIOUS
  <2>5. k \in 1..(Len(s) - 1) /\ k + 1 = i /\ k \in 1..Len(s)
    BY ONLY <1>3, <1>7, <2>4, i \in DOMAIN s
  <2>6. p = s[k].addr /\ a = s[k + 1].addr
    BY ONLY <2>1, <2>4, <2>5, a = s[i].addr
  <2>7. a = h.mcb[p].next
    <3>1. PICK m, q : m = h.mcb[p].next /\ q = h.mcb[p].prev
      OBVIOUS
    <3>2. IsNext(D, s[k].addr, m) /\ IsPrev(D, s[k].addr, q)
      BY <1>1, <2>1, <2>6, <3>1, AllPointers
    <3>3. m = IF k + 1 \in 1..Len(s) THEN s[k + 1].addr ELSE NULL
      BY ONLY <1>1, <2>5, <3>2, Describes(s, h, D), RowNeighbours
    <3> QED
      BY ONLY <1>3, <2>5, <2>6, <3>1, <3>3, i \in DOMAIN s
  <2>8. Follows(h, g, A, Absorb(s, k))
    BY ONLY <2>2, <2>3, <2>5, <2>6, <2>7, Whole(h, D, F, A), Describes(s, h, D), a \in F, Merges
  <2> QED
    BY ONLY <1>7, <2>4, <2>8 DEF Backward
<1>8. CASE ~(i - 1 \in DOMAIN s /\ s[i - 1].free)
  <2>1. p = NULL \/ ~h.mcb[p].is_free
    BY <1>3, <1>6, <1>8
  <2>2. g = h
    BY <1>4, <2>1 DEF MergePrev
  <2>3. SameSizes(A, h, g)
    BY <2>2 DEF SameSizes
  <2>4. Follows(h, g, A, s)
    BY ONLY <2>2, <2>3, Whole(h, D, F, A), Describes(s, h, D) DEF Follows
  <2> QED
    BY ONLY <1>8, <2>4 DEF Backward
<1> QED
  BY <1>7, <1>8

\* free_memory found block a.
Given(h, a) ==
  MergePrev(MergeNext(LinkFree(Unlink(h, a, "allocated_list"), a), a), a)

\* Marking a block free and merging it: the row that FreeRow leads to.
LEMMA FreedRow ==
  ASSUME NEW i \in DOMAIN blocks, blocks \in Seq(Block), ~blocks[i].free,
         NEW s, s = [blocks EXCEPT ![i].free = TRUE], NEW r, r = Forward(s, i)
  PROVE  /\ i \in DOMAIN r /\ r[i].addr = blocks[i].addr
         /\ FreeRow(i, Backward(r, i))
PROOF
<1>1. PICK L : L = Len(blocks)
  OBVIOUS
<1>2. L \in Nat /\ DOMAIN blocks = 1..L /\ i \in 1..L
  BY <1>1, LenProperties
<1>3. \A j \in 1..L : blocks[j] \in Block
  BY <1>1, ElementOfSeq
<1>4. PICK b : b = [addr |-> blocks[i].addr, size |-> blocks[i].size, free |-> TRUE]
  OBVIOUS
<1>5. b \in Block /\ b.addr = blocks[i].addr
  BY <1>2, <1>3, <1>4 DEF Block
<1>6. s = [blocks EXCEPT ![i] = b]
  <2>1. [blocks[i] EXCEPT !.free = TRUE] = b
    BY <1>2, <1>3, <1>4, FieldsKept
  <2> QED
    BY <2>1
<1>7. /\ s \in Seq(Block) /\ Len(s) = L
      /\ \A j \in 1..L : s[j] = IF j = i THEN b ELSE blocks[j]
  <2>1. /\ [blocks EXCEPT ![i] = b] \in Seq(Block)
        /\ Len([blocks EXCEPT ![i] = b]) = Len(blocks)
        /\ \A j \in 1..Len(blocks) : [blocks EXCEPT ![i] = b][j] = IF j = i THEN b ELSE blocks[j]
    BY ONLY <1>1, <1>2, <1>5, blocks \in Seq(Block), UpdatedRow
  <2> QED
    BY ONLY <1>1, <1>6, <2>1
<1>8. DOMAIN s = 1..L
  BY <1>7, LenProperties
<1>9. IsFree(i + 1) <=> (i + 1 \in DOMAIN s /\ s[i + 1].free)
  <2>1. i + 1 # i
    BY ONLY <1>2
  <2>2. i + 1 \in 1..L => s[i + 1] = blocks[i + 1]
    BY ONLY <1>7, <2>1
  <2> QED
    BY ONLY <1>2, <1>8, <2>2 DEF IsFree
<1>10. r = IF IsFree(i + 1) THEN Absorb(s, i) ELSE s
  BY ONLY <1>9, r = Forward(s, i) DEF Forward
<1>11. /\ DOMAIN r \in {1..L, 1..(L - 1)} /\ i \in DOMAIN r /\ r[i].addr = b.addr
       /\ \A j \in 1..(i - 1) : j \in DOMAIN r /\ r[j] = blocks[j]
  <2>1. CASE IsFree(i + 1)
    <3>1. i \in 1..(Len(s) - 1) /\ i + 1 \in 1..L
      BY ONLY <1>2, <1>7, <2>1 DEF IsFree
    <3>2. IsAbsorbed(s, r, i)
      BY ONLY <1>7, <1>10, <2>1, <3>1, AbsorbShape
    <3>3. DOMAIN r = 1..(L - 1) /\ r[i].addr = s[i].addr /\ \A j \in 1..(i - 1) : r[j] = s[j]
      <4>1. /\ r \in Seq(Block) /\ Len(r) = L - 1 /\ r[i].addr = s[i].addr
            /\ \A j \in 1..(i - 1) : r[j] = s[j]
        BY ONLY <1>7, <3>2 DEF IsAbsorbed
      <4>2. DOMAIN r = 1..Len(r)
        BY ONLY <4>1, LenProperties
      <4> QED
        BY ONLY <4>1, <4>2
    <3>4. ASSUME NEW j \in 1..(i - 1) PROVE j \in 1..(L - 1) /\ j \in 1..L /\ j # i
      BY ONLY <1>2, j \in 1..(i - 1)
    <3>5. i \in 1..(L - 1)
      BY ONLY <1>7, <3>1
    <3> QED
      BY ONLY <1>2, <1>7, <3>3, <3>4, <3>5
  <2>2. CASE ~IsFree(i + 1)
    <3>1. r = s
      BY ONLY <1>10, <2>2
    <3>2. ASSUME NEW j \in 1..(i - 1) PROVE j \in 1..L /\ j # i
      BY ONLY <1>2, j \in 1..(i - 1)
    <3> QED
      BY ONLY <1>2, <1>7, <1>8, <3>1, <3>2
  <2> QED
    BY <2>1, <2>2
<1>12. IsFree(i - 1) <=> (i - 1 \in DOMAIN r /\ r[i - 1].free)
  <2>1. i - 1 \in 1..L <=> i - 1 \in 1..(i - 1)
    BY ONLY <1>2
  <2>2. i - 1 \in 1..(L - 1) => i - 1 \in 1..L
    BY ONLY <1>2
  <2> QED
    BY ONLY <1>2, <1>11, <2>1, <2>2 DEF IsFree
<1>13. Backward(r, i) = IF IsFree(i - 1) THEN Absorb(r, i - 1) ELSE r
  BY ONLY <1>12 DEF Backward
<1>14. FreeRow(i, Backward(r, i))
  BY ONLY <1>10, <1>13, s = [blocks EXCEPT ![i].free = TRUE], ~blocks[i].free DEF FreeRow
<1> QED
  BY ONLY <1>5, <1>11, <1>14

\* free_memory, given a block that is allocated.
LEMMA Frees ==
  ASSUME NEW h, NEW D, NEW F, NEW A, Whole(h, D, F, A), Describes(blocks, h, D),
         NEW a \in A, NEW g, g = Given(h, a)
  PROVE  \E s : Follows(h, g, A \ {a}, s) /\ Becomes(s)
PROOF
<1>1. /\ Lists(h, D, F, A) /\ D = F \cup A
      /\ \A x \in F : h.mcb[x].is_free = TRUE
      /\ \A x \in A : h.mcb[x].is_free = FALSE
  BY DEF Whole
<1>2. D \in SUBSET Nat /\ F \cap A = {} /\ F \subseteq D /\ A \subseteq D
  BY <1>1, ListsParts
<1>3. PICK k, l, m, B, G : /\ k = Unlink(h, a, "allocated_list") /\ l = LinkFree(k, a)
                           /\ m = MergeNext(l, a) /\ B = A \ {a} /\ G = F \cup {a}
  OBVIOUS
<1>4. g = MergePrev(m, a)
  BY <1>3 DEF Given
<1>5. Lists(k, D, F, B) /\ SameBlocks(D, h, k) /\ SameMarks(D, h, k)
  <2>1. Lists(k, D, F, A \ {a}) /\ SameBlocks(D, h, k) /\ SameMarks(D, h, k)
    BY ONLY <1>1, <1>3, a \in A, UnlinkAllocated
  <2> QED
    BY <1>3, <2>1
<1>6. a \in D \ (F \cup B)
  BY <1>2, <1>3
<1>7. Lists(l, D, G, B) /\ SameBlocks(D, k, l) /\ SameMarks(D \ {a}, k, l) /\ l.mcb[a].is_free = TRUE
  <2>1. l = LinkFree(k, a)
    BY <1>3
  <2>2. /\ Lists(l, D, F \cup {a}, B) /\ SameBlocks(D, k, l) /\ SameMarks(D \ {a}, k, l)
        /\ l.mcb[a].is_free = TRUE
    BY ONLY <1>5, <1>6, <2>1, LinkFreeSound
  <2> QED
    BY <1>3, <2>2
<1>8. SameBlocks(D, h, l) /\ SameMarks(D \ {a}, h, l)
  BY ONLY <1>5, <1>7 DEF SameBlocks, SameMarks
<1>9. Whole(l, D, G, B)
  <2>1. D = G \cup B
    BY <1>1, <1>2, <1>3
  <2>2. \A x \in G : l.mcb[x].is_free = TRUE
    BY <1>1, <1>2, <1>3, <1>7, <1>8 DEF SameMarks
  <2>3. \A x \in B : l.mcb[x].is_free = FALSE
    BY <1>1, <1>2, <1>3, <1>8 DEF SameMarks
  <2> QED
    BY <1>7, <2>1, <2>2, <2>3 DEF Whole
<1>10. RowFacts(blocks, h, D)
  BY <1>2, InRow
<1>11. PICK i \in DOMAIN blocks : blocks[i].addr = a
  BY <1>2, <1>10 DEF RowFacts
<1>12. blocks \in Seq(Block) /\ i \in 1..Len(blocks) /\ ~blocks[i].free
  BY <1>1, <1>10, <1>11 DEF RowFacts
<1>13. PICK s : s = [blocks EXCEPT ![i].free = TRUE]
  OBVIOUS
<1>14. Describes(s, l, D)
  <2>1. a = blocks[i].addr /\ TRUE \in BOOLEAN
    BY <1>11
  <2> QED
    BY ONLY <1>2, <1>7, <1>8, <1>12, <1>13, <2>1, Describes(blocks, h, D), RowMarked
<1>15. PICK r : r = Forward(s, i)
  OBVIOUS
<1>16. i \in DOMAIN r /\ r[i].addr = a /\ FreeRow(i, Backward(r, i))
  <2>1. /\ i \in DOMAIN r /\ r[i].addr = blocks[i].addr
        /\ FreeRow(i, Backward(r, i))
    BY ONLY <1>11, <1>12, <1>13, <1>15, FreedRow
  <2> QED
    BY <1>11, <2>1
<1>17. Follows(l, m, B, r)
  <2>1. i \in DOMAIN s
    BY <1>13
  <2>2. a = s[i].addr
    BY <1>10, <1>11, <1>12, <1>13 DEF RowFacts, Block
  <2>3. a \in G /\ m = MergeNext(l, a)
    BY <1>3
  <2>4. Follows(l, m, B, Forward(s, i))
    BY ONLY <1>9, <1>14, <2>1, <2>2, <2>3, MergesNext
  <2> QED
    BY ONLY <1>15, <2>4
<1>18. PICK E, K : Whole(m, E, K, B) /\ Describes(r, m, E) /\ SameSizes(B, l, m)
  BY <1>17 DEF Follows
<1>19. a \in K
  <2>1. E \in SUBSET Nat
    BY <1>18, ListsParts DEF Whole
  <2>2. RowFacts(r, m, E)
    BY <1>18, <2>1, InRow
  <2>3. a \in E
    BY <1>16, <2>2 DEF RowFacts
  <2> QED
    BY <1>3, <1>18, <2>3 DEF Whole
<1>20. Follows(m, g, B, Backward(r, i))
  <2>1. a = r[i].addr
    BY <1>16
  <2> QED
    BY ONLY <1>4, <1>16, <1>18, <1>19, <2>1, MergesPrev
<1>21. Follows(h, g, B, Backward(r, i))
  <2>1. PICK I, J : /\ Whole(g, I, J, B) /\ Describes(Backward(r, i), g, I)
                    /\ SameSizes(B, m, g)
    BY <1>20 DEF Follows
  <2>2. SameSizes(B, h, l)
    BY <1>2, <1>3, <1>8 DEF SameSizes, SameBlocks
  <2>3. SameSizes(B, h, g)
    BY ONLY <1>18, <2>1, <2>2 DEF SameSizes
  <2> QED
    BY ONLY <2>1, <2>3 DEF Follows
<1>22. Becomes(Backward(r, i))
  BY <1>11, <1>16 DEF Becomes
<1> QED
  BY <1>3, <1>21, <1>22

-----------------------------------------------------------------------------

(***************************************************************************)
(* The invariant of the whole heap: the row is what the lists show, every  *)
(* block is on the list its mark says, and what callers hold are the       *)
(* starts of the allocated blocks, each as large as was asked for.         *)
(***************************************************************************)

Busy == DOMAIN hm.mcb \ FreeBlocks

HeapOK ==
  /\ Inv
  /\ blocks = Row
  /\ Whole(hm, DOMAIN hm.mcb, FreeBlocks, Busy)
  /\ DOMAIN owned = {start_address(a) : a \in Busy}
  /\ \A a \in Busy : /\ owned[start_address(a)] \in Nat
                     /\ owned[start_address(a)] <= hm.mcb[a].size

\* There is only one way to see a heap as whole.
LEMMA WholeOnce ==
  ASSUME NEW h, NEW D, NEW F, NEW A, Whole(h, D, F, A)
  PROVE  D = DOMAIN h.mcb /\ F = {a \in DOMAIN h.mcb : h.mcb[a].is_free} /\ A = D \ F
PROOF
<1>1. D = DOMAIN h.mcb /\ F \cap A = {} /\ F \subseteq D /\ A \subseteq D
  BY ListsParts DEF Whole
<1>2. D = F \cup A /\ \A x \in D : h.mcb[x].is_free <=> x \in F
  BY <1>1 DEF Whole
<1> QED
  BY <1>1, <1>2

\* The state after a step that keeps the heap whole.
LEMMA NextWhole ==
  ASSUME NEW D, NEW F, NEW A, Whole(hm', D, F, A), NEW s, Describes(s, hm', D), blocks' = Row'
  PROVE  /\ blocks' = s /\ Busy' = A
         /\ (Whole(hm, DOMAIN hm.mcb, FreeBlocks, Busy))'
PROOF
<1>1. D \in SUBSET Nat /\ Lists(hm', D, F, A)
  BY ListsParts DEF Whole
<1>2. D = DOMAIN hm'.mcb /\ F = FreeBlocks' /\ A = Busy'
  BY WholeOnce DEF FreeBlocks, Busy
<1>3. Row' = RowOf(hm')
  BY DEF Row, RowOf
<1>4. PICK r : r = RowOf(hm')
  OBVIOUS
<1>5. Describes(r, hm', D)
  BY ONLY <1>1, <1>4, RowDescribes
<1>6. r = s
  BY ONLY <1>1, <1>5, Describes(s, hm', D), OneRow
<1> QED
  BY <1>2, <1>3, <1>4, <1>6

\* initialize_heap makes one free block of the whole heap.
LEMMA HeapStarts ==
  ASSUME HeapInit, blocks = Row
  PROVE  HeapOK /\ Init
PROOF
<1>1. PICK s, D : s = << [addr |-> 0, size |-> HeapSize - MCBSize, free |-> TRUE] >> /\ D = {0}
  OBVIOUS
<1>2. PICK m : m = HeapSize - MCBSize
  OBVIOUS
<1>3. m \in Nat
  BY <1>2, HeapAssumption
<1>4. /\ hm.mcb = [a \in D |-> [size |-> m, is_free |-> TRUE, next |-> NULL, prev |-> NULL,
                                rel_next |-> NULL, rel_prev |-> NULL]]
      /\ hm.free_list = 0 /\ hm.allocated_list = NULL /\ DOMAIN hm.mcb = D
  BY <1>1, <1>2 DEF HeapInit, initialize_heap
<1>5. hm \in Heaps(D)
  <2>1. hm = [mcb |-> [a \in D |-> [size |-> m, is_free |-> TRUE, next |-> NULL, prev |-> NULL,
                                    rel_next |-> NULL, rel_prev |-> NULL]],
              free_list |-> 0, allocated_list |-> NULL]
    BY <1>1, <1>2 DEF HeapInit, initialize_heap
  <2> QED
    BY <1>3, <2>1 DEF Heaps, MCB, Ptr
<1>6. Whole(hm, D, D, {})
  <2>1. D \in SUBSET (0..HeapSize) /\ D \in SUBSET Nat
    BY <1>1, HeapAssumption
  <2>2. /\ Links(hm, "next")[0] = NULL /\ Links(hm, "prev")[0] = NULL
        /\ Links(hm, "rel_next")[0] = NULL /\ Links(hm, "rel_prev")[0] = NULL
    BY <1>1, <1>4, NullAssumption DEF Links
  <2>3. IsFirst(D, 0) /\ IsNext(D, 0, NULL) /\ IsPrev(D, 0, NULL) /\ IsFirst({}, NULL)
    BY <1>1 DEF IsFirst, IsNext, IsPrev
  <2>4. AllList(D, hm) /\ RelList(D, 0, hm)
    BY ONLY <1>1, <2>2, <2>3 DEF AllList, RelList, IsOrdered
  <2>5. RelList({}, NULL, hm)
    BY ONLY <2>3 DEF RelList, IsOrdered
  <2>6. Lists(hm, D, D, {})
    BY ONLY <1>4, <1>5, <2>1, <2>4, <2>5 DEF Lists
  <2> QED
    BY <1>1, <1>4, <2>6 DEF Whole
<1>7. Describes(s, hm, D)
  <2>1. PICK b : b = [addr |-> 0, size |-> m, free |-> TRUE]
    OBVIOUS
  <2>2. b \in Block /\ b.addr = 0 /\ b.size = m /\ b.free = TRUE
    BY <1>3, <2>1 DEF Block
  <2>3. s = <<b>>
    BY <1>1, <1>2, <2>1
  <2>4. s \in Seq(Block) /\ Len(s) = 1 /\ s[1] = b
    BY <2>2, <2>3
  <2>5. hm.mcb[0].size = m /\ hm.mcb[0].is_free = TRUE
    BY <1>1, <1>4
  <2>6. \A i \in 1..Len(s) : i = 1
    BY ONLY <2>4
  <2>7. \A i \in 1..Len(s) : s[i].addr = 0 /\ s[i].size = m /\ s[i].free = TRUE
    BY ONLY <2>2, <2>4, <2>6
  <2>8. \A x \in D : x = s[1].addr /\ 1 \in 1..Len(s)
    BY <1>1, <2>2, <2>4
  <2>9. \A i, j \in 1..Len(s) : ~(i < j)
    BY ONLY <2>4
  <2>10. 0 \in D
    BY <1>1
  <2> QED
    BY ONLY <2>4, <2>5, <2>7, <2>8, <2>9, <2>10 DEF Describes
<1>8. blocks = s /\ Busy = {} /\ Whole(hm, DOMAIN hm.mcb, FreeBlocks, Busy)
  <2>1. D \in SUBSET Nat /\ Lists(hm, D, D, {})
    BY <1>6, ListsParts DEF Whole
  <2>2. D = DOMAIN hm.mcb /\ D = FreeBlocks /\ Busy = {}
    BY <1>6, WholeOnce DEF FreeBlocks, Busy
  <2>3. PICK r : r = RowOf(hm)
    OBVIOUS
  <2>4. Describes(r, hm, D)
    BY ONLY <2>1, <2>3, RowDescribes
  <2>5. r = s
    BY ONLY <1>7, <2>1, <2>4, OneRow
  <2>6. blocks = RowOf(hm)
    BY DEF Row, RowOf
  <2> QED
    BY <1>6, <2>2, <2>3, <2>5, <2>6
<1>9. Init
  BY <1>1, <1>8 DEF Init
<1>10. Inv
  BY <1>9, InitInv
<1>11. DOMAIN owned = {}
  BY DEF HeapInit
<1> QED
  BY <1>8, <1>9, <1>10, <1>11 DEF HeapOK

\* What the clients do to the heap: they give back only what they hold.
HeapStep ==
  \/ UNCHANGED <<hm, owned>>
  \/ \E n \in Sizes : allocate_memory(n)
  \/ \E ptr \in DOMAIN owned : free_memory(ptr)

\* What HeapOK says, for the lemmas about the functions.
LEMMA HeapFacts ==
  ASSUME HeapOK
  PROVE  LET D == DOMAIN hm.mcb
         IN  /\ Whole(hm, D, FreeBlocks, Busy) /\ Describes(blocks, hm, D)
             /\ D \in SUBSET Nat /\ Busy \subseteq D
PROOF
<1>1. PICK D : D = DOMAIN hm.mcb
  OBVIOUS
<1>2. Whole(hm, D, FreeBlocks, Busy) /\ Lists(hm, D, FreeBlocks, Busy)
  BY <1>1 DEF HeapOK, Whole
<1>3. PICK r : r = RowOf(hm)
  OBVIOUS
<1>4. Describes(r, hm, D)
  BY ONLY <1>2, <1>3, RowDescribes
<1>5. blocks = r
  BY <1>3 DEF HeapOK, Row, RowOf
<1>6. D \in SUBSET Nat /\ Busy \subseteq D
  BY ONLY <1>2, ListsParts
<1> QED
  BY <1>1, <1>2, <1>4, <1>5, <1>6

\* A step that leaves the heap alone.
LEMMA HeapKept ==
  ASSUME HeapOK, UNCHANGED <<hm, owned>>, blocks' = Row'
  PROVE  HeapOK' /\ UNCHANGED blocks
PROOF
<1>1. Row = RowOf(hm) /\ Row' = RowOf(hm')
  BY DEF Row, RowOf
<1>2. blocks' = blocks
  BY <1>1 DEF HeapOK
<1>3. Inv'
  BY <1>2, NextInv DEF HeapOK
<1>4. FreeBlocks' = FreeBlocks /\ Busy' = Busy
  BY DEF FreeBlocks, Busy
<1> QED
  BY <1>2, <1>3, <1>4 DEF HeapOK

\* allocate_memory gives the caller a new block, of the size asked for at
\* least, or nothing.
Granted ==
  \/ ret' = NULL /\ DOMAIN owned' = DOMAIN owned
  \/ /\ ret' # NULL /\ ret' \in Nat /\ ret' \notin DOMAIN owned
     /\ DOMAIN owned' = DOMAIN owned \cup {ret'}

LEMMA AllocateKeeps ==
  ASSUME HeapOK, NEW n \in Sizes, allocate_memory(n), blocks' = Row'
  PROVE  HeapOK' /\ [Next]_blocks /\ Granted
PROOF
<1>1. PICK a : a = FindFit(hm, n)
  OBVIOUS
<1>2. CASE a = NULL
  <2>1. UNCHANGED <<hm, owned>> /\ ret' = NULL
    BY <1>1, <1>2 DEF allocate_memory
  <2> QED
    BY <2>1, HeapKept DEF Granted
<1>3. CASE a # NULL
  <2>1. PICK D, F, A : D = DOMAIN hm.mcb /\ F = FreeBlocks /\ A = Busy
    OBVIOUS
  <2>2. /\ Whole(hm, D, F, A) /\ Describes(blocks, hm, D) /\ D \in SUBSET Nat /\ A \subseteq D
        /\ F \subseteq D
    BY <2>1, HeapFacts DEF FreeBlocks
  <2>3. /\ hm' = Taken(hm, a, n) /\ owned' = Put(owned, start_address(a), n)
        /\ ret' = start_address(a)
    BY <1>1, <1>3 DEF allocate_memory, Taken
  <2>4. PICK g : g = hm'
    OBVIOUS
  <2>5. a \in F /\ Obtained(hm, g, A, a, n)
    <3>1. Inv
      BY DEF HeapOK
    <3> QED
      BY ONLY <1>1, <1>3, <2>2, <2>3, <2>4, <3>1, n \in Sizes, Allocates
  <2>6. PICK E, G, s : /\ Whole(g, E, G, A \cup {a}) /\ Describes(s, g, E) /\ Becomes(s)
                       /\ SameSizes(A, hm, g) /\ g.mcb[a].size >= n
    BY <2>5 DEF Obtained
  <2>7. blocks' = s /\ Busy' = A \cup {a} /\ (Whole(hm, DOMAIN hm.mcb, FreeBlocks, Busy))'
    BY <2>4, <2>6, NextWhole
  <2>8. Next
    BY <2>6, <2>7, BecomesNext
  <2>9. Inv'
    BY <2>8, NextInv DEF HeapOK
  <2>10. a \in Nat /\ n \in Nat /\ a \notin A /\ \A x \in A : x \in Nat
    BY <2>1, <2>2, <2>5, HeapAssumption DEF Busy
  <2>11. \A x \in A : start_address(x) # start_address(a)
    <3> TAKE x \in A
    <3>1. x # a /\ x \in Nat /\ MCBSize \in Nat
      BY <2>10, HeapAssumption
    <3> QED
      BY ONLY <2>10, <3>1 DEF start_address
  <2>12. /\ DOMAIN owned = {start_address(x) : x \in A}
         /\ \A x \in A : /\ owned[start_address(x)] \in Nat
                         /\ owned[start_address(x)] <= hm.mcb[x].size
    BY <2>1 DEF HeapOK
  <2>13. /\ DOMAIN owned' = DOMAIN owned \cup {start_address(a)}
         /\ owned'[start_address(a)] = n
         /\ \A x \in A : owned'[start_address(x)] = owned[start_address(x)]
    BY <2>3, <2>11, <2>12 DEF Put
  <2>14. DOMAIN owned' = {start_address(x) : x \in Busy'}
    BY <2>7, <2>12, <2>13
  <2>15. \A x \in Busy' : /\ owned'[start_address(x)] \in Nat
                          /\ owned'[start_address(x)] <= hm'.mcb[x].size
    <3>1. n <= g.mcb[a].size
      <4>1. g.mcb[a].size \in Nat
        <5>1. E \in SUBSET Nat /\ g \in Heaps(E) /\ a \in E
          BY <2>6, ListsParts DEF Whole
        <5> QED
          BY <5>1, HeapType
      <4> QED
        BY ONLY <2>6, <2>10, <4>1
    <3>2. \A x \in A : hm'.mcb[x].size = hm.mcb[x].size
      BY <2>4, <2>6 DEF SameSizes
    <3> QED
      BY <2>4, <2>7, <2>10, <2>12, <2>13, <3>1, <3>2
  <2>16. HeapOK'
    BY <2>7, <2>9, <2>14, <2>15 DEF HeapOK
  <2>17. Granted
    <3>1. start_address(a) # NULL /\ start_address(a) \in Nat
      BY <2>10, HeapAssumption, NullAssumption DEF start_address
    <3>2. start_address(a) \notin DOMAIN owned
      BY <2>11, <2>12
    <3> QED
      BY <2>3, <2>13, <3>1, <3>2 DEF Granted
  <2> QED
    BY <2>8, <2>16, <2>17
<1> QED
  BY <1>2, <1>3

\* free_memory takes back a block that is held.
LEMMA FreeKeeps ==
  ASSUME HeapOK, NEW ptr \in DOMAIN owned, free_memory(ptr), blocks' = Row'
  PROVE  HeapOK' /\ [Next]_blocks /\ ret' = 0 /\ DOMAIN owned' = DOMAIN owned \ {ptr}
PROOF
<1>1. PICK D, F, A : D = DOMAIN hm.mcb /\ F = FreeBlocks /\ A = Busy
  OBVIOUS
<1>2. /\ Whole(hm, D, F, A) /\ Describes(blocks, hm, D) /\ D \in SUBSET Nat /\ A \subseteq D
  BY <1>1, HeapFacts
<1>3. /\ DOMAIN owned = {start_address(x) : x \in A}
      /\ \A x \in A : /\ owned[start_address(x)] \in Nat
                      /\ owned[start_address(x)] <= hm.mcb[x].size
  BY <1>1 DEF HeapOK
<1>4. PICK a \in A : ptr = start_address(a)
  BY <1>3
<1>5. PICK b : b = FirstOf(Links(hm, "next"), hm.allocated_list,
                           {x \in DOMAIN hm.mcb : start_address(x) = ptr})
  OBVIOUS
<1>6. b = a
  BY ONLY <1>2, <1>4, <1>5, HeldFound
<1>7. a \in Nat /\ a # NULL /\ \A x \in A : x \in Nat
  BY <1>2, NullAssumption
<1>8. /\ hm' = Given(hm, a) /\ owned' = Restrict(owned, DOMAIN owned \ {ptr}) /\ ret' = 0
  BY <1>5, <1>6, <1>7 DEF free_memory, Given
<1>9. PICK g : g = hm'
  OBVIOUS
<1>10. PICK s : Follows(hm, g, A \ {a}, s) /\ Becomes(s)
  <2>1. g = Given(hm, a)
    BY <1>8, <1>9
  <2>2. \E s : Follows(hm, g, A \ {a}, s) /\ Becomes(s)
    BY ONLY <1>2, <2>1, a \in A, Frees
  <2> QED
    BY <2>2
<1>11. PICK E, G : Whole(g, E, G, A \ {a}) /\ Describes(s, g, E) /\ SameSizes(A \ {a}, hm, g)
  BY <1>10 DEF Follows
<1>12. blocks' = s /\ Busy' = A \ {a} /\ (Whole(hm, DOMAIN hm.mcb, FreeBlocks, Busy))'
  BY <1>9, <1>11, NextWhole
<1>13. Next
  BY <1>10, <1>12, BecomesNext
<1>14. Inv'
  BY <1>13, NextInv DEF HeapOK
<1>15. \A x \in A \ {a} : start_address(x) # ptr
  <2> TAKE x \in A \ {a}
  <2>1. x # a /\ x \in Nat /\ MCBSize \in Nat
    BY <1>7, HeapAssumption
  <2> QED
    BY ONLY <1>4, <1>7, <2>1 DEF start_address
<1>16. /\ DOMAIN owned' = DOMAIN owned \ {ptr}
       /\ \A x \in A \ {a} : owned'[start_address(x)] = owned[start_address(x)]
  BY <1>3, <1>8, <1>15 DEF Restrict
<1>17. DOMAIN owned' = {start_address(x) : x \in Busy'}
  BY <1>3, <1>4, <1>12, <1>15, <1>16
<1>18. \A x \in Busy' : /\ owned'[start_address(x)] \in Nat
                        /\ owned'[start_address(x)] <= hm'.mcb[x].size
  <2>1. \A x \in A \ {a} : hm'.mcb[x].size = hm.mcb[x].size
    BY <1>9, <1>11 DEF SameSizes
  <2> QED
    BY <1>3, <1>12, <1>16, <2>1
<1>19. HeapOK'
  BY <1>12, <1>14, <1>17, <1>18 DEF HeapOK
<1> QED
  BY <1>8, <1>13, <1>16, <1>19

-----------------------------------------------------------------------------

(***************************************************************************)
(* Who holds the allocated blocks.                                         *)
(***************************************************************************)

\* Where an operation has a block in hand.
Hands == {"name", "undo", "pcb", "evict"}

LinesOf(s) == {s[i] : i \in 1..Len(s)}
Distinct(s) == \A i, j \in 1..Len(s) : s[i] = s[j] => i = j

Names == {procs[p].name : p \in DOMAIN procs}
InHand == IF pc \in Hands THEN {arg} ELSE {}

\* The sets part O: everything in it is in one of them, and in one only.
Parted(O, P, N, H, U, X) ==
  /\ O = P \cup N \cup H \cup U \cup X
  /\ P \cap (N \cup H \cup U \cup X) = {}
  /\ N \cap (H \cup U \cup X) = {}
  /\ H \cap (U \cup X) = {}
  /\ U \cap X = {}

NamesDistinct == \A p, q \in DOMAIN procs : procs[p].name = procs[q].name => p = q

OneHolder ==
  /\ Parted(DOMAIN owned, DOMAIN procs, Names, LinesOf(history), held, InHand)
  /\ NamesDistinct
  /\ history \in Seq(Nat) /\ Distinct(history)
  /\ back \notin Hands

ClientsInv == HeapOK /\ OneHolder

\* A new line in the history ...
LEMMA LinePushed ==
  ASSUME NEW s \in Seq(Nat), Distinct(s), NEW r \in Nat, r \notin LinesOf(s),
         NEW t, t = <<r>> \o s
  PROVE  t \in Seq(Nat) /\ Distinct(t) /\ LinesOf(t) = {r} \cup LinesOf(s)
PROOF
<1>1. PICK L : L = Len(s)
  OBVIOUS
<1>2. L \in Nat
  BY <1>1, LenProperties
<1>3. /\ t \in Seq(Nat) /\ Len(t) = L + 1
      /\ \A i \in 1..(L + 1) : t[i] = IF i <= 1 THEN r ELSE s[i - 1]
  <2>1. <<r>> \in Seq(Nat) /\ Len(<<r>>) = 1 /\ <<r>>[1] = r
    OBVIOUS
  <2>2. /\ t \in Seq(Nat) /\ Len(t) = 1 + Len(s)
        /\ \A i \in 1..(1 + Len(s)) : t[i] = IF i <= 1 THEN <<r>>[i] ELSE s[i - 1]
    BY <2>1, ConcatProperties
  <2>3. 1 + L = L + 1
    BY <1>2
  <2> QED
    BY ONLY <1>1, <1>2, <2>1, <2>2, <2>3
<1>4. t[1] = r /\ \A i \in 1..L : t[i + 1] = s[i] /\ i + 1 \in 1..(L + 1)
  <2>1. 1 \in 1..(L + 1)
    BY ONLY <1>2
  <2>2. \A i \in 1..L : i + 1 \in 1..(L + 1) /\ ~(i + 1 <= 1) /\ (i + 1) - 1 = i
    BY ONLY <1>2
  <2> QED
    BY ONLY <1>3, <2>1, <2>2
<1>5. \A i \in 1..(L + 1) : i = 1 \/ (i - 1 \in 1..L /\ t[i] = s[i - 1])
  <2>1. \A i \in 1..(L + 1) : i = 1 \/ (i - 1 \in 1..L /\ ~(i <= 1))
    BY ONLY <1>2
  <2> QED
    BY ONLY <1>3, <2>1
<1>6. LinesOf(t) = {r} \cup LinesOf(s)
  <2>1. ASSUME NEW x \in LinesOf(t) PROVE x \in {r} \cup LinesOf(s)
    <3>1. PICK i \in 1..(L + 1) : x = t[i]
      BY <1>3 DEF LinesOf
    <3> QED
      BY <1>1, <1>4, <1>5, <3>1 DEF LinesOf
  <2>2. ASSUME NEW x \in {r} \cup LinesOf(s) PROVE x \in LinesOf(t)
    <3>1. CASE x = r
      <4>1. 1 \in 1..Len(t)
        BY ONLY <1>2, <1>3
      <4> QED
        BY <1>4, <3>1, <4>1 DEF LinesOf
    <3>2. CASE x \in LinesOf(s)
      <4>1. PICK i \in 1..L : x = s[i]
        BY <1>1, <3>2 DEF LinesOf
      <4> QED
        BY <1>3, <1>4, <4>1 DEF LinesOf
    <3> QED
      BY <3>1, <3>2
  <2> QED
    BY <2>1, <2>2
<1>7. ASSUME NEW i \in 1..(L + 1), NEW j \in 1..(L + 1), t[i] = t[j] PROVE i = j
  <2>1. \A k \in 1..L : s[k] # r
    BY <1>1 DEF LinesOf
  <2>2. CASE i = 1 \/ j = 1
    <3>1. \A k \in 1..(L + 1) : t[k] = r => k = 1
      BY <1>5, <2>1
    <3>2. t[i] = r /\ t[j] = r
      BY <1>4, <1>7, <2>2
    <3> QED
      BY ONLY <3>1, <3>2, i \in 1..(L + 1), j \in 1..(L + 1)
  <2>3. CASE i # 1 /\ j # 1
    <3>1. i - 1 = j - 1
      BY <1>1, <1>5, <1>7, <2>3 DEF Distinct
    <3> QED
      BY ONLY <1>2, <3>1, i \in 1..(L + 1), j \in 1..(L + 1)
  <2> QED
    BY <2>2, <2>3
<1>8. Distinct(t)
  BY <1>3, <1>7 DEF Distinct
<1> QED
  BY <1>3, <1>6, <1>8

\* ... and the last line without which the history goes on.
LEMMA LineDropped ==
  ASSUME NEW s \in Seq(Nat), Distinct(s), Len(s) > 0
  PROVE  /\ Front(s) \in Seq(Nat) /\ Distinct(Front(s))
         /\ Last(s) \in LinesOf(s)
         /\ LinesOf(Front(s)) = LinesOf(s) \ {Last(s)}
PROOF
<1>1. PICK L, t : L = Len(s) /\ t = Front(s)
  OBVIOUS
<1>2. L \in Nat /\ L > 0 /\ L \in 1..L /\ \A i \in 1..(L - 1) : i \in 1..L /\ i # L
  <2>1. L \in Nat /\ L > 0
    BY <1>1, LenProperties
  <2> QED
    BY ONLY <2>1
<1>3. t \in Seq(Nat) /\ Len(t) = L - 1 /\ \A i \in 1..(L - 1) : t[i] = s[i]
  <2>1. t = SubSeq(s, 1, L - 1)
    BY <1>1 DEF Front
  <2>2. PICK m : m = L - 1
    OBVIOUS
  <2>3. m \in 0..Len(s)
    BY ONLY <1>1, <1>2, <2>2
  <2>4. t = SubSeq(s, 1, m)
    BY ONLY <2>1, <2>2
  <2>5. t \in Seq(Nat) /\ Len(t) = m /\ \A i \in 1..m : t[i] = s[i]
    BY ONLY s \in Seq(Nat), <2>3, <2>4
  <2> QED
    BY ONLY <2>2, <2>5
<1>4. Last(s) = s[L]
  BY <1>1 DEF Last
<1>5. Distinct(t)
  BY <1>1, <1>2, <1>3 DEF Distinct
<1>6. Last(s) \in LinesOf(s)
  BY <1>1, <1>2, <1>4 DEF LinesOf
<1>7. ASSUME NEW x \in LinesOf(t) PROVE x \in LinesOf(s) \ {Last(s)}
  <2>1. PICK i \in 1..(L - 1) : x = s[i]
    BY <1>3 DEF LinesOf
  <2>2. x # s[L]
    BY <1>1, <1>2, <2>1 DEF Distinct
  <2> QED
    BY <1>1, <1>2, <1>4, <2>1, <2>2 DEF LinesOf
<1>8. ASSUME NEW x \in LinesOf(s) \ {Last(s)} PROVE x \in LinesOf(t)
  <2>1. PICK i \in 1..L : x = s[i]
    BY <1>1 DEF LinesOf
  <2>2. i # L
    BY <1>4, <2>1
  <2>3. i \in 1..(L - 1)
    BY ONLY <1>2, <2>2, i \in 1..L
  <2> QED
    BY <1>3, <2>1, <2>3 DEF LinesOf
<1> QED
  BY <1>1, <1>3, <1>5, <1>6, <1>7, <1>8

\* A step of a client that leaves the heap alone, ...
LEMMA ClientKeeps ==
  ASSUME ClientsInv, UNCHANGED <<hm, owned>>, blocks' = Row', procs' = procs,
         history' = history, held' = held, pc \notin Hands, pc' \notin Hands, back' \notin Hands
  PROVE  ClientsInv' /\ [Next]_blocks
PROOF
<1>1. HeapOK' /\ UNCHANGED blocks
  BY HeapKept DEF ClientsInv
<1>2. Names' = Names /\ InHand' = InHand
  BY DEF Names, InHand
<1>3. OneHolder'
  BY <1>2 DEF ClientsInv, OneHolder, NamesDistinct
<1> QED
  BY <1>1, <1>3 DEF ClientsInv

\* ... one that gets a block, or does not, ...
LEMMA ClientTakes ==
  ASSUME ClientsInv, NEW n \in Sizes, allocate_memory(n), blocks' = Row', OneHolder'
  PROVE  ClientsInv' /\ [Next]_blocks
PROOF
<1>1. HeapOK' /\ [Next]_blocks
  BY AllocateKeeps DEF ClientsInv
<1> QED
  BY <1>1 DEF ClientsInv

\* ... and one that gives the block in hand back.
LEMMA ClientGives ==
  ASSUME ClientsInv, pc \in Hands, free_memory(arg), blocks' = Row', procs' = procs,
         history' = history, held' = held, pc' \notin Hands, back' \notin Hands
  PROVE  ClientsInv' /\ [Next]_blocks
PROOF
<1>1. InHand = {arg} /\ InHand' = {} /\ Names' = Names
  BY DEF InHand, Names
<1>2. Parted(DOMAIN owned, DOMAIN procs, Names, LinesOf(history), held, InHand)
  BY DEF ClientsInv, OneHolder
<1>3. arg \in DOMAIN owned
  BY <1>1, <1>2 DEF Parted
<1>4. HeapOK' /\ [Next]_blocks /\ DOMAIN owned' = DOMAIN owned \ {arg}
  BY <1>3, FreeKeeps DEF ClientsInv
<1>5. Parted(DOMAIN owned', DOMAIN procs, Names, LinesOf(history), held, {})
  BY ONLY <1>1, <1>2, <1>4 DEF Parted
<1>6. OneHolder'
  BY <1>1, <1>5 DEF ClientsInv, OneHolder, NamesDistinct
<1> QED
  BY <1>4, <1>6 DEF ClientsInv

\* What an allocation returns, to a client that had no block in hand or keeps it.
LEMMA ClientAsks ==
  ASSUME ClientsInv, NEW n \in Sizes, allocate_memory(n), blocks' = Row'
  PROVE  Granted
PROOF
  BY AllocateKeeps DEF ClientsInv

\* The first allocation of pcb_setup.
LEMMA PcbTaken == ClientsInv /\ pcb_allocate /\ blocks' = Row' => ClientsInv' /\ [Next]_blocks
PROOF
<1> SUFFICES ASSUME ClientsInv, pcb_allocate, blocks' = Row' PROVE ClientsInv' /\ [Next]_blocks
  OBVIOUS
<1>1. PcbSize \in Sizes /\ allocate_memory(PcbSize)
  BY ProcessHeapAssumption DEF pcb_allocate, sys_alloc_mem
<1>2. /\ pc \in {"boot", "load"} /\ procs' = procs /\ history' = history /\ held' = held
      /\ IF ret' = NULL THEN Goto(SetupFailed(pc)) ELSE GoOn("name", pc, ret')
  BY DEF pcb_allocate, clients
<1>3. Granted
  BY <1>1, ClientAsks
<1>4. InHand = {} /\ Names' = Names
  BY <1>2 DEF InHand, Hands, Names
<1>5. Parted(DOMAIN owned, DOMAIN procs, Names, LinesOf(history), held, {})
  BY <1>4 DEF ClientsInv, OneHolder
<1>6. Parted(DOMAIN owned', DOMAIN procs, Names, LinesOf(history), held, InHand') /\ back' \notin Hands
  <2>1. CASE ret' = NULL
    <3>1. InHand' = {} /\ back' \notin Hands
      BY <1>2, <2>1 DEF Goto, SetupFailed, InHand, Hands
    <3>2. DOMAIN owned' = DOMAIN owned
      BY <1>3, <2>1 DEF Granted
    <3> QED
      BY <1>5, <3>1, <3>2
  <2>2. CASE ret' # NULL
    <3>1. InHand' = {ret'} /\ back' \notin Hands
      BY <1>2, <2>2 DEF GoOn, InHand, Hands
    <3>2. ret' \notin DOMAIN owned /\ DOMAIN owned' = DOMAIN owned \cup {ret'}
      BY <1>3, <2>2 DEF Granted
    <3> QED
      BY ONLY <1>5, <3>1, <3>2 DEF Parted
  <2> QED
    BY <2>1, <2>2
<1>7. OneHolder'
  BY <1>2, <1>4, <1>6 DEF ClientsInv, OneHolder, NamesDistinct
<1> QED
  BY <1>1, <1>7, ClientTakes

\* The second, which can fail.
LEMMA NameTaken == ClientsInv /\ pcb_setup_name /\ blocks' = Row' => ClientsInv' /\ [Next]_blocks
PROOF
<1> SUFFICES ASSUME ClientsInv, pcb_setup_name, blocks' = Row' PROVE ClientsInv' /\ [Next]_blocks
  OBVIOUS
<1>1. PICK n \in Sizes : allocate_memory(n)
  BY ProcessHeapAssumption DEF pcb_setup_name, sys_alloc_mem
<1>2. /\ pc = "name" /\ history' = history /\ held' = held
      /\ IF ret' = NULL
         THEN GoOn("undo", back, arg) /\ procs' = procs
         ELSE /\ Goto(back)
              /\ procs' = Put(procs, arg, [name |-> ret', role |-> Role(back)])
  BY DEF pcb_setup_name
<1>3. Granted
  BY <1>1, ClientAsks
<1>4. InHand = {arg} /\ back \notin Hands
  BY <1>2 DEF InHand, Hands, ClientsInv, OneHolder
<1>5. Parted(DOMAIN owned, DOMAIN procs, Names, LinesOf(history), held, {arg})
  BY <1>4 DEF ClientsInv, OneHolder
<1>6. /\ Parted(DOMAIN owned', DOMAIN procs', Names', LinesOf(history), held, InHand')
      /\ NamesDistinct' /\ back' \notin Hands
  <2>1. CASE ret' = NULL
    <3>1. InHand' = {arg} /\ back' \notin Hands /\ procs' = procs
      BY <1>2, <1>4, <2>1 DEF GoOn, InHand, Hands
    <3>2. Names' = Names /\ NamesDistinct'
      BY <3>1 DEF Names, NamesDistinct, ClientsInv, OneHolder
    <3>3. DOMAIN owned' = DOMAIN owned
      BY <1>3, <2>1 DEF Granted
    <3> QED
      BY <1>5, <3>1, <3>2, <3>3
  <2>2. CASE ret' # NULL
    <3>1. InHand' = {} /\ back' \notin Hands
      BY <1>2, <1>4, <2>2 DEF Goto, InHand, Hands
    <3>2. arg \notin DOMAIN procs /\ \A p \in DOMAIN procs : procs[p].name \in Names
      BY <1>5 DEF Parted, Names
    <3>3. /\ DOMAIN procs' = DOMAIN procs \cup {arg} /\ procs'[arg].name = ret'
          /\ \A p \in DOMAIN procs : procs'[p] = procs[p]
      BY <1>2, <2>2, <3>2 DEF Put
    <3>4. Names' = Names \cup {ret'}
      BY ONLY <3>3 DEF Names
    <3>5. ret' \notin DOMAIN owned /\ DOMAIN owned' = DOMAIN owned \cup {ret'}
      BY <1>3, <2>2 DEF Granted
    <3>6. ret' \notin Names
      BY ONLY <1>5, <3>5 DEF Parted
    <3>7. NamesDistinct
      BY DEF ClientsInv, OneHolder
    <3>8. NamesDistinct'
      BY ONLY <3>2, <3>3, <3>6, <3>7 DEF NamesDistinct
    <3>9. Parted(DOMAIN owned', DOMAIN procs', Names', LinesOf(history), held, {})
      BY ONLY <1>5, <3>3, <3>4, <3>5 DEF Parted
    <3> QED
      BY <3>1, <3>8, <3>9
  <2> QED
    BY <2>1, <2>2
<1>7. OneHolder'
  BY <1>2, <1>6 DEF ClientsInv, OneHolder
<1> QED
  BY <1>1, <1>7, ClientTakes

\* pcb_free gives the name back, and goes on to the PCB.
LEMMA NameGiven ==
  ASSUME ClientsInv, NEW p \in DOMAIN procs, pcb_free(p), blocks' = Row'
  PROVE  ClientsInv' /\ [Next]_blocks
PROOF
<1>1. PICK n : n = procs[p].name
  OBVIOUS
<1>2. PICK after \in {"idle", "ended"} :
        /\ pc \in {"idle", "command", "ended"} /\ history' = history /\ held' = held
        /\ free_memory(n) /\ procs' = Restrict(procs, DOMAIN procs \ {p})
        /\ IF ret' # 0 THEN Goto(after) ELSE GoOn("pcb", after, p)
  BY <1>1 DEF pcb_free, sys_free_mem
<1>3. InHand = {}
  BY <1>2 DEF InHand, Hands
<1>4. Parted(DOMAIN owned, DOMAIN procs, Names, LinesOf(history), held, {}) /\ NamesDistinct
  BY <1>3 DEF ClientsInv, OneHolder
<1>5. n \in DOMAIN owned /\ n \in Names
  BY <1>1, <1>4 DEF Parted, Names
<1>6. HeapOK' /\ [Next]_blocks /\ ret' = 0 /\ DOMAIN owned' = DOMAIN owned \ {n}
  BY <1>2, <1>5, FreeKeeps DEF ClientsInv
<1>7. InHand' = {p} /\ back' \notin Hands
  BY <1>2, <1>6 DEF GoOn, InHand, Hands
<1>8. /\ DOMAIN procs' = DOMAIN procs \ {p}
      /\ \A q \in DOMAIN procs \ {p} : procs'[q] = procs[q]
  BY <1>2 DEF Restrict
<1>9. \A q \in DOMAIN procs \ {p} : procs[q].name # n
  BY <1>1, <1>4 DEF NamesDistinct
<1>10. Names' = Names \ {n}
  BY ONLY <1>1, <1>8, <1>9 DEF Names
<1>11. NamesDistinct'
  BY ONLY <1>4, <1>8 DEF NamesDistinct
<1>12. Parted(DOMAIN owned', DOMAIN procs', Names', LinesOf(history), held, {p})
  BY ONLY <1>4, <1>5, <1>6, <1>8, <1>10, p \in DOMAIN procs DEF Parted
<1>13. OneHolder'
  BY <1>2, <1>7, <1>11, <1>12 DEF ClientsInv, OneHolder
<1> QED
  BY <1>6, <1>13 DEF ClientsInv

\* The history takes a new line, and perhaps drops its last one.
LEMMA LineTaken == ClientsInv /\ serial_poll /\ blocks' = Row' => ClientsInv' /\ [Next]_blocks
PROOF
<1> SUFFICES ASSUME ClientsInv, serial_poll, blocks' = Row' PROVE ClientsInv' /\ [Next]_blocks
  OBVIOUS
<1>1. NodeSize \in Sizes /\ allocate_memory(NodeSize)
  BY ProcessHeapAssumption DEF serial_poll, sys_alloc_mem
<1>2. /\ pc \in {"idle", "command"} /\ procs' = procs /\ held' = held
      /\ IF ret' = NULL
         THEN Goto("panic") /\ history' = history
         ELSE IF Len(history) < BUFFER_LIST_MAX
         THEN Goto("command") /\ history' = <<ret'>> \o history
         ELSE GoOn("evict", "command", Last(history)) /\ history' = <<ret'>> \o Front(history)
  BY DEF serial_poll
<1>3. Granted
  BY <1>1, ClientAsks
<1>4. InHand = {} /\ Names' = Names
  BY <1>2 DEF InHand, Hands, Names
<1>5. /\ Parted(DOMAIN owned, DOMAIN procs, Names, LinesOf(history), held, {})
      /\ history \in Seq(Nat) /\ Distinct(history)
  BY <1>4 DEF ClientsInv, OneHolder
<1>6. /\ Parted(DOMAIN owned', DOMAIN procs, Names, LinesOf(history'), held, InHand')
      /\ history' \in Seq(Nat) /\ Distinct(history') /\ back' \notin Hands
  <2>1. CASE ret' = NULL
    <3>1. InHand' = {} /\ back' \notin Hands /\ history' = history
      BY <1>2, <2>1 DEF Goto, InHand, Hands
    <3>2. DOMAIN owned' = DOMAIN owned
      BY <1>3, <2>1 DEF Granted
    <3> QED
      BY <1>5, <3>1, <3>2
  <2>2. ASSUME ret' # NULL PROVE /\ ret' \in Nat /\ ret' \notin DOMAIN owned
                                /\ DOMAIN owned' = DOMAIN owned \cup {ret'}
                                /\ ret' \notin LinesOf(history)
    <3>1. /\ ret' \in Nat /\ ret' \notin DOMAIN owned
          /\ DOMAIN owned' = DOMAIN owned \cup {ret'}
      BY <1>3, <2>2 DEF Granted
    <3> QED
      BY <1>5, <3>1 DEF Parted
  <2>3. CASE ret' # NULL /\ Len(history) < BUFFER_LIST_MAX
    <3>1. InHand' = {} /\ back' \notin Hands
      BY <1>2, <2>3 DEF Goto, InHand, Hands
    <3>2. PICK r, t : r = ret' /\ t = <<r>> \o history
      OBVIOUS
    <3>3. r \in Nat /\ r \notin LinesOf(history)
      BY <2>2, <2>3, <3>2
    <3>4. t \in Seq(Nat) /\ Distinct(t) /\ LinesOf(t) = {r} \cup LinesOf(history)
      BY ONLY <1>5, <3>2, <3>3, LinePushed
    <3>5. history' = t
      BY <1>2, <2>3, <3>2
    <3>6. r \notin DOMAIN owned /\ DOMAIN owned' = DOMAIN owned \cup {r}
      BY <2>2, <2>3, <3>2
    <3>7. Parted(DOMAIN owned', DOMAIN procs, Names, LinesOf(t), held, {})
      BY ONLY <1>5, <3>4, <3>6 DEF Parted
    <3> QED
      BY <3>1, <3>4, <3>5, <3>7
  <2>4. CASE ret' # NULL /\ ~(Len(history) < BUFFER_LIST_MAX)
    <3>1. PICK r, s, l, t : r = ret' /\ s = Front(history) /\ l = Last(history) /\ t = <<r>> \o s
      OBVIOUS
    <3>2. InHand' = {l} /\ back' \notin Hands /\ history' = t
      BY <1>2, <2>4, <3>1 DEF GoOn, InHand, Hands
    <3>3. Len(history) > 0
      BY <1>5, <2>4, ProcessHeapAssumption, LenProperties
    <3>4. s \in Seq(Nat) /\ Distinct(s) /\ l \in LinesOf(history) /\ LinesOf(s) = LinesOf(history) \ {l}
      BY <1>5, <3>1, <3>3, LineDropped
    <3>5. r \in Nat /\ r \notin LinesOf(s) /\ r # l
      BY <2>2, <2>4, <3>1, <3>4
    <3>6. t \in Seq(Nat) /\ Distinct(t) /\ LinesOf(t) = {r} \cup LinesOf(s)
      <4>1. t = <<r>> \o s
        BY <3>1
      <4> QED
        BY ONLY <3>4, <3>5, <4>1, LinePushed
    <3>7. r \notin DOMAIN owned /\ DOMAIN owned' = DOMAIN owned \cup {r}
      BY <2>2, <2>4, <3>1
    <3>8. Parted(DOMAIN owned', DOMAIN procs, Names, LinesOf(t), held, {l})
      BY ONLY <1>5, <3>4, <3>5, <3>6, <3>7 DEF Parted
    <3> QED
      BY <3>2, <3>6, <3>8
  <2> QED
    BY <2>1, <2>3, <2>4
<1>7. OneHolder'
  BY <1>2, <1>4, <1>6 DEF ClientsInv, OneHolder, NamesDistinct
<1> QED
  BY <1>1, <1>7, ClientTakes

\* "allocate memory" ...
LEMMA UserTakes ==
  ASSUME ClientsInv, NEW size \in UserSizes, allocateMemory(size), blocks' = Row'
  PROVE  ClientsInv' /\ [Next]_blocks
PROOF
<1>1. pc = "command" /\ Goto("idle") /\ procs' = procs /\ history' = history
  BY DEF allocateMemory
<1>2. pc \notin Hands /\ pc' \notin Hands /\ back' \notin Hands /\ InHand = {} /\ InHand' = {}
      /\ Names' = Names
  BY <1>1 DEF Goto, Hands, InHand, Names
<1>3. CASE size > MAX_MEMORY \/ size = 0
  <2>1. UNCHANGED <<hm, owned>> /\ held' = held
    BY <1>3 DEF allocateMemory
  <2> QED
    BY <1>1, <1>2, <2>1, ClientKeeps
<1>4. CASE ~(size > MAX_MEMORY \/ size = 0)
  <2>1. size \in Sizes /\ allocate_memory(size) /\ held' = held \cup ({ret'} \ {NULL})
    BY <1>4, ProcessHeapAssumption DEF allocateMemory
  <2>2. Granted
    BY <2>1, ClientAsks
  <2>3. Parted(DOMAIN owned, DOMAIN procs, Names, LinesOf(history), held, {})
    BY <1>2 DEF ClientsInv, OneHolder
  <2>4. Parted(DOMAIN owned', DOMAIN procs, Names, LinesOf(history), held', {})
    <3>1. CASE ret' = NULL
      <4>1. DOMAIN owned' = DOMAIN owned /\ held' = held
        BY <2>1, <2>2, <3>1 DEF Granted
      <4> QED
        BY <2>3, <4>1
    <3>2. CASE ret' # NULL
      <4>1. /\ held' = held \cup {ret'} /\ ret' \notin DOMAIN owned
            /\ DOMAIN owned' = DOMAIN owned \cup {ret'}
        BY <2>1, <2>2, <3>2 DEF Granted
      <4> QED
        BY ONLY <2>3, <4>1 DEF Parted
    <3> QED
      BY <3>1, <3>2
  <2>5. OneHolder'
    BY <1>1, <1>2, <2>4 DEF ClientsInv, OneHolder, NamesDistinct
  <2> QED
    BY <2>1, <2>5, ClientTakes
<1> QED
  BY <1>3, <1>4

\* ... and "free memory", of an address that was printed.
LEMMA UserGives ==
  ASSUME ClientsInv, NEW a \in held, freeMemory(a), blocks' = Row'
  PROVE  ClientsInv' /\ [Next]_blocks
PROOF
<1>1. /\ pc = "command" /\ Goto("idle") /\ procs' = procs /\ history' = history
      /\ free_memory(a) /\ held' = held \ {a}
  BY DEF freeMemory
<1>2. InHand = {} /\ InHand' = {} /\ back' \notin Hands /\ Names' = Names
  BY <1>1 DEF Goto, Hands, InHand, Names
<1>3. Parted(DOMAIN owned, DOMAIN procs, Names, LinesOf(history), held, {})
  BY <1>2 DEF ClientsInv, OneHolder
<1>4. a \in DOMAIN owned
  BY <1>3 DEF Parted
<1>5. HeapOK' /\ [Next]_blocks /\ DOMAIN owned' = DOMAIN owned \ {a}
  BY <1>1, <1>4, FreeKeeps DEF ClientsInv
<1>6. Parted(DOMAIN owned', DOMAIN procs, Names, LinesOf(history), held', {})
  BY ONLY <1>1, <1>3, <1>5, a \in held DEF Parted
<1>7. OneHolder'
  BY <1>1, <1>2, <1>6 DEF ClientsInv, OneHolder, NamesDistinct
<1> QED
  BY <1>5, <1>7 DEF ClientsInv

LEMMA ClientsInitInv == RowInit => ClientsInv /\ Init
PROOF
<1> SUFFICES ASSUME RowInit PROVE ClientsInv /\ Init
  OBVIOUS
<1>1. /\ HeapInit /\ blocks = Row /\ DOMAIN procs = {} /\ history = << >> /\ held = {}
      /\ pc = "boot" /\ back = "boot"
  BY DEF RowInit, ClientsInit
<1>2. HeapOK /\ Init
  BY <1>1, HeapStarts
<1>3. DOMAIN owned = {}
  BY <1>1 DEF HeapInit
<1>4. Names = {} /\ InHand = {} /\ back \notin Hands
  BY <1>1 DEF Names, InHand, Hands
<1>5. history \in Seq(Nat) /\ LinesOf(history) = {} /\ Distinct(history)
  BY <1>1 DEF LinesOf, Distinct
<1>6. Parted(DOMAIN owned, DOMAIN procs, Names, LinesOf(history), held, InHand)
  BY <1>1, <1>3, <1>4, <1>5 DEF Parted
<1>7. OneHolder
  BY <1>1, <1>4, <1>5, <1>6 DEF OneHolder, NamesDistinct
<1> QED
  BY <1>2, <1>7 DEF ClientsInv

\* Whatever the clients do, each allocated block keeps its one holder, and
\* the row of blocks makes a step of HeapBlocks or none.
LEMMA ClientsNextInv == ClientsInv /\ [RowNext]_allVars => ClientsInv' /\ [Next]_blocks
PROOF
<1> SUFFICES ASSUME ClientsInv, [RowNext]_allVars PROVE ClientsInv' /\ [Next]_blocks
  OBVIOUS
<1>1. CASE UNCHANGED allVars
  <2>1. /\ blocks' = blocks /\ hm' = hm /\ owned' = owned /\ procs' = procs
        /\ history' = history /\ held' = held /\ pc' = pc /\ back' = back /\ arg' = arg
    BY <1>1 DEF allVars
  <2>2. blocks' = Row'
    <3>1. Row = RowOf(hm) /\ Row' = RowOf(hm')
      BY DEF Row, RowOf
    <3> QED
      BY <2>1, <3>1 DEF ClientsInv, HeapOK
  <2>3. HeapOK'
    BY <2>1, <2>2, HeapKept DEF ClientsInv
  <2>4. Names' = Names /\ InHand' = InHand
    BY <2>1 DEF Names, InHand
  <2>5. OneHolder'
    BY <2>1, <2>4 DEF ClientsInv, OneHolder, NamesDistinct
  <2> QED
    BY <2>1, <2>3, <2>5 DEF ClientsInv
<1>2. ASSUME RowNext PROVE ClientsInv' /\ [Next]_blocks
  <2> USE <1>2
  <2>0. blocks' = Row' /\ ClientsNext
    BY DEF RowNext
  <2>1. CASE pcb_allocate
    BY <2>0, <2>1, PcbTaken
  <2>2. CASE pcb_setup_name
    BY <2>0, <2>2, NameTaken
  <2>3. CASE pcb_setup_undo
    <3>1. /\ pc = "undo" /\ free_memory(arg) /\ Goto(SetupFailed(back)) /\ procs' = procs
          /\ history' = history /\ held' = held /\ back \notin Hands
      BY <2>3 DEF pcb_setup_undo, sys_free_mem, clients, ClientsInv, OneHolder
    <3>2. pc \in Hands /\ pc' \notin Hands /\ back' \notin Hands
      BY <3>1 DEF Goto, SetupFailed, Hands
    <3> QED
      BY <2>0, <3>1, <3>2, ClientGives
  <2>4. CASE Booted
    <3>1. /\ pc = "boot" /\ Goto("idle")
          /\ UNCHANGED <<hm, owned>> /\ procs' = procs /\ history' = history /\ held' = held
      BY <2>4 DEF Booted
    <3>2. pc \notin Hands /\ pc' \notin Hands /\ back' \notin Hands
      BY <3>1 DEF Goto, Hands
    <3> QED
      BY <2>0, <3>1, <3>2, ClientKeeps
  <2>5. ASSUME NEW p \in DOMAIN procs, pcb_free(p) PROVE ClientsInv' /\ [Next]_blocks
    BY <2>0, <2>5, NameGiven
  <2>6. CASE pcb_free_pcb
    <3>1. /\ pc = "pcb" /\ free_memory(arg) /\ Goto(back) /\ procs' = procs
          /\ history' = history /\ held' = held /\ back \notin Hands
      BY <2>6 DEF pcb_free_pcb, sys_free_mem, clients, ClientsInv, OneHolder
    <3>2. pc \in Hands /\ pc' \notin Hands /\ back' \notin Hands
      BY <3>1 DEF Goto, Hands
    <3> QED
      BY <2>0, <3>1, <3>2, ClientGives
  <2>7. CASE serial_poll
    BY <2>0, <2>7, LineTaken
  <2>8. CASE serial_poll_evict
    <3>1. /\ pc = "evict" /\ free_memory(arg) /\ Goto(back) /\ procs' = procs
          /\ history' = history /\ held' = held /\ back \notin Hands
      BY <2>8 DEF serial_poll_evict, sys_free_mem, clients, ClientsInv, OneHolder
    <3>2. pc \in Hands /\ pc' \notin Hands /\ back' \notin Hands
      BY <3>1 DEF Goto, Hands
    <3> QED
      BY <2>0, <3>1, <3>2, ClientGives
  <2>9. ASSUME NEW n \in UserSizes, allocateMemory(n) PROVE ClientsInv' /\ [Next]_blocks
    BY <2>0, <2>9, UserTakes
  <2>10. ASSUME NEW a \in held, freeMemory(a) PROVE ClientsInv' /\ [Next]_blocks
    BY <2>0, <2>10, UserGives
  <2>11. CASE OtherCommand
    <3>1. /\ pc \in {"command", "load"} /\ (Goto("load") \/ Goto("idle"))
          /\ UNCHANGED <<hm, owned>> /\ procs' = procs /\ history' = history /\ held' = held
      BY <2>11 DEF OtherCommand
    <3>2. pc \notin Hands /\ pc' \notin Hands /\ back' \notin Hands
      BY <3>1 DEF Goto, Hands
    <3> QED
      BY <2>0, <3>1, <3>2, ClientKeeps
  <2>12. CASE kpanic \/ Halt
    <3>1. /\ pc \in {"panic", "ended"} /\ pc' = pc /\ back' = back
          /\ UNCHANGED <<hm, owned>> /\ procs' = procs /\ history' = history /\ held' = held
      BY <2>12 DEF kpanic, Halt, vars
    <3>2. pc \notin Hands /\ pc' \notin Hands /\ back' \notin Hands
      BY <3>1 DEF Hands, ClientsInv, OneHolder
    <3> QED
      BY <2>0, <3>1, <3>2, ClientKeeps
  <2> QED
    BY <2>0, <2>1, <2>2, <2>3, <2>4, <2>5, <2>6, <2>7, <2>8, <2>9, <2>10, <2>11, <2>12
       DEF ClientsNext
<1> QED
  BY <1>1, <1>2

\* The invariant holds whatever the clients do.
THEOREM HeapInvariance == ClientsSpec => []ClientsInv
PROOF
<1>1. RowInit => ClientsInv
  BY ClientsInitInv
<1>2. ClientsInv /\ [RowNext]_allVars => ClientsInv'
  BY ClientsNextInv
<1> QED
  BY <1>1, <1>2, PTL DEF ClientsSpec

\* The lists implement the row of blocks: every call of allocate_memory is a
\* first fit, split or not, and every call of free_memory frees the block and
\* merges it with its free neighbours; nothing else changes the row.
THEOREM ListsImplementRow == ClientsSpec => Implements
PROOF
<1>1. RowInit => Init
  BY ClientsInitInv
<1>2. ClientsInv /\ [RowNext]_allVars => [Next]_blocks
  BY ClientsNextInv
<1> QED
  BY <1>1, <1>2, HeapInvariance, PTL DEF ClientsSpec, Implements, Spec

-----------------------------------------------------------------------------

(***************************************************************************)
(* What follows from the invariant.                                        *)
(***************************************************************************)

\* The blocks of HeapBlocks keep their layout when the lists make the steps.
THEOREM ListsKeepRow == ClientsSpec => [](TypeOK /\ Layout /\ Coalesced)
PROOF
<1>1. ClientsInv => TypeOK /\ Layout /\ Coalesced
  BY DEF ClientsInv, HeapOK, Inv
<1> QED
  BY <1>1, HeapInvariance, PTL

\* A sequence of all the addresses, with the pointers back, is a sound list.
LEMMA Listed ==
  ASSUME NEW S \in SUBSET Nat, NEW s, Enumerates(s, S), NEW field,
         \A x \in S : IsPrev(S, x, hm.mcb[x][field])
  PROVE  IsList(s, S, field)
PROOF
<1>1. /\ DOMAIN s = 1..Len(s)
      /\ \A i \in 1..Len(s) : s[i] \in S
      /\ \A x \in S : \E i \in 1..Len(s) : s[i] = x
      /\ \A i, j \in 1..Len(s) : i < j => s[i] < s[j]
  BY LenProperties DEF Enumerates
<1>2. Range(s) = S
  BY <1>1 DEF Range
<1>3. \A i \in 1..Len(s) : hm.mcb[s[i]][field] = IF i = 1 THEN NULL ELSE s[i - 1]
  <2> TAKE i \in 1..Len(s)
  <2>1. PICK v : v = hm.mcb[s[i]][field]
    OBVIOUS
  <2>2. IsPrev(S, s[i], v)
    BY <1>1, <2>1
  <2>3. v = IF i = 1 THEN NULL ELSE s[i - 1]
    BY <2>2, PrevRead
  <2> QED
    BY <2>1, <2>3
<1> QED
  BY <1>1, <1>2, <1>3 DEF IsList

\* The three walks, with what they meet.
LEMMA ListsWalked ==
  ASSUME ClientsInv
  PROVE  /\ Enumerates(Chain(Links(hm, "next"), 0), DOMAIN hm.mcb)
         /\ Enumerates(Chain(Links(hm, "rel_next"), hm.free_list), FreeBlocks)
         /\ Enumerates(Chain(Links(hm, "rel_next"), hm.allocated_list), Busy)
PROOF
<1>1. PICK D, F, A : D = DOMAIN hm.mcb /\ F = FreeBlocks /\ A = Busy
  OBVIOUS
<1>2. Lists(hm, D, F, A)
  BY <1>1 DEF ClientsInv, HeapOK, Whole
<1>3. PICK h, f, b : h = hm /\ f = hm.free_list /\ b = hm.allocated_list
  OBVIOUS
<1>4. /\ D \in SUBSET (0..HeapSize) /\ h \in Heaps(D) /\ F \subseteq D /\ A \subseteq D
      /\ RelList(F, f, h) /\ RelList(A, b, h) /\ Lists(h, D, F, A)
  BY <1>2, <1>3, ListsParts
<1>5. PICK s, t, u : /\ s = Chain(Links(h, "next"), 0) /\ t = Chain(Links(h, "rel_next"), f)
                     /\ u = Chain(Links(h, "rel_next"), b)
  OBVIOUS
<1>6. Enumerates(s, D)
  BY ONLY <1>4, <1>5, AllChain
<1>7. Enumerates(t, F)
  BY ONLY <1>4, <1>5, RelChain
<1>8. Enumerates(u, A)
  BY ONLY <1>4, <1>5, RelChain
<1> QED
  BY <1>1, <1>3, <1>5, <1>6, <1>7, <1>8

\* The lists of the MCBs agree with each other, in front and back, and with
\* the marks, whatever has been allocated, freed, split and merged.
THEOREM ListsStayInAgreement == ClientsSpec => []ListsAgree
PROOF
<1>1. ASSUME ClientsInv PROVE ListsAgree
  <2>1. PICK D, F, A : D = DOMAIN hm.mcb /\ F = FreeBlocks /\ A = Busy
    OBVIOUS
  <2>2. Lists(hm, D, F, A)
    BY <1>1, <2>1 DEF ClientsInv, HeapOK, Whole
  <2>3. /\ D \in SUBSET Nat /\ F \in SUBSET Nat /\ A \in SUBSET Nat
        /\ hm \in Heaps(D) /\ F \subseteq D /\ A \subseteq D
        /\ AllList(D, hm) /\ RelList(F, hm.free_list, hm) /\ RelList(A, hm.allocated_list, hm)
    BY <2>2, ListsParts
  <2>4. PICK s, t, u : /\ s = Chain(Links(hm, "next"), 0)
                       /\ t = Chain(Links(hm, "rel_next"), hm.free_list)
                       /\ u = Chain(Links(hm, "rel_next"), hm.allocated_list)
    OBVIOUS
  <2>5. Enumerates(s, D) /\ Enumerates(t, F) /\ Enumerates(u, A)
    BY <1>1, <2>1, <2>4, ListsWalked
  <2>6. \A x \in D : IsPrev(D, x, hm.mcb[x]["prev"])
    BY <2>3, AllPointers
  <2>7. \A x \in F : IsPrev(F, x, hm.mcb[x]["rel_prev"])
    BY <2>3, RelPointers
  <2>8. \A x \in A : IsPrev(A, x, hm.mcb[x]["rel_prev"])
    BY <2>3, RelPointers
  <2>9. IsList(s, D, "prev")
    BY <2>3, <2>5, <2>6, Listed
  <2>10. IsList(t, F, "rel_prev")
    BY <2>3, <2>5, <2>7, Listed
  <2>11. IsList(u, A, "rel_prev")
    BY <2>3, <2>5, <2>8, Listed
  <2> QED
    BY <2>1, <2>4, <2>9, <2>10, <2>11 DEF ListsAgree, Busy
<1> QED
  BY <1>1, HeapInvariance, PTL

\* What callers hold is inside blocks of their own.
LEMMA HeldApart == ClientsInv => OwnedApart
PROOF
<1> SUFFICES ASSUME ClientsInv PROVE OwnedApart
  OBVIOUS
<1>1. PICK D, A : D = DOMAIN hm.mcb /\ A = Busy
  OBVIOUS
<1>2. /\ Whole(hm, D, FreeBlocks, A) /\ Describes(blocks, hm, D) /\ D \in SUBSET Nat /\ A \subseteq D
      /\ DOMAIN owned = {start_address(a) : a \in A}
      /\ \A a \in A : /\ owned[start_address(a)] \in Nat
                      /\ owned[start_address(a)] <= hm.mcb[a].size
  BY <1>1, HeapFacts DEF ClientsInv, HeapOK
<1>3. hm \in Heaps(D)
  BY <1>2, ListsParts DEF Whole
<1>4. LaidOut(hm, D)
  BY <1>2, RowLayout DEF ClientsInv, HeapOK, Inv, Layout
<1>5. MCBSize \in Nat /\ HeapSize \in Nat
  BY HeapAssumption
<1>6. \A x \in D : x \in Nat /\ hm.mcb[x].size \in Nat
  BY <1>2, <1>3, HeapType
<1>7. \A x, y \in D : x < y => x + MCBSize + hm.mcb[x].size <= y
  BY <1>4 DEF LaidOut
<1>8. ASSUME NEW p \in DOMAIN owned
      PROVE  /\ p + owned[p] <= HeapSize
             /\ \A q \in DOMAIN owned \ {p} : Bytes(p) \cap Bytes(q) = {}
             /\ \A c \in DOMAIN hm.mcb : Bytes(p) \cap c..(c + MCBSize - 1) = {}
  <2>1. PICK a \in A : p = start_address(a)
    BY <1>2
  <2>2. PICK m, o : m = hm.mcb[a].size /\ o = owned[p]
    OBVIOUS
  <2>3. /\ a \in Nat /\ a \in D /\ m \in Nat /\ o \in Nat /\ o <= m /\ p = a + MCBSize
        /\ a + MCBSize + m <= HeapSize
    BY <1>2, <1>4, <1>6, <2>1, <2>2 DEF start_address, LaidOut
  <2>4. \A y \in D : a < y => a + MCBSize + m <= y
    BY <1>7, <2>2, <2>3
  <2>5. p + o <= HeapSize
    BY ONLY <1>5, <2>3
  <2>6. ASSUME NEW q \in DOMAIN owned \ {p}, NEW x \in Bytes(p), x \in Bytes(q) PROVE FALSE
    <3>1. PICK b \in A : q = start_address(b)
      BY <1>2
    <3>2. PICK n, r : n = hm.mcb[b].size /\ r = owned[q]
      OBVIOUS
    <3>3. /\ b \in Nat /\ b \in D /\ n \in Nat /\ r \in Nat /\ r <= n /\ q = b + MCBSize
      BY <1>2, <1>6, <3>1, <3>2 DEF start_address
    <3>4. /\ a < b => a + MCBSize + m <= b
          /\ b < a => b + MCBSize + n <= a
      BY <1>7, <2>3, <2>4, <3>2, <3>3
    <3>5. a # b
      BY <2>3, <3>3
    <3>6. x \in p..(p + o - 1) /\ x \in q..(q + r - 1)
      BY <2>2, <2>6, <3>2 DEF Bytes
    <3> QED
      BY ONLY <1>5, <2>3, <3>3, <3>4, <3>5, <3>6
  <2>7. ASSUME NEW c \in D, NEW x \in Bytes(p), x \in c..(c + MCBSize - 1) PROVE FALSE
    <3>1. PICK n : n = hm.mcb[c].size
      OBVIOUS
    <3>2. /\ c \in Nat /\ n \in Nat
          /\ a < c => a + MCBSize + m <= c
          /\ c < a => c + MCBSize + n <= a
      BY <1>6, <1>7, <2>3, <2>4, <3>1
    <3>3. x \in p..(p + o - 1) /\ x \in c..(c + MCBSize - 1)
      BY <2>2, <2>7 DEF Bytes
    <3> QED
      BY ONLY <1>5, <2>3, <3>2, <3>3
  <2>8. \A q \in DOMAIN owned \ {p} : Bytes(p) \cap Bytes(q) = {}
    BY <2>6
  <2>9. \A c \in D : Bytes(p) \cap c..(c + MCBSize - 1) = {}
    BY <2>7
  <2> QED
    BY <1>1, <2>2, <2>5, <2>8, <2>9
<1> QED
  BY <1>8 DEF OwnedApart

\* Two callers never share a byte, and none of them has an MCB in its bytes.
THEOREM CallersApart == ClientsSpec => []OwnedApart
PROOF
  BY HeldApart, HeapInvariance, PTL

\* The references of each kind.
IsPcb(r) == r[1] \in DOMAIN procs /\ r = <<r[1], "pcb", r[1]>>
IsName(r) == \E p \in DOMAIN procs : r = <<procs[p].name, "name", p>>
IsLine(r) == \E i \in 1..Len(history) : r = <<history[i], "history", i>>
IsUser(r) == r[1] \in held /\ r = <<r[1], "user", r[1]>>
IsHand(r) == pc \in Hands /\ r = <<arg, "hand", pc>>

LEMMA ReferenceKinds ==
  ASSUME history \in Seq(Nat)
  PROVE  \A r : r \in References <=> IsPcb(r) \/ IsName(r) \/ IsLine(r) \/ IsUser(r) \/ IsHand(r)
PROOF
<1> TAKE r
<1>1. DOMAIN history = 1..Len(history)
  BY LenProperties
<1>2. r \in {<<p, "pcb", p>> : p \in DOMAIN procs} <=> IsPcb(r)
  BY DEF IsPcb
<1>3. r \in {<<procs[p].name, "name", p>> : p \in DOMAIN procs} <=> IsName(r)
  BY DEF IsName
<1>4. r \in {<<history[i], "history", i>> : i \in DOMAIN history} <=> IsLine(r)
  BY <1>1 DEF IsLine
<1>5. r \in {<<a, "user", a>> : a \in held} <=> IsUser(r)
  BY DEF IsUser
<1>6. r \in (IF pc \in {"name", "undo", "pcb", "evict"} THEN {<<arg, "hand", pc>>} ELSE {})
        <=> IsHand(r)
  BY DEF IsHand, Hands
<1> QED
  BY <1>2, <1>3, <1>4, <1>5, <1>6 DEF References

\* Memory is neither leaked nor given back twice, whatever is allocated and
\* freed in whatever order, and also when there is no room for a PCB's name.
THEOREM NothingLeaks == ClientsSpec => []NoLeak
PROOF
<1>1. ASSUME ClientsInv PROVE NoLeak
  <2>1. /\ Parted(DOMAIN owned, DOMAIN procs, Names, LinesOf(history), held, InHand)
        /\ NamesDistinct /\ Distinct(history) /\ history \in Seq(Nat)
    BY <1>1 DEF ClientsInv, OneHolder
  <2>2. {start_address(a) : a \in DOMAIN hm.mcb \ FreeBlocks} = DOMAIN owned
    BY <1>1 DEF ClientsInv, HeapOK, Busy
  <2>3. \A r : r \in References <=> IsPcb(r) \/ IsName(r) \/ IsLine(r) \/ IsUser(r) \/ IsHand(r)
    BY <2>1, ReferenceKinds
  <2>4. \A r : /\ IsPcb(r) => r[1] \in DOMAIN procs
               /\ IsName(r) => r[1] \in Names
               /\ IsLine(r) => r[1] \in LinesOf(history)
               /\ IsUser(r) => r[1] \in held
               /\ IsHand(r) => r[1] \in InHand
    BY DEF IsPcb, IsName, IsLine, IsUser, IsHand, Names, LinesOf, InHand
  <2>5. \A r \in References : r[1] \in DOMAIN owned
    BY ONLY <2>1, <2>3, <2>4 DEF Parted
  <2>6. ASSUME NEW x \in DOMAIN owned PROVE \E r \in References : r[1] = x
    <3>1. CASE x \in DOMAIN procs
      <4>1. IsPcb(<<x, "pcb", x>>)
        BY <3>1 DEF IsPcb
      <4> QED
        BY <2>3, <4>1
    <3>2. CASE x \in Names
      <4>1. PICK p \in DOMAIN procs : x = procs[p].name
        BY <3>2 DEF Names
      <4>2. IsName(<<x, "name", p>>)
        BY <4>1 DEF IsName
      <4> QED
        BY <2>3, <4>2
    <3>3. CASE x \in LinesOf(history)
      <4>1. PICK i \in 1..Len(history) : x = history[i]
        BY <3>3 DEF LinesOf
      <4>2. IsLine(<<x, "history", i>>)
        BY <4>1 DEF IsLine
      <4> QED
        BY <2>3, <4>2
    <3>4. CASE x \in held
      <4>1. IsUser(<<x, "user", x>>)
        BY <3>4 DEF IsUser
      <4> QED
        BY <2>3, <4>1
    <3>5. CASE x \in InHand
      <4>1. IsHand(<<x, "hand", pc>>)
        BY <3>5 DEF IsHand, InHand
      <4> QED
        BY <2>3, <4>1
    <3> QED
      BY <2>1, <3>1, <3>2, <3>3, <3>4, <3>5 DEF Parted
  <2>7. ASSUME NEW r \in References, NEW s \in References, r[1] = s[1] PROVE r = s
    <3>1. \/ IsPcb(r) /\ IsPcb(s)
          \/ IsName(r) /\ IsName(s)
          \/ IsLine(r) /\ IsLine(s)
          \/ IsUser(r) /\ IsUser(s)
          \/ IsHand(r) /\ IsHand(s)
      <4>1. PICK x, P, N, H, U, X : /\ x = r[1] /\ P = DOMAIN procs /\ N = Names
                                    /\ H = LinesOf(history) /\ U = held /\ X = InHand
        OBVIOUS
      <4>2. IsPcb(r) \/ IsName(r) \/ IsLine(r) \/ IsUser(r) \/ IsHand(r)
        BY <2>3
      <4>3. IsPcb(s) \/ IsName(s) \/ IsLine(s) \/ IsUser(s) \/ IsHand(s)
        BY <2>3
      <4>4. /\ IsPcb(r) => x \in P
            /\ IsName(r) => x \in N
            /\ IsLine(r) => x \in H
            /\ IsUser(r) => x \in U
            /\ IsHand(r) => x \in X
        BY <2>4, <4>1
      <4>5. /\ IsPcb(s) => x \in P
            /\ IsName(s) => x \in N
            /\ IsLine(s) => x \in H
            /\ IsUser(s) => x \in U
            /\ IsHand(s) => x \in X
        BY <2>4, <2>7, <4>1
      <4>6. /\ P \cap (N \cup H \cup U \cup X) = {} /\ N \cap (H \cup U \cup X) = {}
            /\ H \cap (U \cup X) = {} /\ U \cap X = {}
        BY <2>1, <4>1 DEF Parted
      <4>7. /\ x \in P => x \notin N /\ x \notin H /\ x \notin U /\ x \notin X
            /\ x \in N => x \notin H /\ x \notin U /\ x \notin X
            /\ x \in H => x \notin U /\ x \notin X
            /\ x \in U => x \notin X
        BY ONLY <4>6
      <4> QED
        BY ONLY <4>2, <4>3, <4>4, <4>5, <4>7
    <3>2. CASE IsPcb(r) /\ IsPcb(s)
      BY <2>7, <3>2 DEF IsPcb
    <3>3. CASE IsName(r) /\ IsName(s)
      <4>1. PICK p \in DOMAIN procs : r = <<procs[p].name, "name", p>>
        BY <3>3 DEF IsName
      <4>2. PICK q \in DOMAIN procs : s = <<procs[q].name, "name", q>>
        BY <3>3 DEF IsName
      <4>3. p = q
        BY <2>1, <2>7, <4>1, <4>2 DEF NamesDistinct
      <4> QED
        BY <4>1, <4>2, <4>3
    <3>4. CASE IsLine(r) /\ IsLine(s)
      <4>1. PICK i \in 1..Len(history) : r = <<history[i], "history", i>>
        BY <3>4 DEF IsLine
      <4>2. PICK j \in 1..Len(history) : s = <<history[j], "history", j>>
        BY <3>4 DEF IsLine
      <4>3. i = j
        BY <2>1, <2>7, <4>1, <4>2 DEF Distinct
      <4> QED
        BY <4>1, <4>2, <4>3
    <3>5. CASE IsUser(r) /\ IsUser(s)
      BY <2>7, <3>5 DEF IsUser
    <3>6. CASE IsHand(r) /\ IsHand(s)
      BY <3>6 DEF IsHand
    <3> QED
      BY <3>1, <3>2, <3>3, <3>4, <3>5, <3>6
  <2>8. {r[1] : r \in References} = DOMAIN owned
    BY <2>5, <2>6
  <2>9. OwnedApart
    BY <1>1, HeldApart
  <2> QED
    BY <2>2, <2>7, <2>8, <2>9 DEF NoLeak
<1> QED
  BY <1>1, HeapInvariance, PTL

\* "show all memory" always starts at the first block, for that is the head
\* of one of the two lists.
LEMMA LowerHead ==
  ASSUME NEW h, NEW D, NEW F, NEW A, Whole(h, D, F, A), NEW heads,
         heads = {h.free_list, h.allocated_list} \ {NULL}
  PROVE  /\ heads # {} /\ (CHOOSE a \in heads : \A b \in heads : a <= b) = 0
PROOF
<1>1. /\ D \in SUBSET Nat /\ D = F \cup A /\ F \subseteq D /\ A \subseteq D /\ AllList(D, h)
      /\ IsFirst(F, h.free_list) /\ IsFirst(A, h.allocated_list) /\ NULL \notin D
      /\ h.free_list \in F \cup {NULL} /\ h.allocated_list \in A \cup {NULL}
  BY ListsParts DEF Whole
<1>2. IsFirst(D, 0) /\ 0 # NULL
  BY <1>1, NullAssumption DEF AllList, IsOrdered
<1>3. 0 \in D /\ \A x \in D : 0 <= x
  BY ONLY <1>2 DEF IsFirst
<1>4. heads \subseteq D
  BY <1>1
<1>5. 0 \in heads
  <2>1. CASE 0 \in F
    <3>1. h.free_list \in F /\ h.free_list <= 0
      BY <1>1, <2>1 DEF IsFirst
    <3>2. h.free_list = 0
      <4>1. h.free_list \in Nat
        BY <1>1, <3>1
      <4> QED
        BY ONLY <3>1, <4>1
    <3> QED
      BY <1>2, <3>2
  <2>2. CASE 0 \in A
    <3>1. h.allocated_list \in A /\ h.allocated_list <= 0
      BY <1>1, <2>2 DEF IsFirst
    <3>2. h.allocated_list = 0
      <4>1. h.allocated_list \in Nat
        BY <1>1, <3>1
      <4> QED
        BY ONLY <3>1, <4>1
    <3> QED
      BY <1>2, <3>2
  <2> QED
    BY <1>1, <1>3, <2>1, <2>2
<1>6. PICK m : m = CHOOSE a \in heads : \A b \in heads : a <= b
  OBVIOUS
<1>7. m \in heads /\ \A b \in heads : m <= b
  <2>1. \E a \in heads : \A b \in heads : a <= b
    BY <1>3, <1>4, <1>5
  <2> QED
    BY <1>6, <2>1
<1>8. m <= 0 /\ m \in Nat
  BY <1>1, <1>4, <1>5, <1>7
<1>9. m = 0
  BY ONLY <1>8
<1> QED
  BY <1>5, <1>6, <1>9

\* The start addresses of the blocks that a walk meets.
LEMMA StartsShown ==
  ASSUME NEW S \in SUBSET Nat, NEW s, Enumerates(s, S)
  PROVE  /\ Range(Starts(s)) = {start_address(x) : x \in S}
         /\ \A i, j \in DOMAIN Starts(s) : i < j => Starts(s)[i] < Starts(s)[j]
PROOF
<1>1. /\ DOMAIN s = 1..Len(s)
      /\ \A i \in 1..Len(s) : s[i] \in S
      /\ \A x \in S : \E i \in 1..Len(s) : s[i] = x
      /\ \A i, j \in 1..Len(s) : i < j => s[i] < s[j]
  BY LenProperties DEF Enumerates
<1>2. DOMAIN Starts(s) = 1..Len(s) /\ \A i \in 1..Len(s) : Starts(s)[i] = start_address(s[i])
  BY <1>1 DEF Starts
<1>3. Range(Starts(s)) = {start_address(x) : x \in S}
  <2>1. Range(Starts(s)) = {start_address(s[i]) : i \in 1..Len(s)}
    BY <1>2 DEF Range
  <2>2. {start_address(s[i]) : i \in 1..Len(s)} = {start_address(x) : x \in S}
    BY ONLY <1>1
  <2> QED
    BY ONLY <2>1, <2>2
<1>4. ASSUME NEW i \in 1..Len(s), NEW j \in 1..Len(s), i < j
      PROVE  start_address(s[i]) < start_address(s[j])
  <2>1. s[i] \in Nat /\ s[j] \in Nat /\ s[i] < s[j] /\ MCBSize \in Nat
    BY <1>1, <1>4, HeapAssumption
  <2> QED
    BY ONLY <2>1 DEF start_address
<1> QED
  BY <1>2, <1>3, <1>4

\* "show all memory" finds every block, though no pointer leads to the first.
THEOREM EveryBlockShown == ClientsSpec => []ShowsEveryBlock
PROOF
<1>1. ASSUME ClientsInv PROVE ShowsEveryBlock
  <2>1. PICK D, F, A : D = DOMAIN hm.mcb /\ F = FreeBlocks /\ A = Busy
    OBVIOUS
  <2>2. Whole(hm, D, F, A)
    BY <1>1, <2>1 DEF ClientsInv, HeapOK
  <2>3. /\ D \in SUBSET Nat /\ F \in SUBSET Nat /\ A \in SUBSET Nat /\ D = F \cup A
    BY <2>2, ListsParts DEF Whole
  <2>4. PICK heads : heads = {hm.free_list, hm.allocated_list} \ {NULL}
    OBVIOUS
  <2>5. heads # {} /\ (CHOOSE a \in heads : \A b \in heads : a <= b) = 0
    BY ONLY <2>2, <2>4, LowerHead
  <2>6. PICK s, t, u : /\ s = Chain(Links(hm, "next"), 0)
                       /\ t = Chain(Links(hm, "rel_next"), hm.free_list)
                       /\ u = Chain(Links(hm, "rel_next"), hm.allocated_list)
    OBVIOUS
  <2>7. Enumerates(s, D) /\ Enumerates(t, F) /\ Enumerates(u, A)
    BY <1>1, <2>1, <2>6, ListsWalked
  <2>8. showAllMemory = Starts(s) /\ showFreeMemory = Starts(t) /\ showAllocatedMemory = Starts(u)
    BY <2>4, <2>5, <2>6 DEF showAllMemory, showFreeMemory, showAllocatedMemory
  <2>9. /\ Range(Starts(s)) = {start_address(x) : x \in D}
        /\ \A i, j \in DOMAIN Starts(s) : i < j => Starts(s)[i] < Starts(s)[j]
    BY <2>3, <2>7, StartsShown
  <2>10. /\ Range(Starts(t)) = {start_address(x) : x \in F}
         /\ Range(Starts(u)) = {start_address(x) : x \in A}
    BY <2>3, <2>7, StartsShown
  <2>11. Range(Starts(s)) = Range(Starts(u)) \cup Range(Starts(t))
    BY ONLY <2>3, <2>9, <2>10
  <2> QED
    BY ONLY <2>8, <2>9, <2>11 DEF ShowsEveryBlock
<1> QED
  BY <1>1, HeapInvariance, PTL

=============================================================================
