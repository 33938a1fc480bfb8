----------------------------- MODULE HeapBlocks -----------------------------
(***************************************************************************)
(* What the heap manager does to the heap: a row of blocks, each a control *)
(* block (MCB) followed by its usable bytes, split by allocation and       *)
(* merged when freed.  Module HeapManager has the lists that implement it. *)
(***************************************************************************)
EXTENDS HeapConstants

VARIABLE blocks   \* the blocks by address: [addr, size, free], addr the MCB's

Block == [addr : Nat, size : Nat, free : BOOLEAN]

Init == blocks = << [addr |-> 0, size |-> HeapSize - MCBSize, free |-> TRUE] >>

-----------------------------------------------------------------------------

\* First fit: the first free block that is large enough.
FirstFit(n, i) ==
  /\ blocks[i].free /\ blocks[i].size >= n
  /\ \A j \in 1..(i - 1) : blocks[j].free => blocks[j].size < n

\* Block i is allocated whole, ...
Take(n, i) ==
  /\ FirstFit(n, i)
  /\ blocks[i].size <= n + MCBSize
  /\ blocks' = [blocks EXCEPT ![i].free = FALSE]

\* ... or its end becomes a free block of its own.
Split(n, i) ==
  /\ FirstFit(n, i)
  /\ blocks[i].size > n + MCBSize
  /\ blocks' = InsertAt([blocks EXCEPT ![i] = [addr |-> @.addr, size |-> n, free |-> FALSE]],
                        i + 1,
                        [addr |-> blocks[i].addr + MCBSize + n,
                         size |-> blocks[i].size - n - MCBSize,
                         free |-> TRUE])

IsFree(i) == i \in DOMAIN blocks /\ blocks[i].free

\* Block i takes in its successor; the successor's MCB is not added.
Absorb(s, i) == RemoveAt([s EXCEPT ![i].size = @ + s[i + 1].size], i + 1)

\* Block i is freed and merged with its free neighbours, the next one first.
Free(i) ==
  LET freed == [blocks EXCEPT ![i].free = TRUE]
      fwd == IF IsFree(i + 1) THEN Absorb(freed, i) ELSE freed
  IN  /\ ~blocks[i].free
      /\ blocks' = IF IsFree(i - 1) THEN Absorb(fwd, i - 1) ELSE fwd

Next ==
  \E i \in DOMAIN blocks :
    \/ \E n \in Sizes : Take(n, i) \/ Split(n, i)
    \/ Free(i)

Spec == Init /\ [][Next]_blocks

-----------------------------------------------------------------------------

TypeOK == blocks \in Seq(Block)

\* Where the usable bytes of block i of row s end.
End(s, i) == s[i].addr + MCBSize + s[i].size

\* The blocks of row s are in the order of their addresses and inside the
\* heap, and none reaches into the MCB of a later one.
Apart(s) ==
  \A i \in DOMAIN s :
    /\ End(s, i) <= HeapSize
    /\ \A j \in DOMAIN s : i < j => End(s, i) <= s[j].addr

\* Splitting and merging never make two blocks overlap.
Layout == Apart(blocks)

\* Free neighbours are always merged, so first fit sees the largest blocks
\* there are, and a block in front of all allocated ones is the first block.
Coalesced == \A i \in DOMAIN blocks : blocks[i].free => ~IsFree(i + 1)

=============================================================================
