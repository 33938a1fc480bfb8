---------------------------- MODULE HeapManager ----------------------------
(***************************************************************************)
(* kernel/library.c: the heap as three doubly linked lists of MCBs.  Every *)
(* MCB is on the list of all blocks (next, prev), and on the free or the   *)
(* allocated list (rel_next, rel_prev).  A pointer to an MCB is its offset *)
(* in the heap; start_address is MCBSize bytes further.                    *)
(***************************************************************************)
EXTENDS HeapConstants, LinkedLists

ASSUME NullAssumption == NULL \notin Nat

VARIABLES hm,     \* [mcb, free_list, allocated_list]
          owned,  \* what callers hold: start address -> size asked for
          ret     \* what the last call returned

heap == <<hm, owned, ret>>

start_address(a) == a + MCBSize

\* f with v at x.
Put(f, x, v) == [y \in DOMAIN f \cup {x} |-> IF y = x THEN v ELSE f[y]]

\* One pointer field of every MCB, for the walks of LinkedLists.
Links(h, field) ==
  [a \in DOMAIN h.mcb \cup {NULL} |-> IF a = NULL THEN NULL ELSE h.mcb[a][field]]

\* a->field = v, if a is not NULL.
Set(h, a, field, v) == IF a = NULL THEN h ELSE [h EXCEPT !.mcb[a][field] = v]

initialize_heap ==
  [mcb |-> [a \in {0} |-> [size |-> HeapSize - MCBSize, is_free |-> TRUE,
                           next |-> NULL, prev |-> NULL,
                           rel_next |-> NULL, rel_prev |-> NULL]],
   free_list |-> 0,
   allocated_list |-> NULL]

HeapInit ==
  /\ hm = initialize_heap
  /\ owned = << >>
  /\ ret = 0

-----------------------------------------------------------------------------

(***************************************************************************)
(* allocate_memory.                                                        *)
(***************************************************************************)

\* Mutant: a block of just the size is passed over.
FindFitLarger(h, n) ==
  FirstOf(Links(h, "next"), h.free_list,
          {a \in DOMAIN h.mcb : h.mcb[a].is_free /\ h.mcb[a].size > n})

\* The walk starts at the first free block but follows the list of all.
FindFit(h, n) ==
  FirstOf(Links(h, "next"), h.free_list,
          {a \in DOMAIN h.mcb : h.mcb[a].is_free /\ h.mcb[a].size >= n})

\* Mutant: no room is asked for the new block's MCB.
SplitsWithoutMCB(h, a, n) == h.mcb[a].size > n

\* Block a has room for the n bytes asked, another MCB and a byte to spare.
Splits(h, a, n) == h.mcb[a].size > n + MCBSize

\* Mutant: the new block's MCB is not taken from its size.
SplitBlockTooLarge(h, a, n) ==
  LET old == h.mcb[a]
      new == start_address(a) + n
      added == [h EXCEPT !.mcb = Put(@, new, [size |-> old.size - n,
                                               is_free |-> TRUE,
                                               next |-> old.next, prev |-> a,
                                               rel_next |-> old.rel_next,
                                               rel_prev |-> old.rel_prev]),
                         !.mcb[a].next = new,
                         !.mcb[a].size = n,
                         !.free_list = IF old.rel_prev = NULL THEN new ELSE @]
  IN  Set(Set(Set(added, old.next, "prev", new),
              old.rel_next, "rel_prev", new),
          old.rel_prev, "rel_next", new)

\* The end of block a becomes a new block, in a's place in the free list.
SplitBlock(h, a, n) ==
  LET old == h.mcb[a]
      new == start_address(a) + n
      added == [h EXCEPT !.mcb = Put(@, new, [size |-> old.size - n - MCBSize,
                                               is_free |-> TRUE,
                                               next |-> old.next, prev |-> a,
                                               rel_next |-> old.rel_next,
                                               rel_prev |-> old.rel_prev]),
                         !.mcb[a].next = new,
                         !.mcb[a].size = n,
                         !.free_list = IF old.rel_prev = NULL THEN new ELSE @]
  IN  Set(Set(Set(added, old.next, "prev", new),
              old.rel_next, "rel_prev", new),
          old.rel_prev, "rel_next", new)

\* Mutant: the successor keeps its rel_prev.
UnlinkOneWay(h, a, list) ==
  LET b == h.mcb[a]
      first == [h EXCEPT ![list] = IF b.rel_prev = NULL THEN b.rel_next ELSE @]
  IN  Set(first, b.rel_prev, "rel_next", b.rel_next)

\* Block a leaves the free list (or, in free_memory, the allocated list).
Unlink(h, a, list) ==
  LET b == h.mcb[a]
      first == [h EXCEPT ![list] = IF b.rel_prev = NULL THEN b.rel_next ELSE @]
  IN  Set(Set(first, b.rel_prev, "rel_next", b.rel_next),
          b.rel_next, "rel_prev", b.rel_prev)

\* The last allocated block in front of address a.
LastBefore(h, a) ==
  FirstOf(Links(h, "rel_next"), h.allocated_list,
          {x \in DOMAIN h.mcb : x < a /\ (h.mcb[x].rel_next = NULL \/ h.mcb[x].rel_next > a)})

\* Block a joins the allocated list, which is ordered by address.  In front
\* of the head its rel_prev is left as the free list had it.
LinkAllocated(h, a) ==
  LET head == h.allocated_list
      index == LastBefore(h, a)
      busy == [h EXCEPT !.mcb[a].is_free = FALSE]
  IN  IF head = NULL
      THEN [busy EXCEPT !.allocated_list = a,
                        !.mcb[a].rel_next = NULL, !.mcb[a].rel_prev = NULL]
      ELSE IF head > a
      THEN [busy EXCEPT !.mcb[a].rel_next = head,
                        !.mcb[head].rel_prev = a,
                        !.allocated_list = a]
      ELSE LET next == h.mcb[index].rel_next
               linked == [busy EXCEPT !.mcb[a].rel_next = next,
                                      !.mcb[a].rel_prev = index,
                                      !.mcb[index].rel_next = a]
           IN  Set(linked, next, "rel_prev", a)

allocate_memory(n) ==
  LET a == FindFit(hm, n)
      taken == IF Splits(hm, a, n) THEN SplitBlock(hm, a, n)
               ELSE Unlink(hm, a, "free_list")
  IN  IF a = NULL
      THEN ret' = NULL /\ UNCHANGED <<hm, owned>>
      ELSE /\ hm' = LinkAllocated(taken, a)
           /\ owned' = Put(owned, start_address(a), n)
           /\ ret' = start_address(a)

-----------------------------------------------------------------------------

(***************************************************************************)
(* free_memory.                                                            *)
(***************************************************************************)

\* Block a joins the free list, which is ordered by address.
LinkFree(h, a) ==
  LET head == h.free_list
      idle == [h EXCEPT !.mcb[a].is_free = TRUE,
                        !.mcb[a].rel_next = NULL, !.mcb[a].rel_prev = NULL]
      index == FirstOf(Links(idle, "rel_next"), head,
                       {x \in DOMAIN h.mcb : x > a \/ idle.mcb[x].rel_next = NULL})
      prev == idle.mcb[index].rel_prev
  IN  IF head = NULL \/ head > a
      THEN Set([idle EXCEPT !.free_list = a, !.mcb[a].rel_next = head],
               head, "rel_prev", a)
      ELSE IF index > a
      THEN [idle EXCEPT !.mcb[prev].rel_next = a,
                        !.mcb[a].rel_prev = prev,
                        !.mcb[a].rel_next = index,
                        !.mcb[index].rel_prev = a]
      ELSE [idle EXCEPT !.mcb[index].rel_next = a,
                        !.mcb[a].rel_prev = index]

\* Block a takes in the next one, whose MCB becomes part of no block.
Merge(h, a) ==
  LET b == h.mcb[a].next
      old == h.mcb[b]
      grown == [h EXCEPT !.mcb[a].size = @ + old.size,
                         !.mcb[a].rel_next = old.rel_next,
                         !.mcb[a].next = old.next]
      relinked == Set(Set(grown, old.rel_next, "rel_prev", a), old.next, "prev", a)
  IN  [relinked EXCEPT !.mcb = Restrict(@, DOMAIN @ \ {b})]

MergeNext(h, a) ==
  LET next == h.mcb[a].next
  IN  IF next # NULL /\ h.mcb[next].is_free THEN Merge(h, a) ELSE h

\* Mutant: the last block is never merged into the one before it.
MergePrevUnlessLast(h, a) ==
  LET prev == h.mcb[a].prev
      next == h.mcb[a].next
  IN  IF prev # NULL /\ h.mcb[prev].is_free /\ next # NULL THEN Merge(h, prev) ELSE h

MergePrev(h, a) ==
  LET prev == h.mcb[a].prev
  IN  IF prev # NULL /\ h.mcb[prev].is_free THEN Merge(h, prev) ELSE h

\* The walk starts at the first allocated block but follows the list of all.
free_memory(ptr) ==
  LET a == FirstOf(Links(hm, "next"), hm.allocated_list,
                   {x \in DOMAIN hm.mcb : start_address(x) = ptr})
      freed == LinkFree(Unlink(hm, a, "allocated_list"), a)
  IN  IF a = NULL
      THEN ret' = -1 /\ UNCHANGED <<hm, owned>>
      ELSE /\ hm' = MergePrev(MergeNext(freed, a), a)
           /\ owned' = Restrict(owned, DOMAIN owned \ {ptr})
           /\ ret' = 0

-----------------------------------------------------------------------------

Address == 0..HeapSize

\* The heap by itself: the "free memory" command passes whatever address the
\* user types.  What is called, and when, is in module ProcessHeap.
HeapNext ==
  \/ \E n \in Sizes : allocate_memory(n)
  \/ \E ptr \in Address : free_memory(ptr)

HeapSpec == HeapInit /\ [][HeapNext]_heap

-----------------------------------------------------------------------------

\* s holds exactly the MCBs in S, by address, and prev is next reversed.
IsList(s, S, prev) ==
  /\ Range(s) = S
  /\ \A i \in DOMAIN s : hm.mcb[s[i]][prev] = IF i = 1 THEN NULL ELSE s[i - 1]
  /\ \A i, j \in DOMAIN s : i < j => s[i] < s[j]

FreeBlocks == {a \in DOMAIN hm.mcb : hm.mcb[a].is_free}

\* The three lists are sound, in the order of the addresses, and agree on
\* which blocks are free: every block that is_free says is free can be found
\* from free_list, every other one from allocated_list.
ListsAgree ==
  /\ IsList(Chain(Links(hm, "next"), 0), DOMAIN hm.mcb, "prev")
  /\ IsList(Chain(Links(hm, "rel_next"), hm.free_list), FreeBlocks, "rel_prev")
  /\ IsList(Chain(Links(hm, "rel_next"), hm.allocated_list),
            DOMAIN hm.mcb \ FreeBlocks, "rel_prev")

\* The bytes a caller may use.
Bytes(p) == p..(p + owned[p] - 1)

\* Callers never share a byte, and none of their bytes hold an MCB.
OwnedApart ==
  \A p \in DOMAIN owned :
    /\ p + owned[p] <= HeapSize
    /\ \A q \in DOMAIN owned \ {p} : Bytes(p) \cap Bytes(q) = {}
    /\ \A a \in DOMAIN hm.mcb : Bytes(p) \cap a..(a + MCBSize - 1) = {}

\* free_memory reports success only for the start of an allocated block.
FreeChecked ==
  [][\A ptr \in Address : free_memory(ptr) /\ ret' = 0 => ptr \in DOMAIN owned]_heap

\* The heap read along the list of all blocks, as module HeapBlocks has it.
Row ==
  LET all == Chain(Links(hm, "next"), 0)
  IN  [i \in DOMAIN all |-> [addr |-> all[i], size |-> hm.mcb[all[i]].size,
                             free |-> hm.mcb[all[i]].is_free]]

=============================================================================
